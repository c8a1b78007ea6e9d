--------------------------- MODULE GameZone_proofs ---------------------------
(***************************************************************************)
(* Proofs about the game service, for any number of registrations, logins  *)
(* and names and any size of the pool: ZoneInv is inductive, and behind it *)
(* every registered player has his name, his uid, his stored role and his  *)
(* node of the pool to himself.                                            *)
(*                                                                         *)
(* One lemma per action, one step of it per conjunct of ZoneInv that the   *)
(* action can disturb; the first steps of each say what it does, and which *)
(* facts of ZoneInv make the transaction at hand nobody else's.            *)
(***************************************************************************)
EXTENDS GameZone, TLAPS

\* What is in a sequence, and whose it is, after Append ...
LEMMA AppendFacts ==
  ASSUME NEW S, NEW s \in Seq(S), NEW e \in S
  PROVE  /\ Append(s, e) \in Seq(S)
         /\ Elems(Append(s, e)) = Elems(s) \cup {e}
         /\ Txs(Append(s, e)) = Txs(s) \cup {e.tx}
         /\ Once(s) /\ e.tx \notin Txs(s) => Once(Append(s, e))
<1> PICK a : a = Append(s, e)
  OBVIOUS
<1>1. /\ a \in Seq(S) /\ DOMAIN a = DOMAIN s \cup {Len(s) + 1}
      /\ Len(s) + 1 \notin DOMAIN s
      /\ \A i \in DOMAIN s : a[i] = s[i]
      /\ a[Len(s) + 1] = e
  OBVIOUS
<1>2. Elems(a) = Elems(s) \cup {e}
  BY <1>1 DEF Elems
<1>3. Txs(a) = Txs(s) \cup {e.tx}
  BY <1>2 DEF Txs
<1>4. ASSUME Once(s), e.tx \notin Txs(s)
      PROVE  Once(a)
  <2>1. \A i \in DOMAIN s : s[i].tx # e.tx
    BY <1>4 DEF Txs, Elems
  <2> QED BY <1>1, <1>4, <2>1 DEF Once
<1> QED BY <1>1, <1>2, <1>3, <1>4

\* ... and after Tail.
LEMMA TailFacts ==
  ASSUME NEW S, NEW s \in Seq(S), s # <<>>
  PROVE  /\ Tail(s) \in Seq(S)
         /\ Head(s) \in Elems(s) /\ Head(s) \in S /\ Head(s).tx \in Txs(s)
         /\ Elems(Tail(s)) \subseteq Elems(s)
         /\ Txs(Tail(s)) \subseteq Txs(s)
         /\ Once(s) => Once(Tail(s)) /\ Head(s).tx \notin Txs(Tail(s))
         /\ Once(s) => \A m \in Elems(s) : m.tx = Head(s).tx => m = Head(s)
<1>1. /\ Tail(s) \in Seq(S) /\ Head(s) = s[1] /\ 1 \in DOMAIN s
      /\ \A i \in DOMAIN Tail(s) :
           i + 1 \in DOMAIN s /\ Tail(s)[i] = s[i + 1] /\ i + 1 # 1 /\ i \in Nat
  OBVIOUS
<1>2. /\ Elems(Tail(s)) \subseteq Elems(s) /\ Head(s) \in Elems(s)
      /\ Head(s) \in S
  BY <1>1 DEF Elems
<1>3. Txs(Tail(s)) \subseteq Txs(s) /\ Head(s).tx \in Txs(s)
  BY <1>2 DEF Txs
<1>4. ASSUME Once(s)
      PROVE  Once(Tail(s)) /\ Head(s).tx \notin Txs(Tail(s))
  BY <1>1, <1>4 DEF Once, Txs, Elems
<1>5. ASSUME Once(s)
      PROVE  \A m \in Elems(s) : m.tx = Head(s).tx => m = Head(s)
  BY <1>1, <1>5 DEF Once, Elems
<1> QED BY <1>1, <1>2, <1>3, <1>4, <1>5

\* What is in a sequence over S is in S.
LEMMA ElemsIn ==
  ASSUME NEW S, NEW s \in Seq(S)
  PROVE  Elems(s) \subseteq S
BY DEF Elems

\* Whoever has an element in the sequence is in Txs.
LEMMA TxOf ==
  \A s : \A m \in Elems(s) : m.tx \in Txs(s)
BY DEF Txs

\* The reply redis gives to the command it takes, when it is given.
LEMMA ReplyFacts ==
  ASSUME ZoneInv, commands # <<>>,
         NEW status \in {"ok", "nil", "error"}, NEW v \in Nat \cup Regs \cup {None},
         Reply(Head(commands), status, v)
  PROVE  \E m \in Replies :
           /\ m.tx = Head(commands).tx
           /\ m.status # "error" => m.status = status /\ m.value = v
           /\ replies' \in Seq(Replies)
           /\ Elems(replies') = Elems(replies) \cup {m}
           /\ Txs(replies') = Txs(replies) \cup {m.tx}
           /\ Once(replies')
<1>1. Head(commands) \in Commands /\ Head(commands).tx \in Txs(commands)
  BY TailFacts DEF ZoneInv, ZoneTypeOK
<1>2. PICK m \in Replies :
        /\ m.tx = Head(commands).tx
        /\ m.status # "error" => m.status = status /\ m.value = v
        /\ replies' = Append(replies, m)
  BY <1>1 DEF Reply, Replies, Commands
<1>3. replies \in Seq(Replies) /\ Once(replies) /\ m.tx \notin Txs(replies)
  BY <1>1, <1>2 DEF ZoneInv, ZoneTypeOK, OneAtATime
<1> QED BY <1>2, <1>3, AppendFacts

\* The command redis takes, and the commands that remain.
LEMMA CommandFacts ==
  ASSUME ZoneInv, commands # <<>>, commands' = Tail(commands)
  PROVE  /\ commands' \in Seq(Commands)
         /\ Head(commands) \in Elems(commands) /\ Head(commands) \in Commands
         /\ Head(commands).tx \in Txs(commands) /\ Head(commands).tx \in Trans
         /\ Elems(commands') \subseteq Elems(commands)
         /\ Txs(commands') \subseteq Txs(commands)
         /\ Once(commands') /\ Head(commands).tx \notin Txs(commands')
<1>1. commands \in Seq(Commands) /\ Once(commands)
  BY DEF ZoneInv, ZoneTypeOK, OneAtATime
<1>2. Head(commands) \in Commands
  BY <1>1, TailFacts
<1>3. Head(commands).tx \in Trans
  BY <1>2 DEF Commands
<1> QED BY <1>1, <1>2, <1>3, TailFacts

\* A request that cannot be parsed.
LEMMA ParseFailsKeeps ==
  ASSUME ZoneInv, crash = None, NEW t \in Trans, ParseFails(t)
  PROVE  ZoneInv'
<1> USE ZoneAssumption DEF ZoneInv, redis, link, players, trans
<1>u. /\ stage' = [stage EXCEPT ![t] = "silent"] /\ stage[t] = "new"
      /\ UNCHANGED <<redis, link, players, name, uid, answer, worker, redox, crash>>
  BY DEF ParseFails
<1>1. ZoneTypeOK'
  BY <1>u, TxOf DEF ZoneTypeOK, Nodes, Taken, NullOnlyWhenFull, RedoxStates,
     Idle, Trans
<1>2. OneAtATime'
  BY <1>u, TxOf DEF OneAtATime, Calling, Idle, Trans
<1>3. NamesTaken'
  BY <1>u, TxOf DEF NamesTaken, HasName
<1>4. UidsCounted'
  BY <1>u, TxOf DEF UidsCounted, HasUid, UidSet, ZoneTypeOK, Trans
<1>5. UidSet'
  BY <1>u, TxOf DEF UidSet, OneAtATime
<1>6. RolesInPool'
  BY <1>u, TxOf DEF RolesInPool, Holds, InPool, Idle, UidSet, ZoneTypeOK,
     Trans
<1>7. RolesStored'
  BY <1>u, TxOf DEF RolesStored, OneAtATime, Trans
<1>8. CallbackOnItsNode'
  BY <1>u, TxOf DEF CallbackOnItsNode, OneAtATime, Calling, Holds, InPool,
     Idle
<1>9. CopiesOneLogin'
  BY <1>u, TxOf DEF CopiesOneLogin, Idle
<1>10. OnlyPlayers' /\ OwnNodes'
  BY <1>u, TxOf DEF OnlyPlayers, OwnNodes
<1> QED BY <1>1, <1>2, <1>3, <1>4, <1>5, <1>6, <1>7, <1>8, <1>9, <1>10 DEF ZoneInv

\* Register::Enter sends the first command of its transaction.
LEMMA EnterRegisterKeeps ==
  ASSUME ZoneInv, crash = None, NEW r \in Regs, EnterRegister(r)
  PROVE  ZoneInv'
<1> USE ZoneAssumption DEF ZoneInv, redis, link, players, trans
<1>u. /\ commands' = Append(commands, [tx |-> r, value |-> None])
      /\ stage' = [stage EXCEPT ![r] = "name"] /\ stage[r] = "new"
      /\ worker' = [Idle EXCEPT !.at = "log", !.tx = r]
      /\ UNCHANGED <<redis, replies, players, name, uid, answer, redox, crash>>
  BY DEF EnterRegister, Command
<1>n. /\ r \notin Txs(commands) \cup Txs(replies) \cup Calling
      /\ Calling' = Calling
  BY <1>u DEF OneAtATime, Calling
<1>a. /\ commands' \in Seq(Commands)
      /\ Elems(commands') = Elems(commands) \cup {[tx |-> r, value |-> None]}
      /\ Txs(commands') = Txs(commands) \cup {r}
      /\ Once(commands')
  <2>1. /\ commands \in Seq(Commands) /\ Once(commands) /\ r \notin Txs(commands)
        /\ [tx |-> r, value |-> None] \in Commands
    BY <1>u DEF ZoneTypeOK, OneAtATime, CallbackOnItsNode,
       Calling, Commands, Trans
  <2> QED BY <1>u, <2>1, AppendFacts
<1>1. ZoneTypeOK'
  BY <1>u, <1>n, <1>a, TxOf DEF ZoneTypeOK, Nodes, Taken, NullOnlyWhenFull,
     RedoxStates, Idle, Trans
<1>2. OneAtATime'
  BY <1>u, <1>n, <1>a DEF OneAtATime, ZoneTypeOK, Trans
<1>3. NamesTaken'
  BY <1>u, <1>n, <1>a, TxOf DEF NamesTaken, HasName
<1>4. UidsCounted'
  BY <1>u, <1>n, <1>a, TxOf DEF UidsCounted, HasUid, UidSet, ZoneTypeOK,
     Trans
<1>5. UidSet'
  BY <1>u, <1>n, <1>a, TxOf DEF UidSet, OneAtATime
<1>6. RolesInPool'
  BY <1>u, <1>n, <1>a, TxOf DEF RolesInPool, Holds, InPool, Idle, UidSet,
     ZoneTypeOK, Trans
<1>7. RolesStored'
  BY <1>u, <1>n, <1>a, TxOf DEF RolesStored, OneAtATime, Trans
<1>8. CallbackOnItsNode'
  BY <1>u, <1>n, <1>a, TxOf DEF CallbackOnItsNode, OneAtATime, Calling,
     Holds, InPool, Idle
<1>9. CopiesOneLogin'
  BY <1>u, <1>n, <1>a, TxOf DEF CopiesOneLogin, Idle
<1>10. OnlyPlayers' /\ OwnNodes'
  BY <1>u, <1>n, <1>a, TxOf DEF OnlyPlayers, OwnNodes
<1> QED BY <1>1, <1>2, <1>3, <1>4, <1>5, <1>6, <1>7, <1>8, <1>9, <1>10 DEF ZoneInv

\* Only the worker, and whether the process lives.
LEMMA LogRequestKeeps ==
  ASSUME ZoneInv, crash = None, LogRequest
  PROVE  ZoneInv'
<1> USE ZoneAssumption DEF ZoneInv, redis, link, players, trans
<1>u. /\ worker' = Idle /\ crash' # "null"
      /\ UNCHANGED <<redis, link, players, trans, redox>>
  BY DEF LogRequest
<1>1. ZoneTypeOK'
  BY <1>u DEF ZoneTypeOK, Nodes, Taken, NullOnlyWhenFull, RedoxStates, Idle,
     Trans
<1>2. CopiesOneLogin'
  BY <1>u DEF CopiesOneLogin, Idle
<1>3. /\ OneAtATime' /\ NamesTaken' /\ UidsCounted'
      /\ UidSet' /\ OnlyPlayers' /\ OwnNodes'
      /\ RolesInPool' /\ RolesStored' /\ CallbackOnItsNode'
  BY <1>u DEF OneAtATime, Calling, NamesTaken, HasName, UidsCounted, HasUid,
     UidSet, ZoneTypeOK, Trans, OnlyPlayers, OwnNodes, RolesInPool, Holds,
     InPool, RolesStored, CallbackOnItsNode
<1> QED BY <1>1, <1>2, <1>3 DEF ZoneInv

\* Login::Enter reads the pool, or sends its command.
LEMMA EnterLoginKeeps ==
  ASSUME ZoneInv, crash = None, NEW l \in Logins, EnterLogin(l)
  PROVE  ZoneInv'
<1> USE ZoneAssumption DEF ZoneInv, redis, link, players, trans
<1>1. CASE InPool(uid[l])
<2>u. /\ worker' = [Idle EXCEPT !.at = "copy", !.tx = l, !.node = place[uid[l]]]
      /\ stage' = [stage EXCEPT ![l] = "copy"] /\ stage[l] = "new"
      /\ UNCHANGED <<redis, link, players, name, uid, answer, redox, crash>>
  BY <1>1 DEF EnterLogin
<2>1. ZoneTypeOK'
  BY <2>u, TxOf DEF ZoneTypeOK, Nodes, Taken, NullOnlyWhenFull, RedoxStates,
     Idle, Trans
<2>2. OneAtATime'
  BY <2>u, TxOf DEF OneAtATime, Calling, Idle, Trans
<2>3. NamesTaken'
  BY <2>u, TxOf DEF NamesTaken, HasName
<2>4. UidsCounted'
  BY <2>u, TxOf DEF UidsCounted, HasUid, UidSet, ZoneTypeOK, Trans
<2>5. UidSet'
  BY <2>u, TxOf DEF UidSet, OneAtATime
<2>6. RolesInPool'
  BY <2>u, TxOf DEF RolesInPool, Holds, InPool, Idle, UidSet, ZoneTypeOK,
     Trans
<2>7. RolesStored'
  BY <2>u, TxOf DEF RolesStored, OneAtATime, Trans
<2>8. CallbackOnItsNode'
  BY <2>u, TxOf DEF CallbackOnItsNode, OneAtATime, Calling, Holds, InPool,
     Idle
<2>9. CopiesOneLogin'
  BY <2>u, TxOf DEF CopiesOneLogin, Idle, OneAtATime, ZoneTypeOK, Trans
<2>10. OnlyPlayers' /\ OwnNodes'
  BY <2>u, TxOf DEF OnlyPlayers, OwnNodes
<2> QED BY <2>1, <2>2, <2>3, <2>4, <2>5, <2>6, <2>7, <2>8, <2>9, <2>10 DEF ZoneInv
<1>2. CASE ~InPool(uid[l])
<2>u. /\ commands' = Append(commands, [tx |-> l, value |-> None])
      /\ stage' = [stage EXCEPT ![l] = "load"] /\ stage[l] = "new"
      /\ worker = Idle
      /\ UNCHANGED <<redis, replies, players, name, uid, answer, worker, redox, crash>>
  BY <1>2 DEF EnterLogin, Command
<2>a. /\ commands' \in Seq(Commands)
      /\ Elems(commands') = Elems(commands) \cup {[tx |-> l, value |-> None]}
      /\ Txs(commands') = Txs(commands) \cup {l}
      /\ Once(commands')
  <3>1. /\ commands \in Seq(Commands) /\ Once(commands) /\ l \notin Txs(commands)
        /\ [tx |-> l, value |-> None] \in Commands
    BY <2>u DEF ZoneTypeOK, OneAtATime, CallbackOnItsNode,
       Calling, Commands, Trans
  <3> QED BY <2>u, <3>1, AppendFacts
<2>1. ZoneTypeOK'
  BY <2>u, <2>a, TxOf DEF ZoneTypeOK, Nodes, Taken, NullOnlyWhenFull,
     RedoxStates, Idle, Trans
<2>2. OneAtATime'
  BY <2>u, <2>a, TxOf DEF OneAtATime, Calling, Idle, Trans, ZoneTypeOK,
     RedoxStates, Commands, Replies
<2>3. NamesTaken'
  BY <2>u, <2>a, TxOf DEF NamesTaken, HasName
<2>4. UidsCounted'
  BY <2>u, <2>a, TxOf DEF UidsCounted, HasUid, UidSet, ZoneTypeOK, Trans
<2>5. UidSet'
  BY <2>u, <2>a, TxOf DEF UidSet, OneAtATime
<2>6. RolesInPool'
  BY <2>u, <2>a, TxOf DEF RolesInPool, Holds, InPool, Idle, UidSet,
     ZoneTypeOK, Trans
<2>7. RolesStored'
  BY <2>u, <2>a, TxOf DEF RolesStored, OneAtATime, Trans
<2>8. CallbackOnItsNode'
  BY <2>u, <2>a, TxOf DEF CallbackOnItsNode, OneAtATime, Calling, Holds,
     InPool, Idle
<2>9. CopiesOneLogin'
  BY <2>u, <2>a, TxOf DEF CopiesOneLogin, Idle
<2>10. OnlyPlayers' /\ OwnNodes'
  BY <2>u, <2>a, TxOf DEF OnlyPlayers, OwnNodes
<2> QED BY <2>1, <2>2, <2>3, <2>4, <2>5, <2>6, <2>7, <2>8, <2>9, <2>10 DEF ZoneInv
<1> QED BY <1>1, <1>2

\* The copy answers one login, which waits for nothing.
LEMMA CopyProfileKeeps ==
  ASSUME ZoneInv, crash = None, CopyProfile
  PROVE  ZoneInv'
<1> USE ZoneAssumption DEF ZoneInv, redis, link, players, trans
<1>u. PICK l \in Logins :
        /\ stage[l] = "copy" /\ worker' = Idle /\ crash' # "null"
        /\ \A t \in Trans : t # l => stage'[t] = stage[t] /\ answer'[t] = answer[t]
        /\ stage'[l] \in {"copy", "told"}
        /\ DOMAIN stage' = Trans /\ DOMAIN answer' = Trans
        /\ UNCHANGED <<redis, link, players, name, uid, redox>>
  BY DEF CopyProfile, Tell, CopiesOneLogin, Idle, ZoneTypeOK, Trans
<1>e. \A m \in Elems(commands) \cup Elems(replies) : m.tx \in Trans
  <2>1. Elems(commands) \subseteq Commands /\ Elems(replies) \subseteq Replies
    BY ElemsIn DEF ZoneTypeOK
  <2> QED BY <2>1 DEF Commands, Replies
<1>1. ZoneTypeOK'
  BY <1>u, <1>e, TxOf DEF ZoneTypeOK, Nodes, Taken, NullOnlyWhenFull,
     RedoxStates, Idle, Trans
<1>2. OneAtATime'
  BY <1>u, <1>e, TxOf DEF OneAtATime, Calling, Idle, Trans
<1>3. NamesTaken'
  BY <1>u, <1>e, TxOf DEF NamesTaken, HasName, ZoneTypeOK, Trans
<1>4. UidsCounted'
  BY <1>u, <1>e, TxOf DEF UidsCounted, HasUid, UidSet, ZoneTypeOK, Trans
<1>5. UidSet'
  BY <1>u, <1>e, TxOf DEF UidSet, OneAtATime, Calling, ZoneTypeOK, Trans
<1>6. RolesInPool'
  BY <1>u, <1>e, TxOf DEF RolesInPool, Holds, InPool, Idle, UidSet,
     UidsCounted, HasUid, OnlyPlayers, OwnNodes, ZoneTypeOK, OneAtATime,
     Calling, Trans
<1>7. RolesStored'
  BY <1>u, <1>e, TxOf DEF RolesStored, OneAtATime, UidSet, UidsCounted,
     HasUid, OnlyPlayers, ZoneTypeOK, Trans
<1>8. CallbackOnItsNode'
  BY <1>u, <1>e, TxOf DEF CallbackOnItsNode, OneAtATime, Calling, Holds,
     InPool, Idle, UidSet, UidsCounted, HasUid, OnlyPlayers, ZoneTypeOK,
     Trans
<1>9. CopiesOneLogin'
  BY <1>u, <1>e, TxOf DEF CopiesOneLogin, Idle
<1>10. OnlyPlayers' /\ OwnNodes'
  BY <1>u, <1>e, TxOf DEF OnlyPlayers, OwnNodes
<1> QED BY <1>1, <1>2, <1>3, <1>4, <1>5, <1>6, <1>7, <1>8, <1>9, <1>10 DEF ZoneInv

\* GETSET is answered: the name was free before it, or the transaction ends.
LEMMA GotNameKeeps ==
  ASSUME ZoneInv, crash = None, NEW r \in Regs, GotName(r)
  PROVE  ZoneInv'
<1> USE ZoneAssumption DEF ZoneInv, redis, link, players, trans
<1>t. /\ replies # <<>> /\ replies' = Tail(replies) /\ replies' \in Seq(Replies)
      /\ Head(replies) \in Elems(replies) /\ Head(replies) \in Replies
      /\ Head(replies).tx = r /\ r \notin Txs(replies') /\ r \in Txs(replies)
      /\ Elems(replies') \subseteq Elems(replies)
      /\ Txs(replies') \subseteq Txs(replies) /\ Once(replies')
  BY TailFacts DEF GotName, Callback, ZoneTypeOK, OneAtATime
<1>1. CASE Head(replies).status = "nil"
<2>u. /\ commands' = Append(commands, [tx |-> r, value |-> None])
      /\ stage' = [stage EXCEPT ![r] = "uid"] /\ stage[r] = "name"
      /\ redox = Idle
      /\ UNCHANGED <<redis, players, name, uid, answer, worker, redox, crash>>
  BY <1>1 DEF GotName, Command, Callback
<2>h. \A s \in Regs :
        /\ HasName(s)' => HasName(s)
        /\ \A u \in Nat : HasUid(s, u)' => HasUid(s, u)
        /\ counter' = counter
  BY <1>t, <1>1, <2>u, TxOf DEF HasName, HasUid, ZoneTypeOK, Trans
<2>a. /\ commands' \in Seq(Commands)
      /\ Elems(commands') = Elems(commands) \cup {[tx |-> r, value |-> None]}
      /\ Txs(commands') = Txs(commands) \cup {r}
      /\ Once(commands')
  <3>1. /\ commands \in Seq(Commands) /\ Once(commands) /\ r \notin Txs(commands)
        /\ [tx |-> r, value |-> None] \in Commands
    BY <1>t, <2>u DEF ZoneTypeOK, OneAtATime, CallbackOnItsNode,
       Calling, Commands, Trans
  <3> QED BY <1>t, <2>u, <3>1, AppendFacts
<2>1. ZoneTypeOK'
  BY <1>t, <1>1, <2>u, <2>a, <2>h, TxOf DEF ZoneTypeOK, Nodes, Taken,
     NullOnlyWhenFull, RedoxStates, Idle, Trans
<2>2. OneAtATime'
  BY <1>t, <1>1, <2>u, <2>a, <2>h, TxOf DEF OneAtATime, Calling, Idle, Trans
<2>3. NamesTaken'
  BY <1>t, <1>1, <2>u, <2>a, <2>h, TxOf DEF NamesTaken, HasName
<2>4. UidsCounted'
  BY <2>h DEF UidsCounted
<2>5. UidSet'
  BY <1>t, <1>1, <2>u, <2>a, <2>h, TxOf DEF UidSet, OneAtATime
<2>6. RolesInPool'
  BY <1>t, <1>1, <2>u, <2>a, <2>h, TxOf DEF RolesInPool, Holds, InPool,
     Idle, UidSet, ZoneTypeOK, Trans
<2>7. RolesStored'
  BY <1>t, <1>1, <2>u, <2>a, <2>h, TxOf DEF RolesStored, OneAtATime, Trans
<2>8. CallbackOnItsNode'
  BY <1>t, <1>1, <2>u, <2>a, <2>h, TxOf DEF CallbackOnItsNode, OneAtATime,
     Calling, Holds, InPool, Idle
<2>9. CopiesOneLogin'
  BY <1>t, <1>1, <2>u, <2>a, <2>h, TxOf DEF CopiesOneLogin, Idle
<2>10. OnlyPlayers' /\ OwnNodes'
  BY <1>t, <1>1, <2>u, <2>a, <2>h, TxOf DEF OnlyPlayers, OwnNodes
<2> QED BY <2>1, <2>2, <2>3, <2>4, <2>5, <2>6, <2>7, <2>8, <2>9, <2>10 DEF ZoneInv
<1>2. CASE Head(replies).status # "nil"
<2>u. /\ stage' = [stage EXCEPT ![r] = "freed"] /\ stage[r] = "name"
      /\ \E w \in {"duplicate", "failed"} : answer' = [answer EXCEPT ![r] = w]
      /\ crash' # "null" /\ redox = Idle
      /\ UNCHANGED <<redis, commands, players, name, uid, worker, redox>>
  BY <1>2 DEF GotName, Send2Client, Tell, Callback
<2>h. /\ \A s \in Regs : \A u \in Nat : HasUid(s, u)' => HasUid(s, u)
      /\ counter' = counter
  BY <1>t, <2>u, TxOf DEF HasUid, ZoneTypeOK, Trans
<2>1. ZoneTypeOK'
  BY <1>t, <2>u, TxOf DEF ZoneTypeOK, Nodes, Taken, NullOnlyWhenFull,
     RedoxStates, Idle, Trans
<2>2. OneAtATime'
  BY <1>t, <2>u, TxOf DEF OneAtATime, Calling, Idle, Trans
<2>3. NamesTaken'
  BY <1>t, <2>u, TxOf DEF NamesTaken, HasName
<2>4. UidsCounted'
  BY <2>h DEF UidsCounted
<2>5. UidSet'
  BY <1>t, <2>u, TxOf DEF UidSet, OneAtATime
<2>6. RolesInPool'
  BY <1>t, <2>u, TxOf DEF RolesInPool, Holds, InPool, Idle, UidSet,
     ZoneTypeOK, Trans
<2>7. RolesStored'
  BY <1>t, <2>u, TxOf DEF RolesStored, OneAtATime, Trans
<2>8. CallbackOnItsNode'
  BY <1>t, <2>u, TxOf DEF CallbackOnItsNode, OneAtATime, Calling, Holds,
     InPool, Idle
<2>9. CopiesOneLogin'
  BY <1>t, <2>u, TxOf DEF CopiesOneLogin, Idle
<2>10. OnlyPlayers' /\ OwnNodes'
  BY <1>t, <2>u, TxOf DEF OnlyPlayers, OwnNodes
<2> QED BY <2>1, <2>2, <2>3, <2>4, <2>5, <2>6, <2>7, <2>8, <2>9, <2>10 DEF ZoneInv
<1> QED BY <1>1, <1>2

\* The transaction ends without a uid.
LEMMA UidFailsKeeps ==
  ASSUME ZoneInv, crash = None, NEW r \in Regs, UidFails(r)
  PROVE  ZoneInv'
<1> USE ZoneAssumption DEF ZoneInv, redis, link, players, trans
<1>t. /\ replies # <<>> /\ replies' = Tail(replies) /\ replies' \in Seq(Replies)
      /\ Head(replies) \in Elems(replies) /\ Head(replies) \in Replies
      /\ Head(replies).tx = r /\ r \notin Txs(replies') /\ r \in Txs(replies)
      /\ Elems(replies') \subseteq Elems(replies)
      /\ Txs(replies') \subseteq Txs(replies) /\ Once(replies')
  BY TailFacts DEF UidFails, Callback, ZoneTypeOK, OneAtATime
<1>u. /\ stage' = [stage EXCEPT ![r] = "freed"] /\ stage[r] = "uid"
      /\ answer' = [answer EXCEPT ![r] = "failed"]
      /\ crash' # "null" /\ redox = Idle
      /\ UNCHANGED <<redis, commands, players, name, uid, worker, redox>>
  BY DEF UidFails, Send2Client, Tell, Callback
<1>1. ZoneTypeOK'
  BY <1>t, <1>u, TxOf DEF ZoneTypeOK, Nodes, Taken, NullOnlyWhenFull,
     RedoxStates, Idle, Trans
<1>2. OneAtATime'
  BY <1>t, <1>u, TxOf DEF OneAtATime, Calling, Idle, Trans
<1>3. NamesTaken'
  BY <1>t, <1>u, TxOf DEF NamesTaken, HasName
<1>4. UidsCounted'
  BY <1>t, <1>u, TxOf DEF UidsCounted, HasUid, UidSet, ZoneTypeOK, Trans
<1>5. UidSet'
  BY <1>t, <1>u, TxOf DEF UidSet, OneAtATime
<1>6. RolesInPool'
  BY <1>t, <1>u, TxOf DEF RolesInPool, Holds, InPool, Idle, UidSet,
     ZoneTypeOK, Trans
<1>7. RolesStored'
  BY <1>t, <1>u, TxOf DEF RolesStored, OneAtATime, Trans
<1>8. CallbackOnItsNode'
  BY <1>t, <1>u, TxOf DEF CallbackOnItsNode, OneAtATime, Calling, Holds,
     InPool, Idle
<1>9. CopiesOneLogin'
  BY <1>t, <1>u, TxOf DEF CopiesOneLogin, Idle
<1>10. OnlyPlayers' /\ OwnNodes'
  BY <1>t, <1>u, TxOf DEF OnlyPlayers, OwnNodes
<1> QED BY <1>1, <1>2, <1>3, <1>4, <1>5, <1>6, <1>7, <1>8, <1>9, <1>10 DEF ZoneInv

\* The uid is new, so that nobody is in the pool or in redis under it; it
\* gets a vacant node.
LEMMA GotUidKeeps ==
  ASSUME ZoneInv, crash = None, NEW r \in Regs, GotUid(r)
  PROVE  ZoneInv'
<1> USE ZoneAssumption DEF ZoneInv, redis, link, players, trans
<1>t. /\ replies # <<>> /\ replies' = Tail(replies) /\ replies' \in Seq(Replies)
      /\ Head(replies) \in Elems(replies) /\ Head(replies) \in Replies
      /\ Head(replies).tx = r /\ r \notin Txs(replies') /\ r \in Txs(replies)
      /\ Elems(replies') \subseteq Elems(replies)
      /\ Txs(replies') \subseteq Txs(replies) /\ Once(replies')
  BY TailFacts DEF GotUid, Callback, ZoneTypeOK, OneAtATime
<1>u. PICK u \in Nat :
        /\ u = Head(replies).value /\ Head(replies).status = "ok"
        /\ stage[r] = "uid" /\ redox = Idle /\ uid[r] = None
        /\ uid' = [uid EXCEPT ![r] = u]
  BY <1>t, TxOf DEF GotUid, Callback, UidSet
<1>n. u <= counter /\ \A s \in Regs : uid[s] = u => s = r
  BY <1>t, <1>u DEF UidsCounted, HasUid
<1>p. ~InPool(u) /\ u \notin DOMAIN stored
  BY <1>u, <1>n DEF OnlyPlayers, InPool
<1>f. /\ IF Vacant = {}
         THEN crash' = "null" /\ UNCHANGED <<players, redox>>
         ELSE \E n \in Vacant :
                /\ place' = Put(place, u, n)
                /\ content' = [content EXCEPT ![n] = "empty"]
                /\ redox' = [Idle EXCEPT !.at = "init", !.tx = r, !.node = n]
                /\ UNCHANGED <<max_node, crash>>
      /\ UNCHANGED <<redis, commands, stage, name, answer, worker>>
  BY <1>u, <1>p DEF GotUid, Add
<1>h. /\ \A s \in Regs : \A w \in Nat : HasUid(s, w)' => HasUid(s, w)
      /\ counter' = counter
  BY <1>t, <1>u, <1>f, TxOf DEF HasUid, UidSet, ZoneTypeOK, Trans
<1>1. CASE Vacant = {}
<2>u. /\ crash' = "null" /\ Taken = Nodes
      /\ UNCHANGED <<redis, commands, stage, name, answer, worker, players, redox>>
  BY <1>1, <1>f DEF Vacant, Taken, ZoneTypeOK
<2>1. ZoneTypeOK'
  BY <1>t, <1>u, <1>n, <1>p, <2>u, TxOf DEF ZoneTypeOK, Nodes, Taken,
     NullOnlyWhenFull, RedoxStates, Idle, Trans
<2>2. OneAtATime'
  BY <1>t, <1>u, <1>n, <1>p, <2>u, TxOf DEF OneAtATime, Calling, Idle, Trans
<2>3. NamesTaken'
  BY <1>t, <1>u, <1>n, <1>p, <2>u, TxOf DEF NamesTaken, HasName
<2>4. UidsCounted'
  BY <1>h DEF UidsCounted
<2>5. UidSet'
  BY <1>t, <1>u, <1>n, <1>p, <2>u, TxOf DEF UidSet, OneAtATime
<2>6. OnlyPlayers'
  BY <1>t, <1>u, <1>n, <1>p, <2>u, TxOf DEF OnlyPlayers
<2>7. RolesInPool'
  BY <1>t, <1>u, <1>n, <1>p, <2>u, TxOf DEF RolesInPool, Holds, InPool,
     Idle, UidSet, ZoneTypeOK, Trans
<2>8. RolesStored'
  BY <1>t, <1>u, <1>n, <1>p, <2>u, TxOf DEF RolesStored, OneAtATime, UidSet,
     UidsCounted, HasUid, OnlyPlayers, ZoneTypeOK, Trans
<2>9. CallbackOnItsNode'
  BY <1>t, <1>u, <1>n, <1>p, <2>u, TxOf DEF CallbackOnItsNode, OneAtATime,
     Calling, Holds, InPool, Idle
<2>10. OwnNodes' /\ CopiesOneLogin'
  BY <1>t, <1>u, <1>n, <1>p, <2>u, TxOf DEF OwnNodes, CopiesOneLogin
<2> QED BY <2>1, <2>2, <2>3, <2>4, <2>5, <2>6, <2>7, <2>8, <2>9, <2>10 DEF ZoneInv
<1>2. CASE Vacant # {}
<2>n. PICK n \in Vacant :
        /\ place' = Put(place, u, n)
        /\ content' = [content EXCEPT ![n] = "empty"]
        /\ redox' = [Idle EXCEPT !.at = "init", !.tx = r, !.node = n]
        /\ UNCHANGED <<max_node, crash>>
  BY <1>2, <1>f
<2>u. /\ UNCHANGED <<redis, commands, stage, name, answer, worker, crash>>
      /\ n \in Nodes /\ \A v \in DOMAIN place : place[v] # n
      /\ DOMAIN place' = DOMAIN place \cup {u} /\ place'[u] = n
      /\ \A v \in DOMAIN place : place'[v] = place[v]
      /\ DOMAIN content' = Nodes /\ max_node' = max_node
      /\ \A m \in Nodes : m # n => content'[m] = content[m]
      /\ redox' = [at |-> "init", tx |-> r, node |-> n, value |-> None]
  BY <1>p, <1>f, <2>n DEF Put, Vacant, Taken, InPool, Idle, ZoneTypeOK
<2>1. ZoneTypeOK'
  BY <1>t, <1>u, <1>n, <1>p, <2>u, TxOf DEF ZoneTypeOK, Nodes, Taken,
     NullOnlyWhenFull, RedoxStates, Idle, Trans
<2>2. OneAtATime'
  BY <1>t, <1>u, <1>n, <1>p, <2>u, TxOf DEF OneAtATime, Calling, Idle, Trans
<2>3. NamesTaken'
  BY <1>t, <1>u, <1>n, <1>p, <2>u, TxOf DEF NamesTaken, HasName
<2>4. UidsCounted'
  BY <1>h DEF UidsCounted
<2>5. UidSet'
  BY <1>t, <1>u, <1>n, <1>p, <2>u, TxOf DEF UidSet, OneAtATime
<2>6. OnlyPlayers'
  BY <1>t, <1>u, <1>n, <1>p, <2>u, TxOf DEF OnlyPlayers, UidSet, ZoneTypeOK,
     Trans
<2>7. OwnNodes'
  BY <1>t, <1>u, <1>n, <1>p, <2>u, TxOf DEF OwnNodes
<2>8. RolesInPool'
  BY <1>t, <1>u, <1>n, <1>p, <2>u, TxOf DEF RolesInPool, Holds, InPool,
     Idle, UidSet, UidsCounted, HasUid, OnlyPlayers, OwnNodes, ZoneTypeOK,
     OneAtATime, Calling, Trans
<2>9. RolesStored'
  BY <1>t, <1>u, <1>n, <1>p, <2>u, TxOf DEF RolesStored, OneAtATime, UidSet,
     UidsCounted, HasUid, OnlyPlayers, ZoneTypeOK, Trans
<2>10. CallbackOnItsNode'
  BY <1>t, <1>u, <1>n, <1>p, <2>u, TxOf DEF CallbackOnItsNode, OneAtATime,
     Calling, Holds, InPool, Idle, UidSet, UidsCounted, HasUid, OnlyPlayers,
     ZoneTypeOK, Trans
<2>11. CopiesOneLogin'
  BY <1>t, <1>u, <1>n, <1>p, <2>u, TxOf DEF CopiesOneLogin
<2> QED BY <2>1, <2>2, <2>3, <2>4, <2>5, <2>6, <2>7, <2>8, <2>9, <2>10, <2>11 DEF ZoneInv
<1> QED BY <1>1, <1>2

\* The node at hand is that of its own player.
LEMMA InitProfileKeeps ==
  ASSUME ZoneInv, crash = None, InitProfile
  PROVE  ZoneInv'
<1> USE ZoneAssumption DEF ZoneInv, redis, link, players, trans
<1>u. PICK r \in Regs :
        /\ r = redox.tx /\ stage[r] = "uid" /\ InPool(uid[r])
        /\ place[uid[r]] = redox.node /\ redox.at = "init"
        /\ r \notin Txs(commands) /\ r \notin Txs(replies)
        /\ content' = [content EXCEPT ![place[uid[r]]] = r]
        /\ commands' = Append(commands, [tx |-> r, value |-> r])
        /\ stage' = [stage EXCEPT ![r] = "role"]
        /\ redox' = Idle
        /\ UNCHANGED <<redis, replies, max_node, place, name, uid, answer, worker, crash>>
  BY DEF InitProfile, Command, CallbackOnItsNode, OneAtATime, Calling
<1>n. uid[r] \in Nat
  BY <1>u DEF OnlyPlayers, InPool
<1>h. /\ \A s \in Regs : \A w \in Nat : HasUid(s, w)' => HasUid(s, w)
      /\ counter' = counter
  BY <1>u, TxOf DEF HasUid, UidSet, ZoneTypeOK, Trans
<1>a. /\ commands' \in Seq(Commands)
      /\ Elems(commands') = Elems(commands) \cup {[tx |-> r, value |-> r]}
      /\ Txs(commands') = Txs(commands) \cup {r}
      /\ Once(commands')
  <2>1. /\ commands \in Seq(Commands) /\ Once(commands) /\ r \notin Txs(commands)
        /\ [tx |-> r, value |-> r] \in Commands
    BY <1>u DEF ZoneTypeOK, OneAtATime, CallbackOnItsNode,
       Calling, Commands, Trans
  <2> QED BY <1>u, <2>1, AppendFacts
<1>1. ZoneTypeOK'
  BY <1>u, <1>n, <1>a, TxOf DEF ZoneTypeOK, Nodes, Taken, NullOnlyWhenFull,
     RedoxStates, Idle, Trans
<1>2. OneAtATime'
  BY <1>u, <1>n, <1>a, TxOf DEF OneAtATime, Calling, Idle, Trans
<1>3. NamesTaken'
  BY <1>u, <1>n, <1>a, TxOf DEF NamesTaken, HasName
<1>4. UidsCounted'
  BY <1>h DEF UidsCounted
<1>5. UidSet'
  BY <1>u, <1>n, <1>a, TxOf DEF UidSet, OneAtATime, Calling, ZoneTypeOK,
     Trans
<1>6. RolesInPool'
  BY <1>u, <1>n, <1>a, TxOf DEF RolesInPool, Holds, InPool, Idle, UidSet,
     UidsCounted, HasUid, OnlyPlayers, OwnNodes, ZoneTypeOK, OneAtATime,
     Calling, Trans
<1>7. RolesStored'
  BY <1>u, <1>n, <1>a, TxOf DEF RolesStored, OneAtATime, Trans
<1>8. CallbackOnItsNode'
  BY <1>u, <1>n, <1>a, TxOf DEF CallbackOnItsNode, OneAtATime, Calling,
     Holds, InPool, Idle
<1>9. CopiesOneLogin'
  BY <1>u, <1>n, <1>a, TxOf DEF CopiesOneLogin, Idle
<1>10. OnlyPlayers' /\ OwnNodes'
  BY <1>u, <1>n, <1>a, TxOf DEF OnlyPlayers, OwnNodes
<1> QED BY <1>1, <1>2, <1>3, <1>4, <1>5, <1>6, <1>7, <1>8, <1>9, <1>10 DEF ZoneInv

\* The reply says that the role is stored.
LEMMA RoleStoredKeeps ==
  ASSUME ZoneInv, crash = None, NEW r \in Regs, RoleStored(r)
  PROVE  ZoneInv'
<1> USE ZoneAssumption DEF ZoneInv, redis, link, players, trans
<1>t. /\ replies # <<>> /\ replies' = Tail(replies) /\ replies' \in Seq(Replies)
      /\ Head(replies) \in Elems(replies) /\ Head(replies) \in Replies
      /\ Head(replies).tx = r /\ r \notin Txs(replies') /\ r \in Txs(replies)
      /\ Elems(replies') \subseteq Elems(replies)
      /\ Txs(replies') \subseteq Txs(replies) /\ Once(replies')
  BY TailFacts DEF RoleStored, Callback, ZoneTypeOK, OneAtATime
<1>u. /\ stage' = [stage EXCEPT ![r] = "freed"] /\ stage[r] = "role"
      /\ answer' = [answer EXCEPT ![r] = "ok"] /\ Head(replies).status = "ok"
      /\ crash' # "null" /\ redox = Idle
      /\ UNCHANGED <<redis, commands, players, name, uid, worker, redox>>
  BY DEF RoleStored, Send2Client, Tell, Callback
<1>1. ZoneTypeOK'
  BY <1>t, <1>u, TxOf DEF ZoneTypeOK, Nodes, Taken, NullOnlyWhenFull,
     RedoxStates, Idle, Trans
<1>2. OneAtATime'
  BY <1>t, <1>u, TxOf DEF OneAtATime, Calling, Idle, Trans
<1>3. NamesTaken'
  BY <1>t, <1>u, TxOf DEF NamesTaken, HasName
<1>4. UidsCounted'
  BY <1>t, <1>u, TxOf DEF UidsCounted, HasUid, UidSet, ZoneTypeOK, Trans
<1>5. UidSet'
  BY <1>t, <1>u, TxOf DEF UidSet, OneAtATime
<1>6. RolesInPool'
  BY <1>t, <1>u, TxOf DEF RolesInPool, Holds, InPool, Idle, UidSet,
     UidsCounted, HasUid, OnlyPlayers, OwnNodes, ZoneTypeOK, OneAtATime,
     Calling, Trans
<1>7. RolesStored'
  BY <1>t, <1>u, TxOf DEF RolesStored, OneAtATime, Trans
<1>8. CallbackOnItsNode'
  BY <1>t, <1>u, TxOf DEF CallbackOnItsNode, OneAtATime, Calling, Holds,
     InPool, Idle
<1>9. CopiesOneLogin'
  BY <1>t, <1>u, TxOf DEF CopiesOneLogin, Idle
<1>10. OnlyPlayers' /\ OwnNodes'
  BY <1>t, <1>u, TxOf DEF OnlyPlayers, OwnNodes
<1> QED BY <1>1, <1>2, <1>3, <1>4, <1>5, <1>6, <1>7, <1>8, <1>9, <1>10 DEF ZoneInv

\* The player is in the pool, and nobody else on its node.
LEMMA RoleFailsKeeps ==
  ASSUME ZoneInv, crash = None, NEW r \in Regs, RoleFails(r)
  PROVE  ZoneInv'
<1> USE ZoneAssumption DEF ZoneInv, redis, link, players, trans
<1>t. /\ replies # <<>> /\ replies' = Tail(replies) /\ replies' \in Seq(Replies)
      /\ Head(replies) \in Elems(replies) /\ Head(replies) \in Replies
      /\ Head(replies).tx = r /\ r \notin Txs(replies') /\ r \in Txs(replies)
      /\ Elems(replies') \subseteq Elems(replies)
      /\ Txs(replies') \subseteq Txs(replies) /\ Once(replies')
  BY TailFacts DEF RoleFails, Callback, ZoneTypeOK, OneAtATime
<1>r. /\ InPool(uid[r]) /\ uid[r] \in DOMAIN place /\ content[place[uid[r]]] = r
      /\ place[uid[r]] \in Nodes /\ stage[r] = "role" /\ redox = Idle
  BY DEF RoleFails, Callback, RolesInPool, Holds, Idle, InPool, ZoneTypeOK
<1>u. /\ DOMAIN content' = Nodes /\ content'[place[uid[r]]] = "destroyed"
      /\ \A m \in Nodes : m # place[uid[r]] => content'[m] = content[m]
      /\ redox' = [at |-> "free", tx |-> r, node |-> None, value |-> None]
      /\ UNCHANGED <<redis, commands, max_node, place, trans, worker, crash>>
  BY <1>r DEF RoleFails, Idle, ZoneTypeOK
<1>o. \A s \in Regs : Holds(s)' => s # r /\ Holds(s) /\ place[uid[s]] # place[uid[r]]
  BY <1>r, <1>u DEF Holds, RolesInPool, OwnNodes, InPool, Idle
<1>1. ZoneTypeOK'
  BY <1>t, <1>r, <1>u, <1>o, TxOf DEF ZoneTypeOK, Nodes, Taken,
     NullOnlyWhenFull, RedoxStates, Idle, Trans
<1>2. OneAtATime'
  BY <1>t, <1>r, <1>u, <1>o, TxOf DEF OneAtATime, Calling, Idle, Trans
<1>3. NamesTaken'
  BY <1>t, <1>r, <1>u, <1>o, TxOf DEF NamesTaken, HasName
<1>4. UidsCounted'
  BY <1>t, <1>r, <1>u, <1>o, TxOf DEF UidsCounted, HasUid, UidSet,
     ZoneTypeOK, Trans
<1>5. UidSet'
  BY <1>t, <1>r, <1>u, <1>o, TxOf DEF UidSet, OneAtATime
<1>6. RolesInPool'
  BY <1>t, <1>r, <1>u, <1>o, TxOf DEF RolesInPool, Holds, InPool, Idle,
     UidSet, UidsCounted, HasUid, OnlyPlayers, OwnNodes, ZoneTypeOK,
     OneAtATime, Calling, Trans
<1>7. RolesStored'
  BY <1>t, <1>r, <1>u, <1>o, TxOf DEF RolesStored, OneAtATime, Trans
<1>8. CallbackOnItsNode'
  BY <1>t, <1>r, <1>u, <1>o, TxOf DEF CallbackOnItsNode, OneAtATime,
     Calling, Holds, InPool, Idle
<1>9. OnlyPlayers' /\ OwnNodes' /\ CopiesOneLogin'
  BY <1>t, <1>r, <1>u, <1>o, TxOf DEF OnlyPlayers, OwnNodes, CopiesOneLogin
<1> QED BY <1>1, <1>2, <1>3, <1>4, <1>5, <1>6, <1>7, <1>8, <1>9 DEF ZoneInv

\* Only the player of the transaction leaves the pool.
LEMMA FreePlayerKeeps ==
  ASSUME ZoneInv, crash = None, FreePlayer
  PROVE  ZoneInv'
<1> USE ZoneAssumption DEF ZoneInv, redis, link, players, trans
<1>u. PICK r \in Regs :
        /\ r = redox.tx /\ stage[r] = "role" /\ redox.at = "free"
        /\ r \notin Txs(commands) /\ r \notin Txs(replies)
        /\ place' = [u \in DOMAIN place \ {uid[r]} |-> place[u]]
        /\ stage' = [stage EXCEPT ![r] = "freed"]
        /\ answer' = [answer EXCEPT ![r] = "failed"]
        /\ crash' # "null" /\ redox' = Idle
        /\ UNCHANGED <<redis, link, max_node, content, name, uid, worker>>
  BY DEF FreePlayer, Send2Client, Tell, CallbackOnItsNode, OneAtATime, Calling
<1>n. uid[r] \in Nat /\ \A s \in Regs : s # r => uid[s] # uid[r]
  BY <1>u DEF UidSet, UidsCounted, HasUid, ZoneTypeOK
<1>1. ZoneTypeOK'
  BY <1>u, <1>n, TxOf DEF ZoneTypeOK, Nodes, Taken, NullOnlyWhenFull,
     RedoxStates, Idle, Trans
<1>2. OneAtATime'
  BY <1>u, <1>n, TxOf DEF OneAtATime, Calling, Idle, Trans
<1>3. NamesTaken'
  BY <1>u, <1>n, TxOf DEF NamesTaken, HasName
<1>4. UidsCounted'
  BY <1>u, <1>n, TxOf DEF UidsCounted, HasUid, UidSet, ZoneTypeOK, Trans
<1>5. UidSet'
  BY <1>u, <1>n, TxOf DEF UidSet, OneAtATime
<1>6. OnlyPlayers'
  BY <1>u, <1>n, TxOf DEF OnlyPlayers
<1>7. OwnNodes'
  BY <1>u, <1>n, TxOf DEF OwnNodes
<1>8. RolesInPool'
  BY <1>u, <1>n, TxOf DEF RolesInPool, Holds, InPool, Idle, UidSet,
     UidsCounted, HasUid, OnlyPlayers, OwnNodes, ZoneTypeOK, OneAtATime,
     Calling, Trans
<1>9. RolesStored'
  BY <1>u, <1>n, TxOf DEF RolesStored, OneAtATime, Trans
<1>10. CallbackOnItsNode'
  BY <1>u, <1>n, TxOf DEF CallbackOnItsNode, OneAtATime, Calling, Holds,
     InPool, Idle
<1>11. CopiesOneLogin'
  BY <1>u, <1>n, TxOf DEF CopiesOneLogin, Idle
<1> QED BY <1>1, <1>2, <1>3, <1>4, <1>5, <1>6, <1>7, <1>8, <1>9, <1>10, <1>11 DEF ZoneInv

\* The login ends.
LEMMA NoProfileKeeps ==
  ASSUME ZoneInv, crash = None, NEW l \in Logins, NoProfile(l)
  PROVE  ZoneInv'
<1> USE ZoneAssumption DEF ZoneInv, redis, link, players, trans
<1>t. /\ replies # <<>> /\ replies' = Tail(replies) /\ replies' \in Seq(Replies)
      /\ Head(replies) \in Elems(replies) /\ Head(replies) \in Replies
      /\ Head(replies).tx = l /\ l \notin Txs(replies') /\ l \in Txs(replies)
      /\ Elems(replies') \subseteq Elems(replies)
      /\ Txs(replies') \subseteq Txs(replies) /\ Once(replies')
  BY TailFacts DEF NoProfile, Callback, ZoneTypeOK, OneAtATime
<1>u. /\ stage' = [stage EXCEPT ![l] = "silent"] /\ stage[l] = "load"
      /\ redox = Idle
      /\ UNCHANGED <<redis, commands, players, name, uid, answer, worker, redox, crash>>
  BY DEF NoProfile, Callback
<1>1. ZoneTypeOK'
  BY <1>t, <1>u, TxOf DEF ZoneTypeOK, Nodes, Taken, NullOnlyWhenFull,
     RedoxStates, Idle, Trans
<1>2. OneAtATime'
  BY <1>t, <1>u, TxOf DEF OneAtATime, Calling, Idle, Trans
<1>3. NamesTaken'
  BY <1>t, <1>u, TxOf DEF NamesTaken, HasName
<1>4. UidsCounted'
  BY <1>t, <1>u, TxOf DEF UidsCounted, HasUid, UidSet, ZoneTypeOK, Trans
<1>5. UidSet'
  BY <1>t, <1>u, TxOf DEF UidSet, OneAtATime
<1>6. RolesInPool'
  BY <1>t, <1>u, TxOf DEF RolesInPool, Holds, InPool, Idle, UidSet,
     ZoneTypeOK, Trans
<1>7. RolesStored'
  BY <1>t, <1>u, TxOf DEF RolesStored, OneAtATime, Trans
<1>8. CallbackOnItsNode'
  BY <1>t, <1>u, TxOf DEF CallbackOnItsNode, OneAtATime, Calling, Holds,
     InPool, Idle
<1>9. CopiesOneLogin'
  BY <1>t, <1>u, TxOf DEF CopiesOneLogin, Idle
<1>10. OnlyPlayers' /\ OwnNodes'
  BY <1>t, <1>u, TxOf DEF OnlyPlayers, OwnNodes
<1> QED BY <1>1, <1>2, <1>3, <1>4, <1>5, <1>6, <1>7, <1>8, <1>9, <1>10 DEF ZoneInv

\* The player exists but is nobody's who holds a node.
LEMMA GotProfileKeeps ==
  ASSUME ZoneInv, crash = None, NEW l \in Logins, GotProfile(l)
  PROVE  ZoneInv'
<1> USE ZoneAssumption DEF ZoneInv, redis, link, players, trans
<1>t. /\ replies # <<>> /\ replies' = Tail(replies) /\ replies' \in Seq(Replies)
      /\ Head(replies) \in Elems(replies) /\ Head(replies) \in Replies
      /\ Head(replies).tx = l /\ l \notin Txs(replies') /\ l \in Txs(replies)
      /\ Elems(replies') \subseteq Elems(replies)
      /\ Txs(replies') \subseteq Txs(replies) /\ Once(replies')
  BY TailFacts DEF GotProfile, Callback, ZoneTypeOK, OneAtATime
<1>u. PICK u \in Nat, p \in Regs :
        /\ u = uid[l] /\ p = Head(replies).value
        /\ u \in DOMAIN stored /\ u \notin DOMAIN place
        /\ stage[l] = "load" /\ redox = Idle
        /\ UNCHANGED <<redis, commands, trans, worker>>
  BY <1>t DEF GotProfile, Callback, RolesStored, InPool, ZoneTypeOK
<1>p. /\ \E r \in Regs : uid[r] = u
      /\ \A r \in Regs : Holds(r) => uid[r] # u
      /\ l \notin Regs
  BY <1>u DEF OnlyPlayers, RolesInPool, InPool
<1>f. IF Vacant = {}
      THEN crash' = "null" /\ UNCHANGED <<players, redox>>
      ELSE \E n \in Vacant :
             /\ place' = Put(place, u, n)
             /\ content' = [content EXCEPT ![n] = "empty"]
             /\ redox' = [Idle EXCEPT !.at = "fill", !.tx = l, !.value = p, !.node = n]
             /\ UNCHANGED <<max_node, crash>>
  BY <1>u DEF GotProfile, Add, Idle
<1>1. CASE Vacant = {}
<2>u. crash' = "null" /\ UNCHANGED <<players, redox>> /\ Taken = Nodes
  BY <1>1, <1>f DEF Vacant, Taken, ZoneTypeOK
<2>1. ZoneTypeOK'
  BY <1>t, <1>u, <2>u, TxOf DEF ZoneTypeOK, Nodes, Taken, NullOnlyWhenFull,
     RedoxStates, Idle, Trans
<2>2. OneAtATime'
  BY <1>t, <1>u, <2>u, TxOf DEF OneAtATime, Calling, Idle, Trans
<2>3. NamesTaken'
  BY <1>t, <1>u, <2>u, TxOf DEF NamesTaken, HasName
<2>4. UidsCounted'
  BY <1>t, <1>u, <2>u, TxOf DEF UidsCounted, HasUid, UidSet, ZoneTypeOK,
     Trans
<2>5. UidSet'
  BY <1>t, <1>u, <2>u, TxOf DEF UidSet, OneAtATime
<2>6. RolesStored'
  BY <1>t, <1>u, <2>u, TxOf DEF RolesStored, OneAtATime, Trans
<2>7. /\ OnlyPlayers' /\ OwnNodes' /\ RolesInPool'
      /\ CallbackOnItsNode' /\ CopiesOneLogin'
  BY <1>t, <1>u, <2>u, TxOf DEF OnlyPlayers, OwnNodes, RolesInPool, Holds,
     InPool, CallbackOnItsNode, CopiesOneLogin
<2> QED BY <2>1, <2>2, <2>3, <2>4, <2>5, <2>6, <2>7 DEF ZoneInv
<1>2. CASE Vacant # {}
<2>n. PICK n \in Vacant :
        /\ place' = Put(place, u, n)
        /\ content' = [content EXCEPT ![n] = "empty"]
        /\ redox' = [Idle EXCEPT !.at = "fill", !.tx = l, !.value = p, !.node = n]
        /\ UNCHANGED <<max_node, crash>>
  BY <1>2, <1>f
<2>u. /\ crash' = crash
      /\ n \in Nodes /\ \A v \in DOMAIN place : place[v] # n
      /\ DOMAIN place' = DOMAIN place \cup {u} /\ place'[u] = n
      /\ \A v \in DOMAIN place : place'[v] = place[v]
      /\ DOMAIN content' = Nodes /\ max_node' = max_node
      /\ \A m \in Nodes : m # n => content'[m] = content[m]
      /\ redox' = [at |-> "fill", tx |-> l, node |-> n, value |-> p]
  BY <1>u, <2>n DEF Put, Vacant, Taken, Idle, ZoneTypeOK
<2>1. ZoneTypeOK'
  BY <1>t, <1>u, <1>p, <2>u, TxOf DEF ZoneTypeOK, Nodes, Taken,
     NullOnlyWhenFull, RedoxStates, Idle, Trans
<2>2. OneAtATime'
  BY <1>t, <1>u, <1>p, <2>u, TxOf DEF OneAtATime, Calling, Idle, Trans
<2>3. NamesTaken'
  BY <1>t, <1>u, <1>p, <2>u, TxOf DEF NamesTaken, HasName
<2>4. UidsCounted'
  BY <1>t, <1>u, <1>p, <2>u, TxOf DEF UidsCounted, HasUid, UidSet,
     ZoneTypeOK, Trans
<2>5. UidSet'
  BY <1>t, <1>u, <1>p, <2>u, TxOf DEF UidSet, OneAtATime
<2>6. OnlyPlayers'
  BY <1>t, <1>u, <1>p, <2>u, TxOf DEF OnlyPlayers
<2>7. OwnNodes'
  BY <1>t, <1>u, <1>p, <2>u, TxOf DEF OwnNodes
<2>8. RolesInPool'
  BY <1>t, <1>u, <1>p, <2>u, TxOf DEF RolesInPool, Holds, InPool, Idle,
     UidSet, UidsCounted, HasUid, OnlyPlayers, OwnNodes, ZoneTypeOK,
     OneAtATime, Calling, Trans
<2>9. RolesStored'
  BY <1>t, <1>u, <1>p, <2>u, TxOf DEF RolesStored, OneAtATime, Trans
<2>10. CallbackOnItsNode'
  BY <1>t, <1>u, <1>p, <2>u, TxOf DEF CallbackOnItsNode, OneAtATime,
     Calling, Holds, InPool, Idle
<2>11. CopiesOneLogin'
  BY <1>t, <1>u, <1>p, <2>u, TxOf DEF CopiesOneLogin
<2> QED BY <2>1, <2>2, <2>3, <2>4, <2>5, <2>6, <2>7, <2>8, <2>9, <2>10, <2>11 DEF ZoneInv
<1> QED BY <1>1, <1>2

\* The node at hand is nobody's who holds one.
LEMMA FillProfileKeeps ==
  ASSUME ZoneInv, crash = None, FillProfile
  PROVE  ZoneInv'
<1> USE ZoneAssumption DEF ZoneInv, redis, link, players, trans
<1>u. PICK l \in Logins :
        /\ l = redox.tx /\ l \notin Regs /\ redox.at = "fill"
        /\ InPool(uid[l]) /\ place[uid[l]] = redox.node
        /\ \A r \in Regs : Holds(r) => uid[r] # uid[l]
        /\ content' = [content EXCEPT ![place[uid[l]]] = redox.value]
        /\ stage' = [stage EXCEPT ![l] = "told"] /\ stage[l] = "load"
        /\ answer' = [answer EXCEPT ![l] = redox.value]
        /\ crash' # "null" /\ redox' = Idle
        /\ l \notin Txs(commands) /\ l \notin Txs(replies)
        /\ UNCHANGED <<redis, link, max_node, place, name, uid, worker>>
  BY DEF FillProfile, Tell, CallbackOnItsNode, OneAtATime, Calling
<1>n. \A r \in Regs : Holds(r) => place[uid[r]] # place[uid[l]]
  BY <1>u DEF RolesInPool, OwnNodes, InPool
<1>1. ZoneTypeOK'
  BY <1>u, <1>n, TxOf DEF ZoneTypeOK, Nodes, Taken, NullOnlyWhenFull,
     RedoxStates, Idle, Trans
<1>2. OneAtATime'
  BY <1>u, <1>n, TxOf DEF OneAtATime, Calling, Idle, Trans
<1>3. NamesTaken'
  BY <1>u, <1>n, TxOf DEF NamesTaken, HasName
<1>4. UidsCounted'
  BY <1>u, <1>n, TxOf DEF UidsCounted, HasUid, UidSet, ZoneTypeOK, Trans
<1>5. UidSet'
  BY <1>u, <1>n, TxOf DEF UidSet, OneAtATime
<1>6. RolesInPool'
  BY <1>u, <1>n, TxOf DEF RolesInPool, Holds, InPool, Idle, UidSet,
     ZoneTypeOK, Trans
<1>7. RolesStored'
  BY <1>u, <1>n, TxOf DEF RolesStored, OneAtATime, Trans
<1>8. CallbackOnItsNode'
  BY <1>u, <1>n, TxOf DEF CallbackOnItsNode, OneAtATime, Calling, Holds,
     InPool, Idle
<1>9. CopiesOneLogin'
  BY <1>u, <1>n, TxOf DEF CopiesOneLogin, Idle
<1>10. OnlyPlayers' /\ OwnNodes'
  BY <1>u, <1>n, TxOf DEF OnlyPlayers, OwnNodes
<1> QED BY <1>1, <1>2, <1>3, <1>4, <1>5, <1>6, <1>7, <1>8, <1>9, <1>10 DEF ZoneInv

\* The first to take a name is the only one told nil.
LEMMA GetSetKeeps ==
  ASSUME ZoneInv, crash = None, commands # <<>>, commands' = Tail(commands),
         GetSet(Head(commands)), UNCHANGED <<players, trans, worker, redox, crash>>
  PROVE  ZoneInv'
<1> USE ZoneAssumption DEF ZoneInv, redis, link, players, trans
<1>t. PICK r \in Regs :
        /\ r = Head(commands).tx /\ r \in Txs(commands) /\ r \notin Txs(commands')
        /\ commands' \in Seq(Commands) /\ Head(commands) \in Elems(commands)
        /\ Elems(commands') \subseteq Elems(commands)
        /\ Txs(commands') \subseteq Txs(commands) /\ Once(commands')
        /\ stage[r] = "name"
        /\ nicks' = nicks \cup {name[r]} /\ UNCHANGED <<counter, stored>>
        /\ UNCHANGED <<players, trans, worker, redox, crash>>
  BY CommandFacts DEF GetSet, OneAtATime, Trans
<1>v. PICK status \in {"ok", "nil", "error"}, w \in Nat \cup Regs \cup {None} :
        /\ Reply(Head(commands), status, w)
        /\ status = (IF name[r] \in nicks THEN "ok" ELSE "nil")
  BY <1>t DEF GetSet
<1>r. PICK m \in Replies :
        /\ m.tx = r
        /\ m.status # "error" => m.status = (IF name[r] \in nicks THEN "ok" ELSE "nil")
        /\ replies' \in Seq(Replies) /\ Elems(replies') = Elems(replies) \cup {m}
        /\ Txs(replies') = Txs(replies) \cup {r} /\ Once(replies')
  BY <1>t, <1>v, ReplyFacts
<1>h. \A s \in Regs :
        HasName(s)' => HasName(s) \/ (s = r /\ name[r] \notin nicks)
  BY <1>t, <1>r DEF HasName
<1>1. ZoneTypeOK'
  BY <1>t, <1>r, <1>h, TxOf DEF ZoneTypeOK, Nodes, Taken, NullOnlyWhenFull,
     RedoxStates, Idle, Trans
<1>2. OneAtATime'
  BY <1>t, <1>r, <1>h, TxOf DEF OneAtATime, Calling, Idle, Trans
<1>3. NamesTaken'
  BY <1>t, <1>r, <1>h, TxOf DEF NamesTaken, HasName
<1>4. UidsCounted'
  BY <1>t, <1>r, <1>h, TxOf DEF UidsCounted, HasUid, UidSet, ZoneTypeOK,
     Trans
<1>5. UidSet'
  BY <1>t, <1>r, <1>h, TxOf DEF UidSet, OneAtATime
<1>6. RolesStored'
  BY <1>t, <1>r, <1>h, TxOf DEF RolesStored, OneAtATime, Trans
<1>7. /\ OnlyPlayers' /\ OwnNodes' /\ RolesInPool'
      /\ CallbackOnItsNode' /\ CopiesOneLogin'
  BY <1>t, <1>r, <1>h, TxOf DEF OnlyPlayers, OwnNodes, RolesInPool, Holds,
     InPool, CallbackOnItsNode, CopiesOneLogin
<1> QED BY <1>1, <1>2, <1>3, <1>4, <1>5, <1>6, <1>7 DEF ZoneInv

\* The next uid is above all that were given.
LEMMA IncrKeeps ==
  ASSUME ZoneInv, crash = None, commands # <<>>, commands' = Tail(commands),
         Incr(Head(commands)), UNCHANGED <<players, trans, worker, redox, crash>>
  PROVE  ZoneInv'
<1> USE ZoneAssumption DEF ZoneInv, redis, link, players, trans
<1>t. PICK r \in Regs :
        /\ r = Head(commands).tx /\ r \in Txs(commands) /\ r \notin Txs(commands')
        /\ commands' \in Seq(Commands) /\ Head(commands) \in Elems(commands)
        /\ Elems(commands') \subseteq Elems(commands)
        /\ Txs(commands') \subseteq Txs(commands) /\ Once(commands')
        /\ stage[r] = "uid"
        /\ counter' = counter + 1 /\ UNCHANGED <<nicks, stored>>
        /\ UNCHANGED <<players, trans, worker, redox, crash>>
  BY CommandFacts DEF Incr, OneAtATime, Trans
<1>v. PICK status \in {"ok", "nil", "error"}, w \in Nat \cup Regs \cup {None} :
        /\ Reply(Head(commands), status, w)
        /\ status = "ok" /\ w = counter + 1
  BY <1>t DEF Incr, ZoneTypeOK
<1>r. PICK m \in Replies :
        /\ m.tx = r
        /\ m.status # "error" => m.status = "ok" /\ m.value = counter + 1
        /\ replies' \in Seq(Replies) /\ Elems(replies') = Elems(replies) \cup {m}
        /\ Txs(replies') = Txs(replies) \cup {r} /\ Once(replies')
  BY <1>t, <1>v, ReplyFacts
<1>h. \A s \in Regs : \A u \in Nat :
        HasUid(s, u)' => HasUid(s, u) \/ (s = r /\ u = counter + 1)
  BY <1>t, <1>r DEF HasUid
<1>1. ZoneTypeOK'
  BY <1>t, <1>r, <1>h, TxOf DEF ZoneTypeOK, Nodes, Taken, NullOnlyWhenFull,
     RedoxStates, Idle, Trans
<1>2. OneAtATime'
  BY <1>t, <1>r, <1>h, TxOf DEF OneAtATime, Calling, Idle, Trans
<1>3. NamesTaken'
  BY <1>t, <1>r, <1>h, TxOf DEF NamesTaken, HasName
<1>4. UidsCounted'
  BY <1>t, <1>r, <1>h, TxOf DEF UidsCounted, HasUid, UidSet, ZoneTypeOK,
     Trans
<1>5. UidSet'
  BY <1>t, <1>r, <1>h, TxOf DEF UidSet, OneAtATime, Calling, ZoneTypeOK,
     Trans
<1>6. RolesStored'
  BY <1>t, <1>r, <1>h, TxOf DEF RolesStored, OneAtATime, Trans
<1>7. /\ OnlyPlayers' /\ OwnNodes' /\ RolesInPool'
      /\ CallbackOnItsNode' /\ CopiesOneLogin'
  BY <1>t, <1>r, <1>h, TxOf DEF OnlyPlayers, OwnNodes, RolesInPool, Holds,
     InPool, CallbackOnItsNode, CopiesOneLogin
<1> QED BY <1>1, <1>2, <1>3, <1>4, <1>5, <1>6, <1>7 DEF ZoneInv

\* The role is stored under a uid that is nobody else's.
LEMMA MSetKeeps ==
  ASSUME ZoneInv, crash = None, commands # <<>>, commands' = Tail(commands),
         MSet(Head(commands)), UNCHANGED <<players, trans, worker, redox, crash>>
  PROVE  ZoneInv'
<1> USE ZoneAssumption DEF ZoneInv, redis, link, players, trans
<1>t. PICK r \in Regs :
        /\ r = Head(commands).tx /\ r \in Txs(commands) /\ r \notin Txs(commands')
        /\ commands' \in Seq(Commands) /\ Head(commands) \in Elems(commands)
        /\ Elems(commands') \subseteq Elems(commands)
        /\ Txs(commands') \subseteq Txs(commands) /\ Once(commands')
        /\ stage[r] = "role"
        /\ stored' = Put(stored, uid[r], r) /\ UNCHANGED <<nicks, counter>>
        /\ UNCHANGED <<players, trans, worker, redox, crash>>
  BY CommandFacts DEF MSet, OneAtATime, Trans, RolesStored
<1>v. PICK status \in {"ok", "nil", "error"}, w \in Nat \cup Regs \cup {None} :
        /\ Reply(Head(commands), status, w)
        /\ status = "ok"
  BY <1>t DEF MSet
<1>r. PICK m \in Replies :
        /\ m.tx = r
        /\ m.status # "error" => m.status = "ok"
        /\ replies' \in Seq(Replies) /\ Elems(replies') = Elems(replies) \cup {m}
        /\ Txs(replies') = Txs(replies) \cup {r} /\ Once(replies')
  BY <1>t, <1>v, ReplyFacts
<1>s. /\ DOMAIN stored' = DOMAIN stored \cup {uid[r]} /\ stored'[uid[r]] = r
      /\ \A u \in DOMAIN stored : u # uid[r] => stored'[u] = stored[u]
      /\ uid[r] \in Nat
      /\ \A s \in Regs : s # r => uid[s] # uid[r]
  BY <1>t DEF Put, UidSet, UidsCounted, HasUid, ZoneTypeOK
<1>1. ZoneTypeOK'
  BY <1>t, <1>r, <1>s, TxOf DEF ZoneTypeOK, Nodes, Taken, NullOnlyWhenFull,
     RedoxStates, Idle, Trans
<1>2. OneAtATime'
  BY <1>t, <1>r, <1>s, TxOf DEF OneAtATime, Calling, Idle, Trans
<1>3. NamesTaken'
  BY <1>t, <1>r, <1>s, TxOf DEF NamesTaken, HasName
<1>4. UidsCounted'
  BY <1>t, <1>r, <1>s, TxOf DEF UidsCounted, HasUid, UidSet, ZoneTypeOK,
     Trans
<1>5. UidSet'
  BY <1>t, <1>r, <1>s, TxOf DEF UidSet, OneAtATime
<1>6. OnlyPlayers'
  BY <1>t, <1>r, <1>s, TxOf DEF OnlyPlayers
<1>7. RolesStored'
  BY <1>t, <1>r, <1>s, TxOf DEF RolesStored, OneAtATime, Trans
<1>8. /\ OwnNodes' /\ RolesInPool' /\ CallbackOnItsNode'
      /\ CopiesOneLogin'
  BY <1>t, <1>r, <1>s, TxOf DEF OwnNodes, RolesInPool, Holds, InPool,
     CallbackOnItsNode, CopiesOneLogin
<1> QED BY <1>1, <1>2, <1>3, <1>4, <1>5, <1>6, <1>7, <1>8 DEF ZoneInv

\* What is stored under a uid is a role.
LEMMA GetKeeps ==
  ASSUME ZoneInv, crash = None, commands # <<>>, commands' = Tail(commands),
         Get(Head(commands)), UNCHANGED <<players, trans, worker, redox, crash>>
  PROVE  ZoneInv'
<1> USE ZoneAssumption DEF ZoneInv, redis, link, players, trans
<1>t. PICK l \in Logins :
        /\ l = Head(commands).tx /\ l \in Txs(commands) /\ l \notin Txs(commands')
        /\ commands' \in Seq(Commands) /\ Head(commands) \in Elems(commands)
        /\ Elems(commands') \subseteq Elems(commands)
        /\ Txs(commands') \subseteq Txs(commands) /\ Once(commands')
        /\ stage[l] = "load"
        /\ UNCHANGED redis
        /\ UNCHANGED <<players, trans, worker, redox, crash>>
  BY CommandFacts DEF Get, OneAtATime, Trans
<1>v. PICK status \in {"ok", "nil", "error"}, w \in Nat \cup Regs \cup {None} :
        /\ Reply(Head(commands), status, w)
        /\ status = "ok" => w \in Regs /\ uid[l] \in DOMAIN stored
  BY <1>t DEF Get, RolesStored
<1>r. PICK m \in Replies :
        /\ m.tx = l
        /\ m.status = "ok" => m.value \in Regs /\ uid[l] \in DOMAIN stored
        /\ replies' \in Seq(Replies) /\ Elems(replies') = Elems(replies) \cup {m}
        /\ Txs(replies') = Txs(replies) \cup {l} /\ Once(replies')
  <2>1. PICK m \in Replies :
          /\ m.tx = Head(commands).tx
          /\ m.status # "error" => m.status = status /\ m.value = w
          /\ replies' \in Seq(Replies)
          /\ Elems(replies') = Elems(replies) \cup {m}
          /\ Txs(replies') = Txs(replies) \cup {m.tx}
          /\ Once(replies')
    BY <1>t, <1>v, ReplyFacts
  <2> QED BY <2>1, <1>t, <1>v
<1>1. ZoneTypeOK'
  BY <1>t, <1>r, TxOf DEF ZoneTypeOK, Nodes, Taken, NullOnlyWhenFull,
     RedoxStates, Idle, Trans
<1>2. OneAtATime'
  BY <1>t, <1>r, TxOf DEF OneAtATime, Calling, Idle, Trans
<1>3. NamesTaken'
  BY <1>t, <1>r, TxOf DEF NamesTaken, HasName
<1>4. UidsCounted'
  BY <1>t, <1>r, TxOf DEF UidsCounted, HasUid, UidSet, ZoneTypeOK, Trans
<1>5. UidSet'
  BY <1>t, <1>r, TxOf DEF UidSet, OneAtATime
<1>6. RolesStored'
  BY <1>t, <1>r, TxOf DEF RolesStored, OneAtATime, Trans
<1>7. /\ OnlyPlayers' /\ OwnNodes' /\ RolesInPool'
      /\ CallbackOnItsNode' /\ CopiesOneLogin'
  BY <1>t, <1>r, TxOf DEF OnlyPlayers, OwnNodes, RolesInPool, Holds, InPool,
     CallbackOnItsNode, CopiesOneLogin
<1> QED BY <1>1, <1>2, <1>3, <1>4, <1>5, <1>6, <1>7 DEF ZoneInv

\* A reply of no consequence.
LEMMA RefusedKeeps ==
  ASSUME ZoneInv, crash = None, commands # <<>>, commands' = Tail(commands),
         Refused(Head(commands)), UNCHANGED <<players, trans, worker, redox, crash>>
  PROVE  ZoneInv'
<1> USE ZoneAssumption DEF ZoneInv, redis, link, players, trans
<1>t. PICK t \in Trans :
        /\ t = Head(commands).tx /\ t \in Txs(commands) /\ t \notin Txs(commands')
        /\ commands' \in Seq(Commands) /\ Head(commands) \in Elems(commands)
        /\ Elems(commands') \subseteq Elems(commands)
        /\ Txs(commands') \subseteq Txs(commands) /\ Once(commands')
        /\ UNCHANGED redis
        /\ UNCHANGED <<players, trans, worker, redox, crash>>
  BY CommandFacts DEF Refused, OneAtATime, Trans
<1>v. PICK status \in {"ok", "nil", "error"}, w \in Nat \cup Regs \cup {None} :
        /\ Reply(Head(commands), status, w)
        /\ status = "error"
  BY <1>t DEF Refused
<1>r. PICK m \in Replies :
        /\ m.tx = t
        /\ m.status = "error"
        /\ replies' \in Seq(Replies) /\ Elems(replies') = Elems(replies) \cup {m}
        /\ Txs(replies') = Txs(replies) \cup {t} /\ Once(replies')
  <2>1. PICK m \in Replies :
          /\ m.tx = Head(commands).tx
          /\ m.status # "error" => m.status = status /\ m.value = w
          /\ replies' \in Seq(Replies)
          /\ Elems(replies') = Elems(replies) \cup {m}
          /\ Txs(replies') = Txs(replies) \cup {m.tx}
          /\ Once(replies')
    BY <1>t, <1>v, ReplyFacts
  <2> QED BY <2>1, <1>t, <1>v
<1>1. ZoneTypeOK'
  BY <1>t, <1>r, TxOf DEF ZoneTypeOK, Nodes, Taken, NullOnlyWhenFull,
     RedoxStates, Idle, Trans
<1>2. OneAtATime'
  BY <1>t, <1>r, TxOf DEF OneAtATime, Calling, Idle, Trans
<1>3. NamesTaken'
  BY <1>t, <1>r, TxOf DEF NamesTaken, HasName
<1>4. UidsCounted'
  BY <1>t, <1>r, TxOf DEF UidsCounted, HasUid, UidSet, ZoneTypeOK, Trans
<1>5. UidSet'
  BY <1>t, <1>r, TxOf DEF UidSet, OneAtATime
<1>6. RolesStored'
  BY <1>t, <1>r, TxOf DEF RolesStored, OneAtATime, Trans
<1>7. /\ OnlyPlayers' /\ OwnNodes' /\ RolesInPool'
      /\ CallbackOnItsNode' /\ CopiesOneLogin'
  BY <1>t, <1>r, TxOf DEF OnlyPlayers, OwnNodes, RolesInPool, Holds, InPool,
     CallbackOnItsNode, CopiesOneLogin
<1> QED BY <1>1, <1>2, <1>3, <1>4, <1>5, <1>6, <1>7 DEF ZoneInv

\* The process starts with nobody in redis, in the pool or on the way.
LEMMA InitFacts ==
  ZoneInit => ZoneInv
<1> SUFFICES ASSUME ZoneInit PROVE ZoneInv
  OBVIOUS
<1> USE ZoneAssumption DEF ZoneInit
<1>e. Elems(<<>>) = {} /\ Txs(<<>>) = {} /\ Once(<<>>)
  BY DEF Elems, Txs, Once
<1>1. ZoneTypeOK
  <2>1. PICK asked \in [Logins -> Asked] :
          uid = [t \in Trans |-> IF t \in Logins THEN asked[t] ELSE None]
    OBVIOUS
  <2>2. /\ \A l \in Logins : uid[l] \in Nat
        /\ \A r \in Regs : uid[r] = None
    BY <2>1 DEF Trans
  <2>3. commands \in Seq(Commands) /\ replies \in Seq(Replies)
    OBVIOUS
  <2>4. max_node \in Nat /\ redox \in RedoxStates /\ NullOnlyWhenFull
    BY DEF NullOnlyWhenFull, RedoxStates, Idle
  <2>5. DOMAIN stage = Trans /\ DOMAIN uid = Trans /\ DOMAIN answer = Trans
    BY <2>1
  <2>6. /\ \A u \in DOMAIN place : place[u] \in Nodes
        /\ DOMAIN content = Nodes /\ counter \in Nat
    OBVIOUS
  <2> QED BY <2>2, <2>3, <2>4, <2>5, <2>6 DEF ZoneTypeOK
<1>2. OneAtATime
  BY <1>e DEF OneAtATime, Calling, Idle
<1>3. NamesTaken
  BY <1>e DEF NamesTaken, HasName, Trans
<1>4. UidsCounted
  BY <1>e DEF UidsCounted, HasUid, Trans
<1>5. UidSet
  BY <1>e DEF UidSet, Trans
<1>6. OnlyPlayers /\ OwnNodes
  BY DEF OnlyPlayers, OwnNodes
<1>7. RolesInPool /\ RolesStored
  BY <1>e DEF RolesInPool, RolesStored, Holds, Trans
<1>8. CallbackOnItsNode /\ CopiesOneLogin
  BY DEF CallbackOnItsNode, CopiesOneLogin, Idle
<1> QED BY <1>1, <1>2, <1>3, <1>4, <1>5, <1>6, <1>7, <1>8 DEF ZoneInv

\* A step of the specification keeps the invariant.
LEMMA ZoneStep ==
  ZoneInv /\ [ZoneNext]_zoneVars => ZoneInv'
<1> SUFFICES ASSUME ZoneInv, [ZoneNext]_zoneVars PROVE ZoneInv'
  OBVIOUS
<1>1. CASE crash = None /\ Work
  BY <1>1, LogRequestKeeps, CopyProfileKeeps, EnterRegisterKeeps, EnterLoginKeeps,
     ParseFailsKeeps DEF Work
<1>2. CASE crash = None /\ Redis
  BY <1>2, GetSetKeeps, IncrKeeps, MSetKeeps, GetKeeps, RefusedKeeps DEF Redis
<1>3. CASE crash = None /\ EventLoop
  BY <1>3, InitProfileKeeps, FreePlayerKeeps, FillProfileKeeps, GotNameKeeps, GotUidKeeps,
     UidFailsKeeps, RoleStoredKeeps, RoleFailsKeeps, NoProfileKeeps, GotProfileKeeps
     DEF EventLoop
<1>4. CASE UNCHANGED zoneVars
  <2> USE <1>4 DEF zoneVars, redis, link, players, trans, ZoneInv
  <2>1. ZoneTypeOK' /\ OneAtATime'
    BY DEF ZoneTypeOK, Nodes, Taken, NullOnlyWhenFull, OneAtATime, Calling
  <2>2. NamesTaken' /\ UidsCounted' /\ UidSet'
    BY DEF NamesTaken, HasName, UidsCounted, HasUid, UidSet
  <2>3. OnlyPlayers' /\ OwnNodes' /\ RolesInPool'
    BY DEF OnlyPlayers, OwnNodes, RolesInPool, Holds, InPool
  <2>4. RolesStored' /\ CallbackOnItsNode' /\ CopiesOneLogin'
    BY DEF RolesStored, CallbackOnItsNode, CopiesOneLogin, Holds, InPool
  <2> QED BY <2>1, <2>2, <2>3, <2>4
<1> QED BY <1>1, <1>2, <1>3, <1>4 DEF ZoneNext

\* Every state of the game service satisfies the inductive invariant.
THEOREM ZoneInvariant ==
  ZoneSpec => []ZoneInv
BY InitFacts, ZoneStep, PTL DEF ZoneSpec

\* Registrations do not meet each other (register.cpp, player_data_mgr.cpp):
\* whoever was told that he is registered has his nickname and his uid alone,
\* and his own role is stored in redis and held in his own node of the pool,
\* however many register and log in at once and whichever commands fail.
THEOREM RolesAreOwn ==
  ZoneSpec => []OwnRoles
<1>1. ZoneInv => OwnRoles
  <2> SUFFICES ASSUME ZoneInv PROVE OwnRoles
    OBVIOUS
  <2>1. SoleNames
    <3> SUFFICES ASSUME NEW r \in Regs, NEW s \in Regs, r # s,
                        answer[r] = "ok", answer[s] = "ok"
                 PROVE  name[r] # name[s] /\ uid[r] # uid[s]
      BY DEF SoleNames
    <3>1. name[r] # name[s]
      BY DEF ZoneInv, NamesTaken, HasName
    <3>2. uid[r] \in Nat
      BY DEF ZoneInv, ZoneTypeOK, UidSet
    <3>3. uid[r] # uid[s]
      BY <3>2 DEF ZoneInv, UidsCounted, HasUid
    <3> QED BY <3>1, <3>3
  <2>2. RolesKept
    BY DEF ZoneInv, RolesKept, RolesInPool, RolesStored, Holds
  <2> QED BY <2>1, <2>2 DEF OwnRoles
<1> QED BY <1>1, ZoneInvariant, PTL

\* PlayerDataMgr::Add runs the constructor of PProfile on NULL only when all
\* player_max_node nodes are taken, and Del never looks for a player in vain.
THEOREM PoolFullOnly ==
  ZoneSpec => []NullOnlyWhenFull
<1>1. ZoneInv => NullOnlyWhenFull
  BY DEF ZoneInv, ZoneTypeOK
<1> QED BY <1>1, ZoneInvariant, PTL

=============================================================================
