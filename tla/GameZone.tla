------------------------------- MODULE GameZone -------------------------------
(***************************************************************************)
(* The game service: registrations and logins of players, the pool of      *)
(* online players and the redis server behind them.                        *)
(*                                                                         *)
(* Two threads run its code.  A worker of the kernel runs Enter of one     *)
(* transaction after the other; the event loop of redox (external) runs    *)
(* the callbacks of the redis commands, each to its end.  Redis (external) *)
(* executes the commands of the connection in order, and redox calls back  *)
(* in that order; a command may fail, executed or not.                     *)
(*                                                                         *)
(* A profile is the transaction that made it: its name and uid with it.    *)
(* Left out: the account's record that MSET stores beside the profile (it  *)
(* is never read), zones, and the delivery of the answers.                 *)
(***************************************************************************)
EXTENDS Integers, Sequences

CONSTANTS
  Regs,       \* registrations
  Logins,     \* logins
  Names,      \* nicknames
  Asked,      \* the uids logins ask for
  MaxNodes,   \* bound of the model: the largest pool
  None

Trans == Regs \cup Logins

ASSUME ZoneAssumption ==
  /\ Regs \cap Logins = {}
  /\ None \notin Trans \cup Nat \cup {"ok", "idle", "null"}
  /\ Asked \subseteq Nat
  /\ MaxNodes \in Nat \ {0}

VARIABLES
  \* redis and the connection to it
  nicks,      \* the names with a key nick_<name>
  counter,    \* sole_uid_in_one_redis
  stored,     \* the profile under each uid's key
  commands,   \* the commands on their way, in order
  replies,    \* the replies on their way back, in order
  \* PlayerDataMgr
  max_node,   \* player_max_node of the configuration: 16000
  place,      \* the node of each uid in the pool
  content,    \* what each node holds
  \* the transactions
  stage,      \* how far each is; "freed" once it has deleted itself
  name,       \* _req.name of a registration
  uid,        \* the uid of a registration, once it has one; what a login asks for
  answer,     \* what its client was told
  \* the process
  worker,     \* what the worker is in the middle of
  redox,      \* what the callback in the event loop is in the middle of
  crash       \* why the process died

redis    == <<nicks, counter, stored>>
link     == <<commands, replies>>
players  == <<max_node, place, content>>
trans    == <<stage, name, uid, answer>>
zoneVars == <<redis, link, players, trans, worker, redox, crash>>

Nodes == 1..max_node
Idle  == [at |-> "idle", tx |-> None, node |-> None, value |-> None]

ZoneInit ==
  /\ nicks = {} /\ counter = 0 /\ stored = <<>>
  /\ commands = <<>> /\ replies = <<>>
  /\ max_node \in 1..MaxNodes
  /\ place = <<>> /\ content = [n \in Nodes |-> None]
  /\ stage = [t \in Trans |-> "new"]
  /\ name \in [Regs -> Names]
  /\ \E asked \in [Logins -> Asked] :
       uid = [t \in Trans |-> IF t \in Logins THEN asked[t] ELSE None]
  /\ answer = [t \in Trans |-> None]
  /\ worker = Idle /\ redox = Idle
  /\ crash = None

-----------------------------------------------------------------------------
(* Pieces of the handlers.                                                 *)

\* A command for redox; the stage of the transaction says which it is.
Command(t, s, v) ==
  /\ commands' = Append(commands, [tx |-> t, value |-> v])
  /\ stage' = [stage EXCEPT ![t] = s]

\* sendToClinet.  It hands its own stack frame to the socket server, which will
\* free it: the process may die, unless the connection is gone.
Tell(t, what, s) ==
  /\ answer' = [answer EXCEPT ![t] = what]
  /\ stage' = [stage EXCEPT ![t] = s]
  /\ crash' \in {None, "stack"}

\* Send2Client: the answer and Exit, which deletes the transaction.
Send2Client(t, what) == Tell(t, what, "freed")

InPool(u) == u \in DOMAIN place

Taken == {place[u] : u \in DOMAIN place}

Vacant == Nodes \ Taken

\* What is on its way, and whose it is.
Elems(s) == {s[i] : i \in DOMAIN s}
Txs(s)   == {m.tx : m \in Elems(s)}

\* f with v at k.
Put(f, k, v) == [j \in DOMAIN f \cup {k} |-> IF j = k THEN v ELSE f[j]]

\* PlayerDataMgr::Add of a uid that is not in the pool: Alloc and, in the node,
\* the constructor of PProfile; the callback at hand goes on with p.
Add(u, p) ==
  IF Vacant = {}
  THEN /\ crash' = "null"    \* the constructor is run on NULL
       /\ UNCHANGED <<players, redox>>
  ELSE \E n \in Vacant :
         /\ place' = Put(place, u, n)
         /\ content' = [content EXCEPT ![n] = "empty"]
         /\ redox' = [p EXCEPT !.node = n]
         /\ UNCHANGED <<max_node, crash>>

-----------------------------------------------------------------------------
(* The worker: Enter.                                                      *)

\* ParseFromArray fails: no answer, and the transaction is never deleted.
ParseFails(t) ==
  /\ worker = Idle /\ stage[t] = "new"
  /\ stage' = [stage EXCEPT ![t] = "silent"]
  /\ UNCHANGED <<redis, link, players, name, uid, answer, worker, redox, crash>>

\* Register::Enter up to the GETSET ...
EnterRegister(r) ==
  /\ worker = Idle /\ stage[r] = "new"
  /\ Command(r, "name", None)
  /\ worker' = [Idle EXCEPT !.at = "log", !.tx = r]
  /\ UNCHANGED <<redis, replies, players, name, uid, answer, redox, crash>>

\* ... and its last line, which logs _req.
LogRequest ==
  /\ worker.at = "log"
  /\ worker' = Idle
  /\ crash' \in IF stage[worker.tx] = "freed" THEN {None, "freed"} ELSE {None}
  /\ UNCHANGED <<redis, link, players, trans, redox>>

\* Login::Enter: GetProfile, and a GET where the player is not in the pool.
EnterLogin(l) ==
  /\ worker = Idle /\ stage[l] = "new"
  /\ IF InPool(uid[l])
     THEN /\ worker' = [Idle EXCEPT !.at = "copy", !.tx = l, !.node = place[uid[l]]]
          /\ stage' = [stage EXCEPT ![l] = "copy"]
          /\ UNCHANGED commands
     ELSE Command(l, "load", None) /\ UNCHANGED worker
  /\ UNCHANGED <<redis, replies, players, name, uid, answer, redox, crash>>

\* *rsp_profile = *p_profile, without the lock of the pool, and the answer.
CopyProfile ==
  /\ worker.at = "copy"
  /\ worker' = Idle
  /\ \/ Tell(worker.tx, content[worker.node], "told")
     \/ /\ content[worker.node] = "destroyed"
        /\ crash' = "destroyed"
        /\ UNCHANGED <<stage, answer>>
  /\ UNCHANGED <<redis, link, players, name, uid, redox>>

-----------------------------------------------------------------------------
(* Redis.                                                                  *)

\* The reply to c, or the loss of it.
Reply(c, status, v) ==
  \E r \in {[tx |-> c.tx, status |-> status, value |-> v],
            [tx |-> c.tx, status |-> "error", value |-> None]} :
    replies' = Append(replies, r)

\* GETSET nick_<name>
GetSet(c) ==
  /\ stage[c.tx] = "name"
  /\ Reply(c, IF name[c.tx] \in nicks THEN "ok" ELSE "nil", None)
  /\ nicks' = nicks \cup {name[c.tx]}
  /\ UNCHANGED <<counter, stored>>

\* INCR sole_uid_in_one_redis
Incr(c) ==
  /\ stage[c.tx] = "uid"
  /\ Reply(c, "ok", counter + 1)
  /\ counter' = counter + 1
  /\ UNCHANGED <<nicks, stored>>

\* MSET
MSet(c) ==
  /\ stage[c.tx] = "role"
  /\ Reply(c, "ok", None)
  /\ stored' = Put(stored, uid[c.tx], c.value)
  /\ UNCHANGED <<nicks, counter>>

\* GET
Get(c) ==
  /\ stage[c.tx] = "load"
  /\ LET u == uid[c.tx] IN
     IF u \in DOMAIN stored THEN Reply(c, "ok", stored[u]) ELSE Reply(c, "nil", None)
  /\ UNCHANGED redis

\* The command is not executed.
Refused(c) == Reply(c, "error", None) /\ UNCHANGED redis

Redis ==
  /\ commands # <<>>
  /\ commands' = Tail(commands)
  /\ LET c == Head(commands) IN
     GetSet(c) \/ Incr(c) \/ MSet(c) \/ Get(c) \/ Refused(c)
  /\ UNCHANGED <<players, trans, worker, redox, crash>>

-----------------------------------------------------------------------------
(* The callbacks.                                                          *)

\* The event loop calls back for the reply of transaction t in stage s.
Callback(t, s) ==
  /\ redox = Idle /\ replies # <<>>
  /\ Head(replies).tx = t /\ stage[t] = s
  /\ replies' = Tail(replies)

\* The definitions named Bug... are wrong variants of the definition that
\* follows; no specification uses them.  Here a name that was taken is as good
\* as a new one.
BugGotName(r) ==
  /\ Callback(r, "name")
  /\ \/ /\ Head(replies).status # "error"
        /\ Command(r, "uid", None)
        /\ UNCHANGED <<answer, crash>>
     \/ /\ Head(replies).status = "error"
        /\ Send2Client(r, "failed")
        /\ UNCHANGED commands
  /\ UNCHANGED <<redis, players, name, uid, worker, redox>>

GotName(r) ==
  /\ Callback(r, "name")
  /\ \/ /\ Head(replies).status = "nil"
        /\ Command(r, "uid", None)
        /\ UNCHANGED <<answer, crash>>
     \/ /\ Head(replies).status # "nil"
        /\ Send2Client(r, IF Head(replies).status = "ok" THEN "duplicate" ELSE "failed")
        /\ UNCHANGED commands
  /\ UNCHANGED <<redis, players, name, uid, worker, redox>>

\* The transaction is not deleted, and nobody is told, when INCR fails.
BugUidFails(r) ==
  /\ Callback(r, "uid") /\ Head(replies).status # "ok"
  /\ stage' = [stage EXCEPT ![r] = "silent"]
  /\ UNCHANGED <<redis, commands, players, name, uid, answer, worker, redox, crash>>

\* GetUid's callback, after a failed INCR: the nickname stays taken.
UidFails(r) ==
  /\ Callback(r, "uid") /\ Head(replies).status # "ok"
  /\ Send2Client(r, "failed")
  /\ UNCHANGED <<redis, commands, players, name, uid, worker, redox>>

\* GetUid's callback: SetProfile, with InitProfile up to Add ...
GotUid(r) ==
  /\ Callback(r, "uid") /\ Head(replies).status = "ok"
  /\ LET u == Head(replies).value IN
     /\ uid' = [uid EXCEPT ![r] = u]
     /\ IF InPool(u)
        THEN Command(r, "role", content[place[u]]) /\ UNCHANGED <<players, redox, crash>>
        ELSE /\ Add(u, [Idle EXCEPT !.at = "init", !.tx = r])
             /\ UNCHANGED <<commands, stage>>
  /\ UNCHANGED <<redis, name, answer, worker>>

\* ... then the fields of the profile, and MSET.
InitProfile ==
  /\ redox.at = "init"
  /\ content' = [content EXCEPT ![redox.node] = redox.tx]
  /\ Command(redox.tx, "role", redox.tx)
  /\ redox' = Idle
  /\ UNCHANGED <<redis, replies, max_node, place, name, uid, answer, worker, crash>>

\* SetProfile's callback.
RoleStored(r) ==
  /\ Callback(r, "role") /\ Head(replies).status = "ok"
  /\ Send2Client(r, "ok")
  /\ UNCHANGED <<redis, commands, players, name, uid, worker, redox>>

\* ... after a failed MSET: PlayerDataMgr::Del destroys the profile ...
RoleFails(r) ==
  /\ Callback(r, "role") /\ Head(replies).status # "ok"
  /\ IF InPool(uid[r])
     THEN /\ content' = [content EXCEPT ![place[uid[r]]] = "destroyed"]
          /\ redox' = [Idle EXCEPT !.at = "free", !.tx = r]
          /\ UNCHANGED crash
     ELSE crash' = "null" /\ UNCHANGED <<content, redox>>
  /\ UNCHANGED <<redis, commands, max_node, place, trans, worker>>

\* ... and frees its node.
FreePlayer ==
  /\ redox.at = "free"
  /\ place' = [u \in DOMAIN place \ {uid[redox.tx]} |-> place[u]]
  /\ Send2Client(redox.tx, "failed")
  /\ redox' = Idle
  /\ UNCHANGED <<redis, link, max_node, content, name, uid, worker>>

\* Login's callback: no profile, one that cannot be parsed, or a player that is
\* in the pool meanwhile: no answer.
NoProfile(l) ==
  /\ Callback(l, "load")
  /\ \/ Head(replies).status # "ok"
     \/ Head(replies).value = "empty"
     \/ InPool(uid[l])
  /\ stage' = [stage EXCEPT ![l] = "silent"]
  /\ UNCHANGED <<redis, commands, players, name, uid, answer, worker, redox, crash>>

GotProfile(l) ==
  /\ Callback(l, "load")
  /\ Head(replies).status = "ok" /\ Head(replies).value # "empty"
  /\ ~InPool(uid[l])
  /\ Add(uid[l], [Idle EXCEPT !.at = "fill", !.tx = l, !.value = Head(replies).value])
  /\ UNCHANGED <<redis, commands, trans, worker>>

\* *p_profile = profile, and the answer.
FillProfile ==
  /\ redox.at = "fill"
  /\ content' = [content EXCEPT ![redox.node] = redox.value]
  /\ Tell(redox.tx, redox.value, "told")
  /\ redox' = Idle
  /\ UNCHANGED <<redis, link, max_node, place, name, uid, worker>>

-----------------------------------------------------------------------------
Work == \/ LogRequest \/ CopyProfile
        \/ \E r \in Regs : EnterRegister(r)
        \/ \E l \in Logins : EnterLogin(l)
        \/ \E t \in Trans : ParseFails(t)

EventLoop == \/ InitProfile \/ FreePlayer \/ FillProfile
             \/ \E r \in Regs : \/ GotName(r) \/ GotUid(r) \/ UidFails(r)
                                \/ RoleStored(r) \/ RoleFails(r)
             \/ \E l \in Logins : NoProfile(l) \/ GotProfile(l)

ZoneNext == crash = None /\ (Work \/ Redis \/ EventLoop)

ZoneSpec == ZoneInit /\ [][ZoneNext]_zoneVars

\* Redis answers or the connection fails, and the event loop runs.
ZoneFairness ==
  /\ WF_zoneVars(crash = None /\ Redis)
  /\ WF_zoneVars(crash = None /\ EventLoop)

-----------------------------------------------------------------------------
(* What must hold.                                                         *)

\* Nicknames and uids are globally unique among the players who were told that
\* they are registered.
SoleNames ==
  \A r, s \in Regs :
    r # s /\ answer[r] = "ok" /\ answer[s] = "ok"
      => name[r] # name[s] /\ uid[r] # uid[s]

\* The role of whoever was told so is stored and in the pool, as his own.
RolesKept ==
  \A r \in Regs : answer[r] = "ok" =>
    /\ stored[uid[r]] = r
    /\ InPool(uid[r]) /\ content[place[uid[r]]] = r

\* Registrations do not meet each other, whatever fails in between.
OwnRoles == SoleNames /\ RolesKept

\* PlayerDataMgr uses NULL as a profile only when the pool is full.
NullOnlyWhenFull == crash = "null" => Taken = Nodes

\* A registration that could be parsed is answered, whatever redis says, and its
\* transaction deleted.
Answered ==
  \A r \in Regs : stage[r] = "name" ~> stage[r] = "freed" \/ crash # None

\* GetProfile returns data that is loaded (the comment of GetProfile): a login
\* that finds its player in the pool is answered with the profile of that player.
ProfileLoaded ==
  \A l \in Logins :
    answer[l] # None => answer[l] \in Regs /\ uid[answer[l]] = uid[l]

-----------------------------------------------------------------------------
(* The inductive invariant behind OwnRoles and NullOnlyWhenFull.            *)

Calling == IF redox.at = "idle" THEN {} ELSE {redox.tx}

Commands == [tx : Trans, value : Regs \cup {None}]
Replies   == [tx : Trans, status : {"ok", "nil", "error"}, value : Nat \cup Regs \cup {None}]
RedoxStates   == [at : {"idle", "init", "free", "fill"}, tx : Trans \cup {None},
             node : Nat \cup {None}, value : Nat \cup Regs \cup {None}]

ZoneTypeOK ==
  /\ counter \in Nat
  /\ commands \in Seq(Commands)
  /\ replies \in Seq(Replies)
  /\ DOMAIN stage = Trans /\ DOMAIN uid = Trans /\ DOMAIN answer = Trans
  /\ \A l \in Logins : uid[l] \in Nat
  /\ \A r \in Regs : uid[r] \in Nat \cup {None}
  /\ max_node \in Nat /\ DOMAIN content = Nodes
  /\ \A u \in DOMAIN place : place[u] \in Nodes
  /\ redox \in RedoxStates /\ (redox.at = "idle" => redox = Idle)
  /\ NullOnlyWhenFull

\* A transaction has one command on its way, or one reply, or the callback that
\* runs, and only while its stage says so.
Once(s) == \A i, j \in DOMAIN s : s[i].tx = s[j].tx => i = j

OneAtATime ==
  /\ Once(commands) /\ Once(replies)
  /\ Txs(commands) \cap Txs(replies) = {}
  /\ Calling \cap (Txs(commands) \cup Txs(replies)) = {}
  /\ \A t \in Txs(commands) \cup Txs(replies) \cup Calling :
       /\ t \in Regs => stage[t] \in {"name", "uid", "role"}
       /\ t \in Logins => stage[t] = "load"

\* The registrations that have won their name.
HasName(r) ==
  \/ stage[r] \in {"uid", "role"} \/ answer[r] = "ok"
  \/ \E m \in Elems(replies) : m.tx = r /\ m.status = "nil"

NamesTaken ==
  /\ \A r \in Regs : HasName(r) => name[r] \in nicks
  /\ \A r, s \in Regs : HasName(r) /\ HasName(s) /\ name[r] = name[s] => r = s

\* The uid that is a registration's, or is on its way to it.
HasUid(r, u) ==
  \/ uid[r] = u
  \/ stage[r] = "uid" /\ \E m \in Elems(replies) :
       m.tx = r /\ m.status = "ok" /\ m.value = u

UidsCounted ==
  /\ \A r \in Regs : \A u \in Nat : HasUid(r, u) => u <= counter
  /\ \A r, s \in Regs : \A u \in Nat : HasUid(r, u) /\ HasUid(s, u) => r = s

\* A registration has no uid before SetProfile, and has one after it.
UidSet ==
  /\ \A r \in Regs :
       /\ stage[r] = "new" => uid[r] = None
       /\ r \in Txs(commands) \cup Txs(replies) /\ stage[r] # "role" => uid[r] = None
       /\ stage[r] = "role" \/ answer[r] = "ok" => uid[r] # None
  /\ \A m \in Elems(replies) :
       m.tx \in Regs /\ stage[m.tx] = "uid" /\ m.status = "ok" => m.value \in Nat

\* Who is in the pool, or in redis, has been given that uid.
OnlyPlayers ==
  \A u \in DOMAIN place \cup DOMAIN stored :
    u \in Nat /\ \E r \in Regs : uid[r] = u

\* Two players do not share a node.
OwnNodes == \A u, v \in DOMAIN place : place[u] = place[v] => u = v

\* The registrations whose profile is in the pool.
Holds(r) ==
  \/ answer[r] = "ok"
  \/ stage[r] = "role" /\ ~(redox.at = "free" /\ redox.tx = r)

RolesInPool ==
  \A r \in Regs :
    /\ Holds(r) => InPool(uid[r]) /\ content[place[uid[r]]] = r
    /\ answer[r] = "ok" => stage[r] = "freed"

RolesStored ==
  /\ \A m \in Elems(commands) : stage[m.tx] = "role" => m.value = m.tx
  /\ \A u \in DOMAIN stored : stored[u] \in Regs
  /\ \A r \in Regs : answer[r] = "ok" => uid[r] \in DOMAIN stored /\ stored[uid[r]] = r
  /\ \A m \in Elems(replies) : m.status = "ok" /\ stage[m.tx] = "role" =>
       uid[m.tx] \in DOMAIN stored /\ stored[uid[m.tx]] = m.tx
  /\ \A m \in Elems(replies) : m.status = "ok" /\ stage[m.tx] = "load" =>
       uid[m.tx] \in DOMAIN stored /\ m.value \in Regs

\* The callback in the event loop works on the node of its own player.
CallbackOnItsNode ==
  /\ redox.at = "init" => redox.tx \in Regs /\ stage[redox.tx] = "uid"
  /\ redox.at = "fill" =>
       redox.tx \in Logins /\ \A r \in Regs : Holds(r) => uid[r] # uid[redox.tx]
  /\ redox.at \in {"init", "fill"} =>
       InPool(uid[redox.tx]) /\ place[uid[redox.tx]] = redox.node
  /\ redox.at = "free" => redox.tx \in Regs /\ stage[redox.tx] = "role"

\* A login whose profile the worker copies waits for nothing else.
CopiesOneLogin ==
  worker.at = "copy" => worker.tx \in Logins /\ stage[worker.tx] = "copy"

ZoneInv ==
  /\ ZoneTypeOK /\ OneAtATime /\ NamesTaken /\ UidsCounted /\ UidSet
  /\ OnlyPlayers /\ OwnNodes /\ RolesInPool /\ RolesStored /\ CallbackOnItsNode
  /\ CopiesOneLogin

=============================================================================
