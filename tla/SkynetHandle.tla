---------------------------- MODULE SkynetHandle ----------------------------
(***************************************************************************)
(* The handle storage: the hash table from handles to contexts, the handle *)
(* counter, and the sorted array of names.  One step per section under the *)
(* storage's rwlock; ctx->handle is written by skynet_context_new after    *)
(* skynet_handle_register returned, outside the lock.                      *)
(*                                                                         *)
(* The reference counts of the contexts are in module SkynetDispatch; here *)
(* a context that has left the storage may be freed and its memory be      *)
(* that of a new context at any time.  Handles are those of one node: the  *)
(* harbor number in the high byte is left out.                             *)
(***************************************************************************)
EXTENDS Integers, Sequences, FiniteSets, SequencesExt

CONSTANTS
  Contexts,   \* memory blocks for contexts
  Threads,    \* threads that retire services and name handles
  Launchers,  \* those of them that launch services
  SlotSize,   \* DEFAULT_SLOT_SIZE: 4 in the code
  Mask,       \* HANDLE_MASK: 0xffffff in the code
  MaxIndex,   \* bound of the model: no registration once handle_index exceeds it
  Names,      \* names, with the order of strcmp: a set of numbers
  NULL        \* the null pointer

\* The powers of 2 are the numbers with no odd divisor but 1.
Power2(s) == s \in Nat \ {0} /\ \A d \in 2..s : s % d = 0 => d % 2 = 0

ASSUME HandleAssumption ==
  /\ Launchers \subseteq Threads
  /\ SlotSize \in Nat \ {0} /\ Mask \in Nat
  /\ Power2(Mask + 1) /\ (Mask + 1) % SlotSize = 0
  /\ MaxIndex \in 1..(Mask + 1)
  /\ Names \subseteq Nat
  /\ NULL \notin Contexts

Handles == 0..Mask

VARIABLES
  slot,     \* slot[i]: the context in slot i, the size being DOMAIN slot's
  index,    \* handle_index
  names,    \* the sorted array of names with their handles
  handle,   \* ctx->handle, 0 until it is assigned
  aborted,  \* an assertion of the storage has failed: the process is gone
  pc, ctx,  \* per thread: control point, the context it is launching,
  got,      \* the handle skynet_handle_register returned or the sweep has read,
  i, n,     \* and the variables of skynet_handle_retireall
  ever,     \* history: the handles given since the counter last wrapped
  due       \* history: the handles a sweep found published when it began

storage == <<slot, index, names, aborted>>
local   == <<pc, ctx, got, i, n>>
vars    == <<storage, handle, local, ever, due>>

Size == Cardinality(DOMAIN slot)
Hash(h, size) == h % size

Registered == Range(slot) \ {NULL}
Launching  == {ctx[t] : t \in Threads} \ {NULL}

\* The contexts whose launcher has assigned the handle.
Published == Registered \ Launching

Init ==
  /\ slot = [k \in 0..(SlotSize - 1) |-> NULL]
  /\ index = 1
  /\ names = <<>>
  /\ handle = [c \in Contexts |-> 0]
  /\ aborted = FALSE
  /\ pc = [t \in Threads |-> "idle"]
  /\ ctx = [t \in Threads |-> NULL]
  /\ got = [t \in Threads |-> 0]
  /\ i = [t \in Threads |-> 0]
  /\ n = [t \in Threads |-> 0]
  /\ ever = {}
  /\ due = [t \in Threads |-> {}]

-----------------------------------------------------------------------------
(* skynet_handle_register and the assignment of its result.                *)

\* skynet_context_new allocates the context and sets its handle to 0.
NewContext(t, c) ==
  /\ pc[t] = "idle" /\ t \in Launchers
  /\ c \notin Registered \cup Launching
  /\ handle' = [handle EXCEPT ![c] = 0]
  /\ ctx' = [ctx EXCEPT ![t] = c]
  /\ pc' = [pc EXCEPT ![t] = "register"]
  /\ UNCHANGED <<storage, got, i, n, ever, due>>

\* The handle the search tries in round k.
Try(k) == (k + index) % (Mask + 1)

FreeTries(table, size) == {k \in 0..(size - 1) : table[Hash(Try(k), size)] = NULL}

\* The definitions named Bug... are wrong variants of the definition that
\* follows; no specification uses them.
BugNewHash(k) == Hash(handle[slot[k]], Size)

\* Where the context of slot k goes when the table is doubled.
NewHash(k) == Hash(handle[slot[k]], 2 * Size)

Collision == \E k, l \in DOMAIN slot : k # l /\ NewHash(k) = NewHash(l)

Doubled ==
  [k \in 0..(2 * Size - 1) |->
     IF \E l \in DOMAIN slot : NewHash(l) = k
     THEN slot[CHOOSE l \in DOMAIN slot : NewHash(l) = k] ELSE NULL]

\* The search starts at slot 0 and takes the slot's number for a handle.
BugEnterFromStart(t, table) ==
  LET k == Min({l \in DOMAIN table : table[l] = NULL})
  IN /\ slot' = [table EXCEPT ![k] = ctx[t]]
     /\ index' = index + 1
     /\ got' = [got EXCEPT ![t] = k]
     /\ pc' = [pc EXCEPT ![t] = "publish"]
     /\ ever' = ever \cup {k}
     /\ UNCHANGED <<aborted, ctx>>

\* The first free slot from handle_index on.
Enter(t, table) ==
  LET size == Cardinality(DOMAIN table)
      h    == Try(Min(FreeTries(table, size)))
  IN /\ slot' = [table EXCEPT ![Hash(h, size)] = ctx[t]]
     /\ index' = h + 1
     /\ got' = [got EXCEPT ![t] = h]
     /\ pc' = [pc EXCEPT ![t] = "publish"]
     /\ ever' = IF h < index THEN {h} ELSE ever \cup {h}
     /\ UNCHANGED <<aborted, ctx>>

Abort == aborted' = TRUE /\ UNCHANGED <<slot, index, got, pc, ctx, ever>>

\* skynet_handle_register: a full table is doubled first, and every context
\* goes where its handle says, as far as it has one yet.
Register(t) ==
  /\ pc[t] = "register" /\ index <= MaxIndex
  /\ \/ FreeTries(slot, Size) # {} /\ Enter(t, slot)
     \/ /\ FreeTries(slot, Size) = {}
        /\ IF 2 * Size - 1 > Mask \/ Collision THEN Abort ELSE Enter(t, Doubled)
  /\ UNCHANGED <<names, handle, i, n, due>>

\* ctx->handle = skynet_handle_register(ctx)
Publish(t) ==
  /\ pc[t] = "publish"
  /\ handle' = [handle EXCEPT ![ctx[t]] = got[t]]
  /\ ctx' = [ctx EXCEPT ![t] = NULL]
  /\ got' = [got EXCEPT ![t] = 0]
  /\ pc' = [pc EXCEPT ![t] = "idle"]
  /\ UNCHANGED <<storage, i, n, ever, due>>

-----------------------------------------------------------------------------
(* Lookup, and skynet_handle_retire.                                       *)

\* skynet_handle_grab: the context of h, if h is still its handle.
Grab(h) == LET c == slot[Hash(h, Size)]
           IN IF c # NULL /\ handle[c] = h THEN c ELSE NULL

\* Only one name of the handle is looked for.
BugRetireOneName(h) ==
  /\ slot' = [slot EXCEPT ![Hash(h, Size)] = NULL]
  /\ names' = IF \E k \in DOMAIN names : names[k].handle = h
              THEN RemoveAt(names, CHOOSE k \in DOMAIN names : names[k].handle = h)
              ELSE names
  /\ due' = [t \in Threads |-> due[t] \ {h}]

\* The names that are not of handle h, moved together in their order.
NamesWithout(h) ==
  LET kept == {k \in DOMAIN names : names[k].handle # h}
      from == CHOOSE f \in [1..Cardinality(kept) -> kept] :
                \A k, l \in 1..Cardinality(kept) : k < l => f[k] < f[l]
  IN [k \in 1..Cardinality(kept) |-> names[from[k]]]

\* The slot and every name of the handle are given up; the context's reference
\* is released after the lock.
RetireFound(h) ==
  /\ slot' = [slot EXCEPT ![Hash(h, Size)] = NULL]
  /\ names' = NamesWithout(h)
  /\ due' = [t \in Threads |-> due[t] \ {h}]

\* cmd_kill, cmd_exit and the like.  (A handle nobody has is looked for in vain;
\* 0 stands for the caller, whose handle it may be.)
Retire(t, h) ==
  /\ pc[t] = "idle"
  /\ Grab(h) \in Published
  /\ RetireFound(h)
  /\ UNCHANGED <<index, aborted, handle, local, ever>>

-----------------------------------------------------------------------------
(* skynet_handle_retireall.                                                *)

SweepStart(t) ==
  /\ pc[t] = "idle"
  /\ pc' = [pc EXCEPT ![t] = "sweep"]
  /\ due' = [due EXCEPT ![t] = {handle[c] : c \in Published} \ {0}]
  /\ UNCHANGED <<storage, handle, ctx, got, i, n, ever>>

\* The context of slot i and its handle are read under the read lock; slot_size
\* is read again in every round.
SweepRead(t) ==
  /\ pc[t] = "sweep" /\ i[t] < Size
  /\ LET c == slot[i[t]] IN
       IF c # NULL /\ handle[c] # 0
       THEN /\ got' = [got EXCEPT ![t] = handle[c]]
            /\ pc' = [pc EXCEPT ![t] = "sweepretire"]
            /\ UNCHANGED i
       ELSE /\ i' = [i EXCEPT ![t] = @ + 1]
            /\ UNCHANGED <<got, pc>>
  /\ UNCHANGED <<storage, handle, ctx, n, ever, due>>

\* skynet_handle_retire of what was read: it may be gone, or somebody else's.
SweepRetire(t) ==
  /\ pc[t] = "sweepretire"
  /\ IF Grab(got[t]) # NULL
     THEN RetireFound(got[t]) /\ n' = [n EXCEPT ![t] = 1]
     ELSE UNCHANGED <<slot, names, n, due>>
  /\ got' = [got EXCEPT ![t] = 0]
  /\ i' = [i EXCEPT ![t] = @ + 1]
  /\ pc' = [pc EXCEPT ![t] = "sweep"]
  /\ UNCHANGED <<index, aborted, handle, ctx, ever>>

\* Only the slots the table had at first are looked at.
BugSweepFixedSize(t) ==
  /\ pc[t] = "sweep" /\ i[t] >= SlotSize
  /\ i' = [i EXCEPT ![t] = 0]
  /\ n' = [n EXCEPT ![t] = 0]
  /\ pc' = [pc EXCEPT ![t] = IF n[t] = 0 THEN "swept" ELSE "sweep"]
  /\ UNCHANGED <<storage, handle, ctx, got, ever, due>>

\* A pass that retired nothing is the last one.
SweepEnd(t) ==
  /\ pc[t] = "sweep" /\ i[t] >= Size
  /\ i' = [i EXCEPT ![t] = 0]
  /\ n' = [n EXCEPT ![t] = 0]
  /\ pc' = [pc EXCEPT ![t] = IF n[t] = 0 THEN "swept" ELSE "sweep"]
  /\ UNCHANGED <<storage, handle, ctx, got, ever, due>>

SweepReturn(t) ==
  /\ pc[t] = "swept"
  /\ pc' = [pc EXCEPT ![t] = "idle"]
  /\ due' = [due EXCEPT ![t] = {}]
  /\ UNCHANGED <<storage, handle, ctx, got, i, n, ever>>

-----------------------------------------------------------------------------
(* Names.                                                                  *)

\* The binary search of skynet_handle_findname and _insert_name, over the range
\* from begin to end, counted from 0: where the name is, or where it belongs.
Search(name) ==
  LET probe[r \in (0..Len(names)) \X (-1..(Len(names) - 1))] ==
        LET begin == r[1]
            end   == r[2]
            mid   == (begin + end) \div 2
            at    == names[mid + 1].name
        IN IF begin > end THEN [found |-> FALSE, at |-> begin]
           ELSE IF at = name THEN [found |-> TRUE, at |-> mid]
           ELSE IF at < name THEN probe[<<mid + 1, end>>] ELSE probe[<<begin, mid - 1>>]
  IN probe[<<0, Len(names) - 1>>]

FindName(name) ==
  LET r == Search(name) IN IF r.found THEN names[r.at + 1].handle ELSE 0

\* A handle that a service may have kept.
Learnt(h) == h \in ever \/ Grab(h) \in Published

\* The entry goes in after the position the search stopped at.
BugNameAfter(t, h, name) ==
  /\ pc[t] = "idle" /\ Learnt(h)
  /\ ~Search(name).found
  /\ names' = InsertAt(names, Min({Search(name).at + 2, Len(names) + 1}),
                       [name |-> name, handle |-> h])
  /\ UNCHANGED <<slot, index, aborted, handle, local, ever, due>>

\* skynet_handle_namehandle: a name that exists is refused; whether the handle
\* is still registered is not asked.
NameHandle(t, h, name) ==
  /\ pc[t] = "idle" /\ Learnt(h)
  /\ ~Search(name).found
  /\ names' = InsertAt(names, Search(name).at + 1,
                       [name |-> name, handle |-> h])
  /\ UNCHANGED <<slot, index, aborted, handle, local, ever, due>>

-----------------------------------------------------------------------------
Next ==
  /\ ~aborted
  /\ \E t \in Threads :
       \/ \E c \in Contexts : NewContext(t, c)
       \/ Register(t) \/ Publish(t)
       \/ SweepStart(t) \/ SweepRead(t) \/ SweepRetire(t) \/ SweepEnd(t)
       \/ SweepReturn(t)
       \/ \E h \in Handles : \/ Retire(t, h)
                             \/ \E name \in Names : NameHandle(t, h, name)

Spec == Init /\ [][Next]_vars

-----------------------------------------------------------------------------
(* What must hold.                                                         *)

\* Every variable has its type, and the table's size divides the number of handles.
TypeOK ==
  /\ Size \in Nat \ {0} /\ (Mask + 1) % Size = 0
  /\ slot \in [0..(Size - 1) -> Contexts \cup {NULL}]
  /\ index \in 1..(Mask + 1)
  /\ names \in Seq([name : Names, handle : Handles])
  /\ handle \in [Contexts -> Handles]
  /\ aborted \in BOOLEAN
  /\ pc \in [Threads -> {"idle", "register", "publish", "sweep", "sweepretire",
                         "swept"}]
  /\ ctx \in [Threads -> Contexts \cup {NULL}]
  /\ got \in [Threads -> Handles]
  /\ i \in [Threads -> 0..(Mask + 1)]
  /\ n \in [Threads -> {0, 1}]
  /\ ever \subseteq Handles
  /\ due \in [Threads -> SUBSET Handles]

\* skynet_handle_grab finds every service that is in the storage by its handle,
\* however often the table was doubled and the counter wrapped in between; so no
\* two services share a handle.
GrabFinds == \A c \in Published : Grab(handle[c]) = c

\* Until the counter wraps a handle is never given twice: a handle kept after
\* its service is gone does not reach another service.
FreshHandles ==
  [][\A t \in Threads :
       pc[t] = "register" /\ pc'[t] = "publish" =>
         index' <= index \/ got'[t] \notin ever]_vars

\* The array of names stays sorted: the binary search of skynet_handle_findname
\* finds exactly the names that are in it.
SearchComplete ==
  \A name \in Names :
    LET at == {k \in DOMAIN names : names[k].name = name}
    IN /\ Cardinality(at) <= 1
       /\ Search(name).found <=> at # {}
       /\ FindName(name) \in {names[k].handle : k \in at} \cup {0}

\* skynet_handle_retireall leaves none of the services that were in the storage
\* when it was called, though services are launched and killed, and the table is
\* doubled, while it runs.  (A service of handle 0 is passed over.)
RetireAllComplete ==
  \A t \in Threads : pc[t] = "swept" => due[t] = {}

\* When a service leaves the storage its names leave with it, and what is left of
\* the array is found.
NamesExact ==
  [][/\ SearchComplete'
     /\ \A c \in Published : c \notin Published' =>
          \A k \in DOMAIN names' : names'[k].handle # handle[c]]_vars

\* The assertions of skynet_handle_register hold: in particular, when the table
\* is doubled every context gets a slot of its own.
RegisterAssertions == ~aborted

=============================================================================
