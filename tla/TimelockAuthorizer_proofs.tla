---------------------- MODULE TimelockAuthorizer_proofs ----------------------
(***************************************************************************)
(* Theorems about TimelockAuthorizer and TimelockClient, for all accounts,   *)
(* actions, contracts, delays and inputs.                                    *)
(*                                                                         *)
(* The invariant speaks of a storage: the present one and, while an execution *)
(* calls other code, also the one to which a revert of that call returns.     *)
(***************************************************************************)
EXTENDS TimelockClient, TLAPS

-----------------------------------------------------------------------------
(* Types *)

Places == Targets \cup {EVERYWHERE}

Call == [fn : {"setDelay"}, kind : Kinds, action : Actions, delay : Nat]
          \cup [fn : {"setPendingRoot"}, account : Accounts]
          \cup [fn : {"perform"}, action : Actions, where : Targets]
          \cup [fn : {"grant", "revoke"}, action : Actions, account : Accounts, where : Places]

Execution == [call : Call, executors : SUBSET Accounts, scheduledBy : Accounts,
              scheduledAt : Nat, executableAt : Nat, executed : BOOLEAN,
              canceled : BOOLEAN, executedAt : Nat]

DelaysType == [Kinds -> [Actions -> Nat]]

StorageType == [root : Accounts, pendingRoot : Accounts \cup {NoAccount},
                granted : SUBSET (Actions \X Accounts \X Places),
                granters : SUBSET (Actions \X Accounts \X Places),
                revokers : SUBSET (Accounts \X Places),
                cancelers : SUBSET (Nat \X Accounts),
                delays : DelaysType, executions : Seq(Execution), roots : Seq(Accounts)]

TypeOK ==
    /\ now \in Nat
    /\ delayAt \in [0..now -> DelaysType]
    /\ Storage \in StorageType
    /\ running \in Seq([id : Nat, saved : StorageType]) /\ Len(running) <= 1

-----------------------------------------------------------------------------
(* The invariant, of a storage at a time, given the delays at the times so far *)

\* What the schedulers guarantee of an execution, and the helper of one that ran.
RecordsOK(time, ex) ==
    \A i \in DOMAIN ex :
        LET e == ex[i]
        IN /\ e.scheduledAt <= time
           /\ ~(e.executed /\ e.canceled)
           /\ e.executed => e.executableAt <= e.executedAt
           /\ e.call.fn = "setPendingRoot" => e.executableAt = e.scheduledAt + RootTransferDelay

\* One of the first n roots announced u as root, in time.
Announced(u, n, rs, ex) ==
    \E i \in DOMAIN ex :
        LET e == ex[i]
        IN /\ e.call = [fn |-> "setPendingRoot", account |-> u]
           /\ e.executed /\ e.scheduledAt + RootTransferDelay <= e.executedAt
           /\ \E j \in 1..n : e.scheduledBy = rs[j]

\* Root is one of the roots, these were handed over, and so is the pending one.
RootsOK(r, pending, rs, ex) ==
    /\ \E j \in 1..Len(rs) : r = rs[j]
    /\ \A i \in DOMAIN ex :
          ex[i].call.fn = "setPendingRoot" => \E j \in 1..Len(rs) : ex[i].scheduledBy = rs[j]
    /\ \/ pending = NoAccount
       \/ pending = NextRoot /\ Len(rs) = 1
       \/ Announced(pending, Len(rs), rs, ex)
    /\ \A i \in 2..Len(rs) :
          \/ i = 2 /\ rs[i] = NextRoot
          \/ Announced(rs[i], i - 1, rs, ex)

\* v has been setAuthorizer's delay.
WasAuthorizerDelay(v, ex) ==
    \/ v = InitialDelays["perform"][SetAuthorizer]
    \/ \E i \in DOMAIN ex : /\ ex[i].executed /\ ChangesDelay(ex[i], "perform", SetAuthorizer)
                            /\ v = ex[i].call.delay

\* Each delay was at some time no longer than setAuthorizer's.
DelaysOK(d, ex) ==
    /\ WasAuthorizerDelay(d["perform"][SetAuthorizer], ex)
    /\ \A k \in Kinds, a \in Actions : \E v \in Nat : WasAuthorizerDelay(v, ex) /\ d[k][a] <= v

StaleIn(k, a, t, ex) ==
    \E i \in DOMAIN ex : /\ ChangesDelay(ex[i], k, a) /\ ex[i].executed
                         /\ ex[i].scheduledAt < t /\ ex[i].executedAt >= t

\* What is scheduled from time t on, and what can be done directly or scheduled now,
\* gives the notice that the delay at time t asks for; a change of the delay that is
\* scheduled leaves enough of it to whoever waits for the change.
NoticeKept(k, a, t, time, past, d, ex) ==
    LET earliest == t + past[t][k][a]
    IN /\ time + d[k][a] >= earliest
       /\ \A i \in DOMAIN ex :
             LET e == ex[i]
             IN e.scheduledAt >= t =>
                   /\ SubjectTo(e, k, a) => e.executableAt >= earliest
                   /\ ChangesDelay(e, k, a) => e.executableAt + e.call.delay >= earliest

NoticesOK(time, past, d, ex) ==
    \A k \in Kinds, a \in Actions, t \in 0..time :
        StaleIn(k, a, t, ex) \/ NoticeKept(k, a, t, time, past, d, ex)

AllOK(time, past, r, pending, rs, d, ex) ==
    /\ RecordsOK(time, ex)
    /\ RootsOK(r, pending, rs, ex)
    /\ DelaysOK(d, ex)
    /\ NoticesOK(time, past, d, ex)

StorageOK(time, past, s) ==
    AllOK(time, past, s.root, s.pendingRoot, s.roots, s.delays, s.executions)

IInv ==
    /\ TypeOK
    /\ StorageOK(now, delayAt, Storage)
    /\ running # <<>> => StorageOK(now, delayAt, running[1].saved)

-----------------------------------------------------------------------------
(* Facts about executions *)

LEMMA CallKinds ==
    ASSUME NEW c \in Call
    PROVE  /\ c.fn \in {"setDelay", "setPendingRoot"} \cup Kinds
           /\ c.fn = "setDelay" =>
                 /\ c.kind \in Kinds /\ c.action \in Actions /\ c.delay \in Nat
                 /\ c = [fn |-> "setDelay", kind |-> c.kind, action |-> c.action,
                         delay |-> c.delay]
           /\ c.fn = "setPendingRoot" =>
                 c.account \in Accounts /\ c = [fn |-> "setPendingRoot", account |-> c.account]
           /\ c.fn \in {"grant", "revoke"} =>
                 c.action \in Actions /\ c.account \in Accounts /\ c.where \in Places
           /\ c.fn = "perform" => c.action \in Actions /\ c.where \in Targets
BY DEF Call, Kinds

\* The executions of ex are those of ex2, and what has been executed stays so.
Kept(ex, ex2) ==
    \A i \in DOMAIN ex :
        /\ i \in DOMAIN ex2
        /\ ex2[i].call = ex[i].call /\ ex2[i].scheduledBy = ex[i].scheduledBy
        /\ ex2[i].scheduledAt = ex[i].scheduledAt /\ ex2[i].executableAt = ex[i].executableAt
        /\ ex[i].executed => ex2[i].executed /\ ex2[i].executedAt = ex[i].executedAt

LEMMA AnnouncedKept ==
    ASSUME NEW ex, NEW ex2, Kept(ex, ex2), NEW u, NEW n \in Nat, NEW m \in Nat, n <= m,
           NEW rs, NEW rs2, \A j \in 1..n : rs2[j] = rs[j],
           Announced(u, n, rs, ex)
    PROVE  Announced(u, m, rs2, ex2)
<1>1. PICK i \in DOMAIN ex : /\ ex[i].call = [fn |-> "setPendingRoot", account |-> u]
                             /\ ex[i].executed
                             /\ ex[i].scheduledAt + RootTransferDelay <= ex[i].executedAt
                             /\ \E j \in 1..n : ex[i].scheduledBy = rs[j]
  BY DEF Announced
<1>2. PICK j \in 1..n : ex[i].scheduledBy = rs[j]
  BY <1>1
<1>3. j \in 1..m /\ rs2[j] = rs[j]
  BY <1>2
<1>4. /\ i \in DOMAIN ex2 /\ ex2[i].call = ex[i].call /\ ex2[i].scheduledBy = ex[i].scheduledBy
      /\ ex2[i].scheduledAt = ex[i].scheduledAt
      /\ ex2[i].executed /\ ex2[i].executedAt = ex[i].executedAt
  BY <1>1 DEF Kept
<1> QED  BY <1>1, <1>2, <1>3, <1>4 DEF Announced

LEMMA WasKept ==
    ASSUME NEW ex, NEW ex2, Kept(ex, ex2), NEW v, WasAuthorizerDelay(v, ex)
    PROVE  WasAuthorizerDelay(v, ex2)
BY DEF WasAuthorizerDelay, ChangesDelay, Kept

LEMMA StaleKept ==
    ASSUME NEW ex, NEW ex2, Kept(ex, ex2), NEW k, NEW a, NEW t, StaleIn(k, a, t, ex)
    PROVE  StaleIn(k, a, t, ex2)
BY DEF StaleIn, ChangesDelay, Kept

LEMMA Added ==
    ASSUME NEW ex \in Seq(Execution), NEW e \in Execution
    PROVE  /\ Append(ex, e) \in Seq(Execution) /\ Kept(ex, Append(ex, e))
           /\ \A i \in DOMAIN Append(ex, e) :
                 \/ i \in DOMAIN ex /\ Append(ex, e)[i] = ex[i]
                 \/ Append(ex, e)[i] = e
BY DEF Kept

\* How an execution ends: the record of id changes from e in these parts only.
Ended(ex, id, ex2, executed, canceled, time) ==
    /\ ex2 \in Seq(Execution) /\ DOMAIN ex2 = DOMAIN ex
    /\ \A i \in DOMAIN ex \ {id} : ex2[i] = ex[i]
    /\ ex2[id].call = ex[id].call /\ ex2[id].scheduledBy = ex[id].scheduledBy
    /\ ex2[id].scheduledAt = ex[id].scheduledAt
    /\ ex2[id].executableAt = ex[id].executableAt
    /\ ex2[id].executed = executed /\ ex2[id].canceled = canceled
    /\ ex2[id].executedAt = time

LEMMA Executed ==
    ASSUME NEW ex \in Seq(Execution), NEW id \in DOMAIN ex, Pending(ex[id]), NEW time \in Nat
    PROVE  LET ex2 == [ex EXCEPT ![id].executed = TRUE, ![id].executedAt = time]
           IN Ended(ex, id, ex2, TRUE, FALSE, time) /\ Kept(ex, ex2)
<1> DEFINE e == [ex[id] EXCEPT !.executed = TRUE, !.executedAt = time]
           ex2 == [ex EXCEPT ![id].executed = TRUE, ![id].executedAt = time]
<1>1. ex[id] \in Execution
  OBVIOUS
<1>2. /\ e \in Execution
      /\ e.call = ex[id].call /\ e.scheduledBy = ex[id].scheduledBy
      /\ e.scheduledAt = ex[id].scheduledAt /\ e.executableAt = ex[id].executableAt
      /\ e.executed = TRUE /\ e.canceled = ex[id].canceled /\ e.executedAt = time
  BY <1>1 DEF Execution
<1>3. ex2 = [ex EXCEPT ![id] = e]
  BY <1>1
<1>4. ex[id].canceled = FALSE /\ ~ex[id].executed
  BY <1>1 DEF Pending, Execution
<1> HIDE DEF e, ex2
<1>5. /\ ex2 \in Seq(Execution) /\ DOMAIN ex2 = DOMAIN ex /\ ex2[id] = e
      /\ \A i \in DOMAIN ex \ {id} : ex2[i] = ex[i]
  BY <1>2, <1>3
<1> QED  BY <1>2, <1>4, <1>5 DEF Ended, Kept, ex2

LEMMA Canceled ==
    ASSUME NEW ex \in Seq(Execution), NEW id \in DOMAIN ex, Pending(ex[id])
    PROVE  LET ex2 == [ex EXCEPT ![id].canceled = TRUE]
           IN Ended(ex, id, ex2, FALSE, TRUE, ex[id].executedAt) /\ Kept(ex, ex2)
<1> DEFINE e == [ex[id] EXCEPT !.canceled = TRUE]
           ex2 == [ex EXCEPT ![id].canceled = TRUE]
<1>1. ex[id] \in Execution
  OBVIOUS
<1>2. /\ e \in Execution
      /\ e.call = ex[id].call /\ e.scheduledBy = ex[id].scheduledBy
      /\ e.scheduledAt = ex[id].scheduledAt /\ e.executableAt = ex[id].executableAt
      /\ e.executed = ex[id].executed /\ e.canceled = TRUE /\ e.executedAt = ex[id].executedAt
  BY <1>1 DEF Execution
<1>3. ex2 = [ex EXCEPT ![id] = e]
  BY <1>1
<1>4. ex[id].executed = FALSE
  BY <1>1 DEF Pending, Execution
<1> HIDE DEF e, ex2
<1>5. /\ ex2 \in Seq(Execution) /\ DOMAIN ex2 = DOMAIN ex /\ ex2[id] = e
      /\ \A i \in DOMAIN ex \ {id} : ex2[i] = ex[i]
  BY <1>2, <1>3
<1> QED  BY <1>2, <1>4, <1>5 DEF Ended, Kept, ex2

-----------------------------------------------------------------------------
(* What a step does to the executions, the delays and the roots keeps the invariant *)

\* What the schedule functions add.
IsScheduled(e, time, r, d) ==
    /\ e \in Execution
    /\ e.scheduledAt = time /\ ~e.executed /\ ~e.canceled
    /\ e.call.fn = "setPendingRoot" =>
          e.scheduledBy = r /\ e.executableAt = time + RootTransferDelay
    /\ e.call.fn \in Kinds => e.executableAt = time + d[e.call.fn][e.call.action]
    /\ e.call.fn = "setDelay" =>
          e.executableAt + e.call.delay >= time + d[e.call.kind][e.call.action]

LEMMA ScheduledOK ==
    ASSUME NEW time \in Nat, NEW past \in [0..time -> DelaysType], NEW r, NEW pending,
           NEW rs \in Seq(Accounts), NEW d \in DelaysType, NEW ex \in Seq(Execution),
           AllOK(time, past, r, pending, rs, d, ex),
           NEW e, IsScheduled(e, time, r, d)
    PROVE  AllOK(time, past, r, pending, rs, d, Append(ex, e))
<1> DEFINE ex2 == Append(ex, e)
<1>1. /\ e \in Execution /\ e.call \in Call /\ e.scheduledAt = time /\ ~e.executed /\ ~e.canceled
      /\ e.executableAt \in Nat
  BY DEF IsScheduled, Execution
<1>2. /\ ex2 \in Seq(Execution) /\ Kept(ex, ex2)
      /\ \A i \in DOMAIN ex2 : (i \in DOMAIN ex /\ ex2[i] = ex[i]) \/ ex2[i] = e
  BY <1>1, Added
<1> HIDE DEF ex2
<1>3. RecordsOK(time, ex2)
  BY <1>1, <1>2 DEF AllOK, RecordsOK, IsScheduled
<1>4. RootsOK(r, pending, rs, ex2)
  <2>1. \E j \in 1..Len(rs) : r = rs[j]
    BY DEF AllOK, RootsOK
  <2>2. ASSUME NEW i \in DOMAIN ex2, ex2[i].call.fn = "setPendingRoot"
        PROVE  \E j \in 1..Len(rs) : ex2[i].scheduledBy = rs[j]
    BY <1>2, <2>1, <2>2 DEF AllOK, RootsOK, IsScheduled
  <2>3. \/ pending = NoAccount
        \/ pending = NextRoot /\ Len(rs) = 1
        \/ Announced(pending, Len(rs), rs, ex2)
    BY <1>2, AnnouncedKept DEF AllOK, RootsOK
  <2>4. ASSUME NEW i \in 2..Len(rs)
        PROVE  (i = 2 /\ rs[i] = NextRoot) \/ Announced(rs[i], i - 1, rs, ex2)
    <3>1. (i = 2 /\ rs[i] = NextRoot) \/ Announced(rs[i], i - 1, rs, ex)
      BY DEF AllOK, RootsOK
    <3>2. i - 1 \in Nat
      OBVIOUS
    <3> QED  BY <1>2, <3>1, <3>2, AnnouncedKept
  <2> QED  BY <2>1, <2>2, <2>3, <2>4 DEF RootsOK
<1>5. DelaysOK(d, ex2)
  BY <1>2, WasKept DEF AllOK, DelaysOK
<1>6. NoticesOK(time, past, d, ex2)
  <2> SUFFICES ASSUME NEW k \in Kinds, NEW a \in Actions, NEW t \in 0..time
               PROVE  StaleIn(k, a, t, ex2) \/ NoticeKept(k, a, t, time, past, d, ex2)
    BY DEF NoticesOK
  <2>1. StaleIn(k, a, t, ex) \/ NoticeKept(k, a, t, time, past, d, ex)
    BY DEF AllOK, NoticesOK
  <2>2. CASE StaleIn(k, a, t, ex)
    BY <1>2, <2>2, StaleKept
  <2>3. CASE NoticeKept(k, a, t, time, past, d, ex)
    <3> DEFINE earliest == t + past[t][k][a]
    <3>1. time + d[k][a] >= earliest /\ d[k][a] \in Nat /\ past[t][k][a] \in Nat
      BY <2>3 DEF NoticeKept, DelaysType
    <3>2. SubjectTo(e, k, a) => e.executableAt >= earliest
      BY <3>1 DEF SubjectTo, IsScheduled
    <3>3. ChangesDelay(e, k, a) => e.executableAt + e.call.delay >= earliest
      <4> SUFFICES ASSUME ChangesDelay(e, k, a)
                   PROVE  e.executableAt + e.call.delay >= earliest
        OBVIOUS
      <4>1. e.call.fn = "setDelay" /\ e.call.kind = k /\ e.call.action = a
        BY DEF ChangesDelay
      <4>2. e.call.delay \in Nat
        BY <1>1, <4>1, CallKinds
      <4>3. e.executableAt + e.call.delay >= time + d[k][a]
        BY <4>1 DEF IsScheduled
      <4>4. earliest \in Nat
        BY <3>1
      <4> HIDE DEF earliest
      <4> QED  BY <1>1, <3>1, <4>2, <4>3, <4>4
    <3> QED  BY <1>2, <2>3, <3>1, <3>2, <3>3 DEF NoticeKept
  <2> QED  BY <2>1, <2>2, <2>3
<1> QED  BY <1>3, <1>4, <1>5, <1>6 DEF AllOK, ex2

\* An execution that is over keeps what it was begun with; roots and delays stay.
LEMMA EndedRecords ==
    ASSUME NEW time \in Nat, NEW ex \in Seq(Execution), RecordsOK(time, ex),
           NEW id \in DOMAIN ex, NEW ex2, NEW executed \in BOOLEAN, NEW canceled \in BOOLEAN,
           NEW at \in Nat, Ended(ex, id, ex2, executed, canceled, at),
           ~(executed /\ canceled), executed => ex[id].executableAt <= at
    PROVE  RecordsOK(time, ex2)
BY DEF RecordsOK, Ended

LEMMA EndedRoots ==
    ASSUME NEW r, NEW pending, NEW rs \in Seq(Accounts), NEW ex \in Seq(Execution),
           RootsOK(r, pending, rs, ex), NEW id \in DOMAIN ex, NEW ex2, Kept(ex, ex2),
           NEW executed \in BOOLEAN, NEW canceled \in BOOLEAN, NEW at,
           Ended(ex, id, ex2, executed, canceled, at)
    PROVE  RootsOK(r, pending, rs, ex2)
<1>1. /\ \E j \in 1..Len(rs) : r = rs[j]
      /\ \A i \in DOMAIN ex2 :
            ex2[i].call.fn = "setPendingRoot" => \E j \in 1..Len(rs) : ex2[i].scheduledBy = rs[j]
  BY DEF RootsOK, Ended
<1>2. \/ pending = NoAccount
      \/ pending = NextRoot /\ Len(rs) = 1
      \/ Announced(pending, Len(rs), rs, ex2)
  BY AnnouncedKept DEF RootsOK
<1>3. ASSUME NEW i \in 2..Len(rs)
      PROVE  (i = 2 /\ rs[i] = NextRoot) \/ Announced(rs[i], i - 1, rs, ex2)
  <2>1. (i = 2 /\ rs[i] = NextRoot) \/ Announced(rs[i], i - 1, rs, ex)
    BY DEF RootsOK
  <2>2. i - 1 \in Nat
    OBVIOUS
  <2> QED  BY <2>1, <2>2, AnnouncedKept
<1> QED  BY <1>1, <1>2, <1>3 DEF RootsOK

LEMMA EndedNotices ==
    ASSUME NEW time \in Nat, NEW past, NEW d, NEW ex \in Seq(Execution),
           NoticesOK(time, past, d, ex), NEW id \in DOMAIN ex, NEW ex2, Kept(ex, ex2),
           NEW executed \in BOOLEAN, NEW canceled \in BOOLEAN, NEW at,
           Ended(ex, id, ex2, executed, canceled, at)
    PROVE  NoticesOK(time, past, d, ex2)
<1> SUFFICES ASSUME NEW k \in Kinds, NEW a \in Actions, NEW t \in 0..time
             PROVE  StaleIn(k, a, t, ex2) \/ NoticeKept(k, a, t, time, past, d, ex2)
  BY DEF NoticesOK
<1>1. StaleIn(k, a, t, ex) \/ NoticeKept(k, a, t, time, past, d, ex)
  BY DEF NoticesOK
<1>2. CASE StaleIn(k, a, t, ex)
  BY <1>2, StaleKept
<1>3. CASE NoticeKept(k, a, t, time, past, d, ex)
  <2>1. \A i \in DOMAIN ex2 :
           /\ i \in DOMAIN ex /\ ex2[i].call = ex[i].call
           /\ ex2[i].scheduledAt = ex[i].scheduledAt /\ ex2[i].executableAt = ex[i].executableAt
    BY DEF Ended
  <2> QED  BY <1>3, <2>1 DEF NoticeKept, SubjectTo, ChangesDelay
<1> QED  BY <1>1, <1>2, <1>3

LEMMA CanceledOK ==
    ASSUME NEW time \in Nat, NEW past \in [0..time -> DelaysType], NEW r, NEW pending,
           NEW rs \in Seq(Accounts), NEW d \in DelaysType, NEW ex \in Seq(Execution),
           AllOK(time, past, r, pending, rs, d, ex),
           NEW id \in DOMAIN ex, Pending(ex[id])
    PROVE  /\ [ex EXCEPT ![id].canceled = TRUE] \in Seq(Execution)
           /\ AllOK(time, past, r, pending, rs, d, [ex EXCEPT ![id].canceled = TRUE])
<1> DEFINE ex2 == [ex EXCEPT ![id].canceled = TRUE]
<1>1. Ended(ex, id, ex2, FALSE, TRUE, ex[id].executedAt) /\ Kept(ex, ex2)
  BY Canceled
<1>2. ex[id].executedAt \in Nat
  <2>1. ex[id] \in Execution
    OBVIOUS
  <2> QED  BY <2>1 DEF Execution
<1> HIDE DEF ex2
<1>3. RecordsOK(time, ex2)
  BY <1>1, <1>2, EndedRecords DEF AllOK
<1>4. RootsOK(r, pending, rs, ex2)
  BY <1>1, EndedRoots DEF AllOK
<1>5. DelaysOK(d, ex2)
  BY <1>1, WasKept DEF AllOK, DelaysOK
<1>6. NoticesOK(time, past, d, ex2)
  BY <1>1, EndedNotices DEF AllOK
<1>7. ex2 \in Seq(Execution)
  BY <1>1 DEF Ended
<1> QED  BY <1>3, <1>4, <1>5, <1>6, <1>7 DEF AllOK, ex2

\* An execution that ran and changed neither a delay nor the pending root.
LEMMA ExecutedOK ==
    ASSUME NEW time \in Nat, NEW past \in [0..time -> DelaysType], NEW r, NEW pending,
           NEW rs \in Seq(Accounts), NEW d \in DelaysType, NEW ex \in Seq(Execution),
           AllOK(time, past, r, pending, rs, d, ex),
           NEW id \in DOMAIN ex, NEW ex2, Ended(ex, id, ex2, TRUE, FALSE, time), Kept(ex, ex2),
           ex[id].executableAt <= time
    PROVE  AllOK(time, past, r, pending, rs, d, ex2)
<1>1. RecordsOK(time, ex2)
  BY EndedRecords DEF AllOK
<1>2. RootsOK(r, pending, rs, ex2)
  BY EndedRoots DEF AllOK
<1>3. DelaysOK(d, ex2)
  BY WasKept DEF AllOK, DelaysOK
<1>4. NoticesOK(time, past, d, ex2)
  BY EndedNotices DEF AllOK
<1> QED  BY <1>1, <1>2, <1>3, <1>4 DEF AllOK

\* An execution that set a delay: those who waited for it have waited long enough.
LEMMA SetDelayOK ==
    ASSUME NEW time \in Nat, NEW past \in [0..time -> DelaysType], NEW r, NEW pending,
           NEW rs \in Seq(Accounts), NEW d \in DelaysType, NEW ex \in Seq(Execution),
           AllOK(time, past, r, pending, rs, d, ex),
           NEW id \in DOMAIN ex, NEW ex2, Ended(ex, id, ex2, TRUE, FALSE, time), Kept(ex, ex2),
           ex[id].executableAt <= time,
           NEW k \in Kinds, NEW a \in Actions, NEW v \in Nat,
           ex[id].call = [fn |-> "setDelay", kind |-> k, action |-> a, delay |-> v],
           k # "perform" \/ a # SetAuthorizer => v <= d["perform"][SetAuthorizer]
    PROVE  AllOK(time, past, r, pending, rs, [d EXCEPT ![k][a] = v], ex2)
<1> DEFINE d2 == [d EXCEPT ![k][a] = v]
<1>1. AllOK(time, past, r, pending, rs, d, ex2)
  BY ExecutedOK
<1>2. /\ "perform" \in Kinds /\ SetAuthorizer \in Actions
      /\ ChangesDelay(ex2[id], k, a) /\ ex2[id].executed /\ ex2[id].executedAt = time
      /\ ex2[id].call.delay = v /\ id \in DOMAIN ex2
      /\ ex2[id].executableAt = ex[id].executableAt /\ ex2[id].scheduledAt = ex[id].scheduledAt
  BY AccountsAssumption DEF Kinds, Ended, ChangesDelay
<1>3. /\ d2 \in DelaysType /\ d2[k][a] = v
      /\ \A l \in Kinds, b \in Actions : l # k \/ b # a => d2[l][b] = d[l][b]
      /\ \A l \in Kinds, b \in Actions : d[l][b] \in Nat
  BY DEF DelaysType
<1> HIDE DEF d2
<1>4. DelaysOK(d2, ex2)
  <2>1. WasAuthorizerDelay(d2["perform"][SetAuthorizer], ex2)
    <3>1. CASE k = "perform" /\ a = SetAuthorizer
      BY <1>2, <1>3, <3>1 DEF WasAuthorizerDelay
    <3>2. CASE k # "perform" \/ a # SetAuthorizer
      <4>1. d2["perform"][SetAuthorizer] = d["perform"][SetAuthorizer]
        BY <1>2, <1>3, <3>2
      <4> QED  BY <1>1, <4>1 DEF AllOK, DelaysOK
    <3> QED  BY <3>1, <3>2
  <2>2. ASSUME NEW l \in Kinds, NEW b \in Actions
        PROVE  \E w \in Nat : WasAuthorizerDelay(w, ex2) /\ d2[l][b] <= w
    <3>1. CASE l # k \/ b # a
      <4>1. d2[l][b] = d[l][b]
        BY <1>3, <3>1
      <4> QED  BY <1>1, <4>1 DEF AllOK, DelaysOK
    <3>2. CASE l = k /\ b = a /\ (k # "perform" \/ a # SetAuthorizer)
      <4> DEFINE w == d["perform"][SetAuthorizer]
      <4>1. w \in Nat /\ WasAuthorizerDelay(w, ex2)
        BY <1>1, <1>2, <1>3 DEF AllOK, DelaysOK
      <4>2. d2[l][b] <= w
        BY <1>3, <3>2
      <4> QED  BY <4>1, <4>2
    <3>3. CASE l = k /\ b = a /\ k = "perform" /\ a = SetAuthorizer
      <4>1. WasAuthorizerDelay(v, ex2)
        BY <1>2, <3>3 DEF WasAuthorizerDelay
      <4>2. d2[l][b] <= v
        BY <1>3, <3>3
      <4> QED  BY <4>1, <4>2
    <3> QED  BY <3>1, <3>2, <3>3
  <2> QED  BY <2>1, <2>2 DEF DelaysOK
<1>5. NoticesOK(time, past, d2, ex2)
  <2> SUFFICES ASSUME NEW l \in Kinds, NEW b \in Actions, NEW t \in 0..time
               PROVE  StaleIn(l, b, t, ex2) \/ NoticeKept(l, b, t, time, past, d2, ex2)
    BY DEF NoticesOK
  <2>1. StaleIn(l, b, t, ex2) \/ NoticeKept(l, b, t, time, past, d, ex2)
    BY <1>1 DEF AllOK, NoticesOK
  <2>2. CASE NoticeKept(l, b, t, time, past, d, ex2) /\ (l # k \/ b # a)
    <3>1. d2[l][b] = d[l][b]
      BY <1>3, <2>2
    <3> QED  BY <2>2, <3>1 DEF NoticeKept
  <2>3. CASE l = k /\ b = a /\ ex2[id].scheduledAt < t
    BY <1>2, <2>3 DEF StaleIn
  <2>4. CASE /\ NoticeKept(l, b, t, time, past, d, ex2)
             /\ l = k /\ b = a /\ ~(ex2[id].scheduledAt < t)
    <3>1. ex2[id].scheduledAt \in Nat /\ ex2[id].executableAt \in Nat
      <4>1. ex2[id] \in Execution
        BY <1>2 DEF Ended
      <4> QED  BY <4>1 DEF Execution
    <3>2. ex2[id].executableAt + v >= t + past[t][l][b]
      BY <1>2, <2>4, <3>1 DEF NoticeKept
    <3>3. past[t][l][b] \in Nat
      BY DEF DelaysType
    <3>4. time + d2[l][b] >= t + past[t][l][b]
      <4>1. d2[l][b] = v /\ ex2[id].executableAt <= time
        BY <1>2, <1>3, <2>4
      <4>2. \A n \in Nat : ex2[id].executableAt + v >= t + n => time + v >= t + n
        BY <3>1, <4>1
      <4> QED  BY <3>2, <3>3, <4>1, <4>2
    <3> QED  BY <2>4, <3>4 DEF NoticeKept
  <2> QED  BY <2>1, <2>2, <2>3, <2>4
<1> QED  BY <1>1, <1>4, <1>5 DEF AllOK, d2

\* An execution that set the pending root.
LEMMA SetPendingRootOK ==
    ASSUME NEW time \in Nat, NEW past \in [0..time -> DelaysType], NEW r, NEW pending,
           NEW rs \in Seq(Accounts), NEW d \in DelaysType, NEW ex \in Seq(Execution),
           AllOK(time, past, r, pending, rs, d, ex),
           NEW id \in DOMAIN ex, NEW ex2, Ended(ex, id, ex2, TRUE, FALSE, time), Kept(ex, ex2),
           ex[id].executableAt <= time,
           NEW u, ex[id].call = [fn |-> "setPendingRoot", account |-> u]
    PROVE  AllOK(time, past, r, u, rs, d, ex2)
<1>1. AllOK(time, past, r, pending, rs, d, ex2)
  BY ExecutedOK
<1>2. /\ id \in DOMAIN ex2 /\ ex2[id].call = [fn |-> "setPendingRoot", account |-> u]
      /\ ex2[id].executed /\ ex2[id].executedAt = time
      /\ ex2[id].scheduledBy = ex[id].scheduledBy
      /\ ex2[id].scheduledAt = ex[id].scheduledAt
      /\ ex2[id].executableAt = ex[id].executableAt
  BY DEF Ended
<1>3. \E j \in 1..Len(rs) : ex2[id].scheduledBy = rs[j]
  BY <1>1, <1>2 DEF AllOK, RootsOK
<1>4. ex2[id].executableAt = ex2[id].scheduledAt + RootTransferDelay
  BY <1>1, <1>2 DEF AllOK, RecordsOK
<1>5. Announced(u, Len(rs), rs, ex2)
  BY <1>2, <1>3, <1>4 DEF Announced
<1>6. RootsOK(r, u, rs, ex2)
  BY <1>1, <1>5 DEF AllOK, RootsOK
<1> QED  BY <1>1, <1>6 DEF AllOK

\* The pending root becomes root.
LEMMA ClaimedOK ==
    ASSUME NEW time \in Nat, NEW past \in [0..time -> DelaysType], NEW r,
           NEW pending \in Accounts, NEW rs \in Seq(Accounts), NEW d \in DelaysType,
           NEW ex \in Seq(Execution), AllOK(time, past, r, pending, rs, d, ex)
    PROVE  AllOK(time, past, pending, NoAccount, Append(rs, pending), d, ex)
<1> DEFINE rs2 == Append(rs, pending)
           n == Len(rs)
<1>1. /\ n \in Nat /\ Len(rs2) = n + 1 /\ rs2[n + 1] = pending
      /\ \A j \in 1..n : rs2[j] = rs[j]
  OBVIOUS
<1>2. /\ \A i \in DOMAIN ex :
            ex[i].call.fn = "setPendingRoot" => \E j \in 1..n : ex[i].scheduledBy = rs[j]
      /\ (pending = NextRoot /\ n = 1) \/ Announced(pending, n, rs, ex)
      /\ \A i \in 2..n : (i = 2 /\ rs[i] = NextRoot) \/ Announced(rs[i], i - 1, rs, ex)
  BY AccountsAssumption DEF AllOK, RootsOK
<1> HIDE DEF rs2, n
<1>3. Kept(ex, ex)
  BY DEF Kept
<1>4. ASSUME NEW i \in DOMAIN ex, ex[i].call.fn = "setPendingRoot"
      PROVE  \E j \in 1..Len(rs2) : ex[i].scheduledBy = rs2[j]
  <2>1. PICK j \in 1..n : ex[i].scheduledBy = rs[j]
    BY <1>2, <1>4
  <2>2. j \in 1..Len(rs2) /\ rs2[j] = rs[j]
    BY <1>1
  <2> QED  BY <2>1, <2>2
<1>5. ASSUME NEW i \in 2..Len(rs2)
      PROVE  (i = 2 /\ rs2[i] = NextRoot) \/ Announced(rs2[i], i - 1, rs2, ex)
  <2>1. CASE i \in 2..n
    <3>1. rs2[i] = rs[i] /\ i - 1 \in Nat /\ i - 1 <= n /\ \A j \in 1..i - 1 : rs2[j] = rs[j]
      BY <1>1, <2>1
    <3>2. CASE Announced(rs[i], i - 1, rs, ex)
      BY <1>3, <3>1, <3>2, AnnouncedKept
    <3> QED  BY <1>2, <2>1, <3>1, <3>2
  <2>2. CASE i = n + 1
    <3>1. CASE pending = NextRoot /\ n = 1
      BY <1>1, <2>2, <3>1
    <3>2. CASE Announced(pending, n, rs, ex)
      <4>1. Announced(pending, n, rs2, ex)
        BY <1>1, <1>3, <3>2, AnnouncedKept
      <4> QED  BY <1>1, <2>2, <4>1
    <3> QED  BY <1>2, <3>1, <3>2
  <2> QED  BY <1>1, <2>1, <2>2
<1>6. \E j \in 1..Len(rs2) : pending = rs2[j]
  BY <1>1
<1>7. RootsOK(pending, NoAccount, rs2, ex)
  BY <1>4, <1>5, <1>6 DEF RootsOK
<1> QED  BY <1>7 DEF AllOK, rs2

\* Time passes: nothing has been scheduled at the new times.
LEMMA PassedOK ==
    ASSUME NEW time \in Nat, NEW past \in [0..time -> DelaysType], NEW r, NEW pending,
           NEW rs \in Seq(Accounts), NEW d \in DelaysType, NEW ex \in Seq(Execution),
           AllOK(time, past, r, pending, rs, d, ex),
           NEW time2 \in Nat, time2 > time, NEW past2,
           \A t \in 0..time2 : past2[t] = IF t > time THEN d ELSE past[t]
    PROVE  AllOK(time2, past2, r, pending, rs, d, ex)
<1>1. \A i \in DOMAIN ex : ex[i].scheduledAt \in Nat
  <2>1. \A i \in DOMAIN ex : ex[i] \in Execution
    OBVIOUS
  <2> QED  BY <2>1 DEF Execution
<1>2. RecordsOK(time2, ex)
  BY <1>1 DEF AllOK, RecordsOK
<1>3. NoticesOK(time2, past2, d, ex)
  <2> SUFFICES ASSUME NEW k \in Kinds, NEW a \in Actions, NEW t \in 0..time2
               PROVE  StaleIn(k, a, t, ex) \/ NoticeKept(k, a, t, time2, past2, d, ex)
    BY DEF NoticesOK
  <2>1. d[k][a] \in Nat
    BY DEF DelaysType
  <2>2. CASE t > time
    <3>1. past2[t] = d
      BY <2>2
    <3>2. \A i \in DOMAIN ex : ~(ex[i].scheduledAt >= t)
      BY <1>1, <2>2 DEF AllOK, RecordsOK
    <3>3. time2 + d[k][a] >= t + past2[t][k][a]
      BY <2>1, <3>1
    <3> QED  BY <3>2, <3>3 DEF NoticeKept
  <2>3. CASE t \in 0..time
    <3>1. past2[t] = past[t] /\ past[t][k][a] \in Nat
      BY <2>3 DEF DelaysType
    <3>2. StaleIn(k, a, t, ex) \/ NoticeKept(k, a, t, time, past, d, ex)
      BY <2>3 DEF AllOK, NoticesOK
    <3>3. CASE NoticeKept(k, a, t, time, past, d, ex)
      <4>1. time2 + d[k][a] >= t + past2[t][k][a]
        BY <2>1, <3>1, <3>3 DEF NoticeKept
      <4> QED  BY <3>1, <3>3, <4>1 DEF NoticeKept
    <3> QED  BY <3>2, <3>3
  <2> QED  BY <2>2, <2>3
<1> QED  BY <1>2, <1>3 DEF AllOK

-----------------------------------------------------------------------------
(* The steps *)

RolesTyped ==
    /\ granted \in SUBSET (Actions \X Accounts \X Places)
    /\ granters \in SUBSET (Actions \X Accounts \X Places)
    /\ revokers \in SUBSET (Accounts \X Places)
    /\ cancelers \in SUBSET (Nat \X Accounts)

CoreTyped ==
    /\ root \in Accounts /\ pendingRoot \in Accounts \cup {NoAccount}
    /\ delays \in DelaysType
    /\ executions \in Seq(Execution) /\ roots \in Seq(Accounts)

LEMMA Parts ==
    ASSUME TypeOK
    PROVE  /\ now \in Nat /\ delayAt \in [0..now -> DelaysType]
           /\ RolesTyped /\ CoreTyped /\ Storage \in StorageType
           /\ \A s \in StorageType : s.executions \in Seq(Execution)
           /\ running = <<>> \/ /\ running # <<>> /\ running[1].saved \in StorageType
                                /\ running[1].id \in Nat /\ running = <<running[1]>>
<1>1. Storage \in StorageType
  BY DEF TypeOK
<1>2. RolesTyped /\ CoreTyped
  BY <1>1 DEF Storage, StorageType, RolesTyped, CoreTyped
<1>3. \A s \in StorageType : s.executions \in Seq(Execution)
  BY DEF StorageType
<1>4. running \in Seq([id : Nat, saved : StorageType])
  BY DEF TypeOK
<1>6. Len(running) <= 1
  BY DEF TypeOK
<1>5. CASE running # <<>>
  <2> DEFINE R == [id : Nat, saved : StorageType]
  <2>2. \A r \in R : r.id \in Nat /\ r.saved \in StorageType
    OBVIOUS
  <2>3. running \in Seq(R)
    BY <1>4
  <2> HIDE DEF R
  <2>5. Len(running) \in Nat
    BY <2>3
  <2>6. Len(running) = 0 => running = <<>>
    BY <2>3
  <2>4. Len(running) \in Nat /\ Len(running) = 1
    BY <1>5, <1>6, <2>5, <2>6
  <2>1. running[1] \in R /\ running = <<running[1]>>
    BY <2>3, <2>4
  <2> QED  BY <1>1, <1>2, <1>3, <1>5, <2>1, <2>2 DEF TypeOK
<1> QED  BY <1>1, <1>2, <1>3, <1>5 DEF TypeOK

LEMMA StorageNext ==
    ASSUME RolesTyped', CoreTyped'
    PROVE  Storage' \in StorageType
BY DEF Storage, StorageType, RolesTyped, CoreTyped

\* The invariant of the present storage, part by part.
CoreOK == AllOK(now, delayAt, root, pendingRoot, roots, delays, executions)

LEMMA CoreStorage == StorageOK(now, delayAt, Storage) <=> CoreOK
BY DEF StorageOK, CoreOK, Storage

\* A step between two blocks leaves the saved storage alone, or saves the present one.
LEMMA WithinBlock ==
    ASSUME IInv, RolesTyped', CoreTyped', CoreOK', UNCHANGED <<now, delayAt>>,
           \/ running' = running
           \/ running' = <<>>
           \/ \E id \in Nat : running' = <<[id |-> id, saved |-> Storage]>>
    PROVE  IInv'
<1>1. /\ now \in Nat /\ delayAt \in [0..now -> DelaysType] /\ Storage \in StorageType
      /\ running \in Seq([id : Nat, saved : StorageType]) /\ Len(running) <= 1
  BY DEF IInv, TypeOK
<1>2. Storage' \in StorageType /\ StorageOK(now, delayAt, Storage)'
  BY StorageNext DEF CoreOK, StorageOK, Storage
<1>3. CASE running' = running
  BY <1>1, <1>2, <1>3 DEF IInv, TypeOK
<1>4. CASE running' = <<>>
  BY <1>1, <1>2, <1>4 DEF IInv, TypeOK
<1>5. CASE \E id \in Nat : running' = <<[id |-> id, saved |-> Storage]>>
  <2>1. PICK id \in Nat : running' = <<[id |-> id, saved |-> Storage]>>
    BY <1>5
  <2> DEFINE r == [id |-> id, saved |-> Storage]
  <2>2. r \in [id : Nat, saved : StorageType] /\ r.saved = Storage
    BY <1>1
  <2> HIDE DEF r
  <2>3. /\ running' \in Seq([id : Nat, saved : StorageType]) /\ Len(running') <= 1
        /\ running'[1].saved = Storage
    BY <2>1, <2>2 DEF r
  <2> QED  BY <1>1, <1>2, <2>3 DEF IInv, TypeOK
<1> QED  BY <1>3, <1>4, <1>5

LEMMA RolesStep ==
    ASSUME IInv, RolesTyped',
           UNCHANGED <<now, root, pendingRoot, delays, executions, running, roots, delayAt>>
    PROVE  IInv'
<1>1. CoreTyped /\ CoreOK
  BY Parts, CoreStorage DEF IInv
<1>2. CoreTyped' /\ CoreOK'
  BY <1>1 DEF CoreTyped, CoreOK
<1> QED  BY <1>2, WithinBlock

LEMMA ScheduledStep ==
    ASSUME IInv, RolesTyped', NEW e, IsScheduled(e, now, root, delays),
           executions' = Append(executions, e),
           UNCHANGED <<now, root, pendingRoot, delays, running, roots, delayAt>>
    PROVE  IInv'
<1>1. /\ now \in Nat /\ delayAt \in [0..now -> DelaysType] /\ CoreTyped /\ CoreOK
  BY Parts, CoreStorage DEF IInv
<1>2. executions' \in Seq(Execution)
  BY <1>1 DEF IsScheduled, CoreTyped
<1>3. CoreTyped'
  BY <1>1, <1>2 DEF CoreTyped
<1>4. AllOK(now, delayAt, root, pendingRoot, roots, delays, executions')
  BY <1>1, ScheduledOK DEF CoreTyped, CoreOK
<1>5. CoreOK'
  BY <1>4 DEF CoreOK
<1> QED  BY <1>3, <1>5, WithinBlock

-----------------------------------------------------------------------------
(* Scheduling *)

LEMMA NewExecution ==
    ASSUME TypeOK, NEW caller \in Accounts, NEW call \in Call, NEW delay \in Nat,
           NEW executors \in SUBSET Accounts
    PROVE  [call |-> call, executors |-> executors, scheduledBy |-> caller,
            scheduledAt |-> now, executableAt |-> now + delay,
            executed |-> FALSE, canceled |-> FALSE, executedAt |-> 0] \in Execution
<1>1. now \in Nat /\ now + delay \in Nat /\ 0 \in Nat
  BY DEF TypeOK
<1> QED  BY <1>1 DEF Execution

\* What all schedule functions do.
LEMMA ScheduleWithDelayStep ==
    ASSUME IInv, RolesTyped', NEW caller \in Accounts, NEW call \in Call, NEW delay \in Nat,
           NEW executors \in SUBSET Accounts, ScheduleWithDelay(caller, call, delay, executors),
           call.fn = "setPendingRoot" => caller = root /\ delay = RootTransferDelay,
           call.fn \in Kinds => delay = delays[call.fn][call.action],
           call.fn = "setDelay" => delay + call.delay >= delays[call.kind][call.action]
    PROVE  IInv'
<1> DEFINE e == [call |-> call, executors |-> executors, scheduledBy |-> caller,
                 scheduledAt |-> now, executableAt |-> now + delay,
                 executed |-> FALSE, canceled |-> FALSE, executedAt |-> 0]
<1>1. e \in Execution
  BY NewExecution DEF IInv
<1>2. /\ executions' = Append(executions, e)
      /\ UNCHANGED <<now, root, pendingRoot, delays, running, roots, delayAt>>
  BY DEF ScheduleWithDelay
<1>3. /\ e.call = call /\ e.scheduledBy = caller /\ e.scheduledAt = now
      /\ e.executableAt = now + delay /\ e.executed = FALSE /\ e.canceled = FALSE
  OBVIOUS
<1> HIDE DEF e
<1>4. now \in Nat /\ delays \in DelaysType
  BY Parts DEF IInv, CoreTyped
<1>5. e.call.fn = "setDelay" =>
          e.executableAt + e.call.delay >= now + delays[e.call.kind][e.call.action]
  <2> SUFFICES ASSUME call.fn = "setDelay"
               PROVE  now + delay + call.delay >= now + delays[call.kind][call.action]
    BY <1>3
  <2>1. call.delay \in Nat /\ call.kind \in Kinds /\ call.action \in Actions
    BY CallKinds
  <2>2. delays[call.kind][call.action] \in Nat
    BY <1>4, <2>1 DEF DelaysType
  <2> QED  BY <1>4, <2>1, <2>2
<1>6. IsScheduled(e, now, root, delays)
  BY <1>1, <1>3, <1>5 DEF IsScheduled
<1> QED  BY <1>2, <1>6, ScheduledStep

LEMMA ScheduleDelayChangeStep ==
    ASSUME IInv, NEW caller \in Accounts, NEW k \in Kinds, NEW a \in Actions, NEW new \in Nat,
           NEW executors \in SUBSET Accounts, ScheduleDelayChange(caller, k, a, new, executors)
    PROVE  IInv'
<1> DEFINE call == [fn |-> "setDelay", kind |-> k, action |-> a, delay |-> new]
           delay == DelayChangeExecutionDelay(delays[k][a], new)
<1>1. /\ call \in Call /\ call.fn = "setDelay" /\ call.fn \notin Kinds /\ call.kind = k
      /\ call.action = a /\ call.delay = new
  BY DEF Call, Kinds
<1>2. /\ ScheduleWithDelay(caller, call, delay, executors) /\ UNCHANGED cancelers
  BY DEF ScheduleDelayChange
<1>3. delays[k][a] \in Nat
  BY Parts DEF IInv, CoreTyped, DelaysType
<1>4. delay \in Nat /\ delay + new >= delays[k][a]
  BY <1>3, DelaysAssumption DEF DelayChangeExecutionDelay
<1> HIDE DEF call, delay
<1>5. RolesTyped'
  BY <1>2, Parts DEF IInv, RolesTyped, ScheduleWithDelay, roleVars
<1> QED  BY <1>1, <1>2, <1>4, <1>5, ScheduleWithDelayStep

LEMMA ScheduleRootChangeStep ==
    ASSUME IInv, NEW caller \in Accounts, NEW newRoot \in Accounts,
           NEW executors \in SUBSET Accounts, ScheduleRootChange(caller, newRoot, executors)
    PROVE  IInv'
<1> DEFINE call == [fn |-> "setPendingRoot", account |-> newRoot]
<1>1. /\ call \in Call /\ call.fn = "setPendingRoot" /\ call.fn \notin Kinds
  BY DEF Call, Kinds
<1>2. /\ caller = root /\ ScheduleWithDelay(caller, call, RootTransferDelay, executors)
      /\ UNCHANGED cancelers
  BY DEF ScheduleRootChange
<1> HIDE DEF call
<1>3. RolesTyped'
  BY <1>2, Parts DEF IInv, RolesTyped, ScheduleWithDelay, roleVars
<1> QED  BY <1>1, <1>2, <1>3, ScheduleWithDelayStep, DelaysAssumption

LEMMA CancelersAfter ==
    ASSUME TypeOK, NEW caller \in Accounts, UNCHANGED roleVars,
           cancelers' = CancelersAfterSchedule(caller)
    PROVE  RolesTyped'
<1>1. RolesTyped /\ CoreTyped
  BY Parts
<1>2. <<Len(executions) + 1, caller>> \in Nat \X Accounts
  BY <1>1 DEF CoreTyped
<1> QED  BY <1>1, <1>2 DEF RolesTyped, CancelersAfterSchedule, roleVars

LEMMA ScheduleStep ==
    ASSUME IInv, NEW caller \in Accounts, NEW a \in Actions, NEW w \in Targets,
           NEW executors \in SUBSET Accounts, Schedule(caller, a, w, executors)
    PROVE  IInv'
<1> DEFINE call == [fn |-> "perform", action |-> a, where |-> w]
<1>1. call \in Call /\ call.fn = "perform" /\ call.fn \in Kinds /\ call.action = a
  BY DEF Call, Kinds
<1>2. /\ ScheduleWithDelay(caller, call, delays["perform"][a], executors)
      /\ cancelers' = CancelersAfterSchedule(caller)
  BY DEF Schedule
<1> HIDE DEF call
<1>3. delays["perform"][a] \in Nat
  BY Parts DEF IInv, CoreTyped, DelaysType, Kinds
<1>4. RolesTyped'
  BY <1>2, CancelersAfter DEF IInv, ScheduleWithDelay
<1> QED  BY <1>1, <1>2, <1>3, <1>4, ScheduleWithDelayStep

LEMMA SchedulePermissionStep ==
    ASSUME IInv, NEW caller \in Accounts, NEW a \in Actions, NEW u \in Accounts,
           NEW w \in Places, NEW executors \in SUBSET Accounts,
           \/ ScheduleGrantPermission(caller, a, u, w, executors)
           \/ ScheduleRevokePermission(caller, a, u, w, executors)
    PROVE  IInv'
<1>1. PICK kind \in {"grant", "revoke"} :
         /\ ScheduleWithDelay(caller, [fn |-> kind, action |-> a, account |-> u, where |-> w],
                              delays[kind][a], executors)
         /\ cancelers' = CancelersAfterSchedule(caller)
  BY DEF ScheduleGrantPermission, ScheduleRevokePermission
<1> DEFINE call == [fn |-> kind, action |-> a, account |-> u, where |-> w]
<1>2. call \in Call /\ call.fn = kind /\ call.fn \in Kinds /\ call.action = a
  BY DEF Call, Kinds
<1>3. ScheduleWithDelay(caller, call, delays[kind][a], executors)
  BY <1>1
<1> HIDE DEF call
<1>4. delays[kind][a] \in Nat
  BY Parts DEF IInv, CoreTyped, DelaysType, Kinds
<1>5. RolesTyped'
  BY <1>1, CancelersAfter DEF IInv, ScheduleWithDelay
<1> QED  BY <1>2, <1>3, <1>4, <1>5, ScheduleWithDelayStep

-----------------------------------------------------------------------------
(* Permissions and roles *)

LEMMA GrantTypes ==
    ASSUME RolesTyped, UNCHANGED cancelers, NEW sender, NEW a \in Actions, NEW u \in Accounts,
           NEW w \in Places,
           Grant(sender, a, u, w) \/ Revoke(a, u, w)
    PROVE  RolesTyped'
<1>1. <<a, u, w>> \in Actions \X Accounts \X Places
  OBVIOUS
<1> QED  BY <1>1 DEF RolesTyped, Grant, Revoke

LEMMA PermissionStep ==
    ASSUME IInv, NEW caller \in Accounts, NEW a \in Actions, NEW u \in Accounts, NEW w \in Places,
           \/ GrantPermission(caller, a, u, w)
           \/ RevokePermission(caller, a, u, w)
           \/ RenouncePermission(caller, a, w)
    PROVE  IInv'
<1>1. /\ \E sender, v \in Accounts : Grant(sender, a, v, w) \/ Revoke(a, v, w)
      /\ ChangesRolesOnly
  BY DEF GrantPermission, RevokePermission, RenouncePermission, RevokeBy
<1>2. RolesTyped'
  BY <1>1, GrantTypes, Parts DEF IInv, ChangesRolesOnly
<1> QED  BY <1>1, <1>2, RolesStep DEF ChangesRolesOnly

LEMMA CancelerStep ==
    ASSUME IInv, NEW caller, NEW id \in Nat, NEW u \in Accounts,
           AddCanceler(caller, id, u) \/ RemoveCanceler(caller, id, u)
    PROVE  IInv'
<1>1. RolesTyped /\ <<id, u>> \in Nat \X Accounts
  BY Parts DEF IInv
<1>2. RolesTyped' /\ ChangesCancelersOnly
  BY <1>1 DEF AddCanceler, RemoveCanceler, ChangesCancelersOnly, RolesTyped, roleVars
<1> QED  BY <1>2, RolesStep DEF ChangesCancelersOnly

LEMMA GranterStep ==
    ASSUME IInv, NEW caller, NEW a \in Actions, NEW u \in Accounts, NEW w \in Places,
           AddGranter(caller, a, u, w) \/ RemoveGranter(caller, a, u, w)
    PROVE  IInv'
<1>1. RolesTyped /\ <<a, u, w>> \in Actions \X Accounts \X Places
  BY Parts DEF IInv
<1>2. RolesTyped' /\ ChangesRolesOnly
  BY <1>1 DEF AddGranter, RemoveGranter, ChangesRolesOnly, RolesTyped
<1> QED  BY <1>2, RolesStep DEF ChangesRolesOnly

LEMMA RevokerStep ==
    ASSUME IInv, NEW caller, NEW u \in Accounts, NEW w \in Places,
           AddRevoker(caller, u, w) \/ RemoveRevoker(caller, u, w)
    PROVE  IInv'
<1>1. RolesTyped /\ <<u, w>> \in Accounts \X Places
  BY Parts DEF IInv
<1>2. RolesTyped' /\ ChangesRolesOnly
  BY <1>1 DEF AddRevoker, RemoveRevoker, ChangesRolesOnly, RolesTyped
<1> QED  BY <1>2, RolesStep DEF ChangesRolesOnly

LEMMA ClaimStep ==
    ASSUME IInv, NEW caller \in Accounts, ClaimRoot(caller)
    PROVE  IInv'
<1>1. /\ now \in Nat /\ delayAt \in [0..now -> DelaysType] /\ CoreTyped /\ RolesTyped /\ CoreOK
  BY Parts, CoreStorage DEF IInv
<1>2. /\ pendingRoot \in Accounts /\ root' = pendingRoot /\ pendingRoot' = NoAccount
      /\ roots' = Append(roots, pendingRoot)
      /\ UNCHANGED <<now, roleVars, cancelers, delays, executions, running, delayAt>>
  BY DEF ClaimRoot
<1>3. AllOK(now, delayAt, root', NoAccount, roots', delays, executions)
  BY <1>1, <1>2, ClaimedOK DEF CoreTyped, CoreOK
<1>4. CoreTyped' /\ RolesTyped'
  BY <1>1, <1>2 DEF CoreTyped, RolesTyped, roleVars
<1>5. CoreOK'
  BY <1>2, <1>3 DEF CoreOK
<1> QED  BY <1>2, <1>4, <1>5, WithinBlock

-----------------------------------------------------------------------------
(* Executing, canceling, and time *)

LEMMA CancelStep ==
    ASSUME IInv, NEW caller, NEW id \in Ids, Cancel(caller, id)
    PROVE  IInv'
<1>1. /\ now \in Nat /\ delayAt \in [0..now -> DelaysType] /\ CoreTyped /\ RolesTyped /\ CoreOK
  BY Parts, CoreStorage DEF IInv
<1>2. /\ Pending(executions[id]) /\ executions' = [executions EXCEPT ![id].canceled = TRUE]
      /\ UNCHANGED <<now, root, pendingRoot, roleVars, cancelers, delays, running, roots, delayAt>>
  BY DEF Cancel
<1>3. id \in DOMAIN executions
  BY <1>1 DEF CoreTyped, Ids
<1>4. /\ executions' \in Seq(Execution)
      /\ AllOK(now, delayAt, root, pendingRoot, roots, delays, executions')
  BY <1>1, <1>2, <1>3, CanceledOK DEF CoreTyped, CoreOK
<1>5. CoreTyped' /\ RolesTyped'
  BY <1>1, <1>2, <1>4 DEF CoreTyped, RolesTyped, roleVars
<1>6. CoreOK'
  BY <1>2, <1>4 DEF CoreOK
<1> QED  BY <1>2, <1>5, <1>6, WithinBlock

\* The record of the execution, before and after.
LEMMA ExecuteRecords ==
    ASSUME TypeOK, NEW caller, NEW id \in Ids, Execute(caller, id)
    PROVE  /\ id \in DOMAIN executions /\ id \in Nat /\ executions[id].call \in Call
           /\ executions' \in Seq(Execution)
           /\ Ended(executions, id, executions', TRUE, FALSE, now)
           /\ Kept(executions, executions') /\ executions[id].executableAt <= now
<1>1. now \in Nat /\ executions \in Seq(Execution)
  BY Parts DEF CoreTyped
<1>2. id \in DOMAIN executions /\ id \in Nat
  BY <1>1 DEF Ids
<1>3. /\ Pending(executions[id]) /\ now >= executions[id].executableAt
      /\ executions' = [executions EXCEPT ![id].executed = TRUE, ![id].executedAt = now]
  BY DEF Execute, CanExecute
<1>4. executions[id] \in Execution
  BY <1>1, <1>2
<1>5. executions[id].call \in Call /\ executions[id].executableAt \in Nat
  BY <1>4 DEF Execution
<1>6. /\ Ended(executions, id, executions', TRUE, FALSE, now)
      /\ Kept(executions, executions')
  BY <1>1, <1>2, <1>3, Executed
<1> QED  BY <1>1, <1>2, <1>3, <1>5, <1>6 DEF Ended

LEMMA ExecuteStep ==
    ASSUME IInv, NEW caller, NEW id \in Ids, Execute(caller, id)
    PROVE  IInv'
<1>1. /\ now \in Nat /\ delayAt \in [0..now -> DelaysType] /\ CoreTyped /\ RolesTyped /\ CoreOK
  BY Parts, CoreStorage DEF IInv
<1>2. /\ id \in DOMAIN executions /\ id \in Nat /\ executions[id].call \in Call
      /\ executions' \in Seq(Execution)
      /\ Ended(executions, id, executions', TRUE, FALSE, now)
      /\ Kept(executions, executions') /\ executions[id].executableAt <= now
  BY ExecuteRecords DEF IInv
<1> DEFINE call == executions[id].call
<1>3. /\ CallOf(id, call)
      /\ UNCHANGED <<now, root, cancelers, roots, delayAt>>
  BY DEF Execute
<1> HIDE DEF call
<1>4. call \in Call
  BY <1>2 DEF call
<1>5. CASE UNCHANGED <<pendingRoot, delays>> /\ RolesTyped' /\
           (running' = running \/ running' = <<[id |-> id, saved |-> Storage]>>)
  <2>1. AllOK(now, delayAt, root, pendingRoot, roots, delays, executions')
    BY <1>1, <1>2, ExecutedOK DEF CoreTyped, CoreOK
  <2>2. CoreTyped' /\ CoreOK'
    BY <1>1, <1>2, <1>3, <1>5, <2>1 DEF CoreTyped, CoreOK
  <2> QED  BY <1>2, <1>3, <1>5, <2>2, WithinBlock
<1>6. CASE call.fn = "setDelay"
  <2>1. /\ MaySetDelay(call.kind, call.action, call.delay)
        /\ delays' = [delays EXCEPT ![call.kind][call.action] = call.delay]
        /\ UNCHANGED <<pendingRoot, roleVars, running>>
    BY <1>3, <1>6 DEF CallOf, SetDelay
  <2>2. /\ call.kind \in Kinds /\ call.action \in Actions /\ call.delay \in Nat
        /\ executions[id].call = [fn |-> "setDelay", kind |-> call.kind,
                                  action |-> call.action, delay |-> call.delay]
    BY <1>4, <1>6, CallKinds DEF call
  <2>3. AllOK(now, delayAt, root, pendingRoot, roots, delays', executions')
    BY <1>1, <1>2, <2>1, <2>2, SetDelayOK DEF CoreTyped, CoreOK, MaySetDelay
  <2>4. delays' \in DelaysType
    BY <1>1, <2>1, <2>2 DEF CoreTyped, DelaysType
  <2>5. CoreTyped' /\ RolesTyped'
    BY <1>1, <1>2, <1>3, <2>1, <2>4 DEF CoreTyped, RolesTyped, roleVars
  <2>6. CoreOK'
    BY <1>3, <2>1, <2>3 DEF CoreOK
  <2> QED  BY <1>3, <2>1, <2>5, <2>6, WithinBlock
<1>7. CASE call.fn = "setPendingRoot"
  <2>1. pendingRoot' = call.account /\ UNCHANGED <<delays, roleVars, running>>
    BY <1>3, <1>7 DEF CallOf
  <2>2. /\ call.account \in Accounts
        /\ executions[id].call = [fn |-> "setPendingRoot", account |-> call.account]
    BY <1>4, <1>7, CallKinds DEF call
  <2>3. AllOK(now, delayAt, root, pendingRoot', roots, delays, executions')
    BY <1>1, <1>2, <2>1, <2>2, SetPendingRootOK DEF CoreTyped, CoreOK
  <2>4. CoreTyped' /\ RolesTyped'
    BY <1>1, <1>2, <1>3, <2>1, <2>2 DEF CoreTyped, RolesTyped, roleVars
  <2>5. CoreOK'
    BY <1>3, <2>1, <2>3 DEF CoreOK
  <2> QED  BY <1>3, <2>1, <2>4, <2>5, WithinBlock
<1>8. CASE call.fn \in {"grant", "revoke"}
  <2>1. /\ Grant(Helper, call.action, call.account, call.where)
           \/ Revoke(call.action, call.account, call.where)
        /\ UNCHANGED <<pendingRoot, delays, running>>
    BY <1>3, <1>8 DEF CallOf, RevokeBy
  <2>2. call.action \in Actions /\ call.account \in Accounts /\ call.where \in Places
    BY <1>4, <1>8, CallKinds
  <2>3. RolesTyped'
    BY <1>1, <1>3, <2>1, <2>2, GrantTypes
  <2> QED  BY <1>5, <2>1, <2>3
<1>9. CASE call.fn = "perform"
  <2>1. /\ running' = <<[id |-> id, saved |-> Storage]>>
        /\ UNCHANGED <<pendingRoot, delays, roleVars>>
    BY <1>3, <1>9 DEF CallOf
  <2>2. RolesTyped'
    BY <1>1, <1>3, <2>1 DEF RolesTyped, roleVars
  <2> QED  BY <1>5, <2>1, <2>2
<1>10. call.fn \in {"setDelay", "setPendingRoot", "perform", "grant", "revoke"}
  BY <1>4, CallKinds DEF Kinds
<1> QED  BY <1>6, <1>7, <1>8, <1>9, <1>10

LEMMA ReturnedStep ==
    ASSUME IInv, ExecuteReturned
    PROVE  IInv'
<1>1. CoreTyped /\ RolesTyped /\ CoreOK
  BY Parts, CoreStorage DEF IInv
<1>2. CoreTyped' /\ RolesTyped' /\ CoreOK' /\ running' = <<>> /\ UNCHANGED <<now, delayAt>>
  BY <1>1 DEF ExecuteReturned, CoreTyped, RolesTyped, CoreOK, roleVars
<1> QED  BY <1>2, WithinBlock

LEMMA RevertedStep ==
    ASSUME IInv, ExecuteReverted
    PROVE  IInv'
<1> DEFINE s == running[1].saved
<1>1. s \in StorageType /\ StorageOK(now, delayAt, s) /\ running # <<>>
  BY Parts DEF IInv, ExecuteReverted
<1>2. /\ root' = s.root /\ pendingRoot' = s.pendingRoot
      /\ granted' = s.granted /\ granters' = s.granters
      /\ revokers' = s.revokers /\ cancelers' = s.cancelers
      /\ delays' = s.delays /\ executions' = s.executions /\ roots' = s.roots
      /\ running' = <<>> /\ UNCHANGED <<now, delayAt>>
  BY DEF ExecuteReverted
<1> HIDE DEF s
<1>3. CoreTyped' /\ RolesTyped'
  BY <1>1, <1>2 DEF StorageType, CoreTyped, RolesTyped
<1>4. CoreOK'
  BY <1>1, <1>2 DEF CoreOK, StorageOK
<1> QED  BY <1>2, <1>3, <1>4, WithinBlock

\* The clock moves between two transactions only.
Passes(t) == running = <<>> /\ AdvanceToTimestamp(t)

LEMMA PassesStep ==
    ASSUME IInv, NEW t \in Nat, Passes(t)
    PROVE  IInv'
<1>1. /\ now \in Nat /\ delayAt \in [0..now -> DelaysType] /\ CoreTyped /\ RolesTyped /\ CoreOK
  BY Parts, CoreStorage DEF IInv
<1>2. /\ t > now /\ now' = t
      /\ delayAt' = [s \in 0..t |-> IF s > now THEN delays ELSE delayAt[s]]
      /\ UNCHANGED <<root, pendingRoot, roleVars, cancelers, delays, executions, running, roots>>
      /\ running = <<>>
  BY DEF Passes, AdvanceToTimestamp
<1>3. AllOK(t, delayAt', root, pendingRoot, roots, delays, executions)
  BY <1>1, <1>2, PassedOK DEF CoreTyped, CoreOK
<1>4. delayAt' \in [0..now' -> DelaysType]
  BY <1>1, <1>2 DEF CoreTyped
<1>5. CoreTyped' /\ RolesTyped'
  BY <1>1, <1>2 DEF CoreTyped, RolesTyped, roleVars
<1>6. StorageOK(now', delayAt', Storage')
  BY <1>2, <1>3 DEF StorageOK, Storage
<1>7. TypeOK'
  BY <1>2, <1>4, <1>5, StorageNext DEF TypeOK
<1> QED  BY <1>2, <1>6, <1>7 DEF IInv

-----------------------------------------------------------------------------
(* Every step of the authorizer, and every method of its client, is one of these *)

Schedules(caller) ==
    \E executors \in SUBSET Accounts :
        \/ \E k \in Kinds, a \in Actions, new \in Nat :
              ScheduleDelayChange(caller, k, a, new, executors)
        \/ \E newRoot \in Accounts : ScheduleRootChange(caller, newRoot, executors)
        \/ \E a \in Actions, w \in Targets : Schedule(caller, a, w, executors)
        \/ \E a \in Actions, u \in Accounts, w \in Places :
              \/ ScheduleGrantPermission(caller, a, u, w, executors)
              \/ ScheduleRevokePermission(caller, a, u, w, executors)

ChangesRoles(caller) ==
    \/ \E a \in Actions, u \in Accounts, w \in Places :
          \/ GrantPermission(caller, a, u, w)
          \/ RevokePermission(caller, a, u, w)
          \/ RenouncePermission(caller, a, w)
          \/ AddGranter(caller, a, u, w)
          \/ RemoveGranter(caller, a, u, w)
    \/ \E id \in Nat, u \in Accounts : AddCanceler(caller, id, u) \/ RemoveCanceler(caller, id, u)
    \/ \E u \in Accounts, w \in Places : AddRevoker(caller, u, w) \/ RemoveRevoker(caller, u, w)

Ends(caller) == \E id \in Ids : Execute(caller, id) \/ Cancel(caller, id)

Acts(caller) == Schedules(caller) \/ ChangesRoles(caller) \/ Ends(caller) \/ ClaimRoot(caller)

Step ==
    \/ \E caller \in Accounts : Acts(caller)
    \/ ExecuteReturned
    \/ ExecuteReverted
    \/ \E t \in Nat : Passes(t)

LEMMA InputTypes ==
    /\ \A p \in Permissions \cup GranterRoles :
          p[1] \in Actions /\ p[2] \in Accounts /\ p[3] \in Places
    /\ \A r \in RevokerRoles : r[1] \in Accounts /\ r[2] \in Places
    /\ \A c \in ChangedDelays : c[1] \in Kinds /\ c[2] \in Actions
    /\ NewDelays \subseteq Nat /\ NewRoots \subseteq Accounts /\ Cancelers \subseteq Accounts
    /\ ExecutorSets \subseteq SUBSET Accounts
    /\ {GLOBAL_CANCELER} \cup Ids \subseteq Nat
    /\ EVERYWHERE \in Places /\ {} \in SUBSET Accounts
<1>1. \A p \in Permissions \cup GranterRoles :
         p[1] \in Actions /\ p[2] \in Accounts /\ p[3] \in Places
  BY AccountsAssumption DEF Places
<1>2. \A r \in RevokerRoles : r[1] \in Accounts /\ r[2] \in Places
  BY AccountsAssumption DEF Places
<1>3. \A c \in ChangedDelays : c[1] \in Kinds /\ c[2] \in Actions
  BY AccountsAssumption
<1>4. {GLOBAL_CANCELER} \cup Ids \subseteq Nat
  BY DEF GLOBAL_CANCELER, Ids
<1> QED  BY <1>1, <1>2, <1>3, <1>4, AccountsAssumption, DelaysAssumption DEF Places

LEMMA ScheduleNextIsStep == ScheduleNext => Step
<1> SUFFICES ASSUME ScheduleNext
             PROVE  Step
  OBVIOUS
<1>1. PICK caller \in Accounts, executors \in ExecutorSets :
        \/ \E change \in ChangedDelays, new \in NewDelays :
              ScheduleDelayChange(caller, change[1], change[2], new, executors)
        \/ \E newRoot \in NewRoots : ScheduleRootChange(caller, newRoot, executors)
        \/ \E a \in Actions, w \in Targets : Schedule(caller, a, w, executors)
        \/ \E p \in Permissions :
              \/ ScheduleGrantPermission(caller, p[1], p[2], p[3], executors)
              \/ ScheduleRevokePermission(caller, p[1], p[2], p[3], executors)
  BY DEF ScheduleNext
<1>2. executors \in SUBSET Accounts
  BY InputTypes
<1>3. Schedules(caller)
  BY <1>1, <1>2, InputTypes DEF Schedules
<1> QED  BY <1>3 DEF Step, Acts

LEMMA PermissionNextIsStep == PermissionNext => Step
<1> SUFFICES ASSUME PermissionNext
             PROVE  Step
  OBVIOUS
<1>1. PICK caller \in Accounts, p \in Permissions :
        \/ GrantPermission(caller, p[1], p[2], p[3])
        \/ RevokePermission(caller, p[1], p[2], p[3])
        \/ RenouncePermission(caller, p[1], p[3])
  BY DEF PermissionNext
<1>2. ChangesRoles(caller)
  BY <1>1, InputTypes DEF ChangesRoles
<1> QED  BY <1>2 DEF Step, Acts

LEMMA ExecutionNextIsStep == ExecutionNext => Step
BY DEF ExecutionNext, Step, Acts, Ends

LEMMA RoleNextIsStep == RoleNext => Step
<1> SUFFICES ASSUME RoleNext
             PROVE  Step
  OBVIOUS
<1>1. PICK caller \in Accounts :
        \/ \E id \in ({GLOBAL_CANCELER} \cup Ids) \cap CancelerIds, u \in Cancelers :
              AddCanceler(caller, id, u) \/ RemoveCanceler(caller, id, u)
        \/ \E g \in GranterRoles :
              AddGranter(caller, g[1], g[2], g[3]) \/ RemoveGranter(caller, g[1], g[2], g[3])
        \/ \E r \in RevokerRoles :
              AddRevoker(caller, r[1], r[2]) \/ RemoveRevoker(caller, r[1], r[2])
        \/ ClaimRoot(caller)
  BY DEF RoleNext
<1>2. ChangesRoles(caller) \/ ClaimRoot(caller)
  BY <1>1, InputTypes DEF ChangesRoles
<1> QED  BY <1>2 DEF Step, Acts

LEMMA TickIsStep == TypeOK /\ Tick => Step
<1> SUFFICES ASSUME TypeOK, Tick
             PROVE  Step
  OBVIOUS
<1>1. now \in Nat
  BY DEF TypeOK
<1>2. /\ running = <<>> /\ now' = now + 1
      /\ delayAt' = [t \in 0..now + 1 |-> IF t = now + 1 THEN delays ELSE delayAt[t]]
      /\ UNCHANGED <<root, pendingRoot, roleVars, cancelers, delays, executions,
                     running, roots>>
  BY DEF Tick
<1>3. \A t \in 0..now + 1 : t = now + 1 <=> t > now
  BY <1>1
<1>4. delayAt' = [t \in 0..now + 1 |-> IF t > now THEN delays ELSE delayAt[t]]
  BY <1>2, <1>3
<1>5. now + 1 \in Nat /\ now + 1 > now
  BY <1>1
<1>6. Passes(now + 1)
  BY <1>2, <1>4, <1>5 DEF Passes, AdvanceToTimestamp
<1> QED  BY <1>5, <1>6 DEF Step

LEMMA NextIsStep == TypeOK /\ Next => Step
BY ScheduleNextIsStep, PermissionNextIsStep, ExecutionNextIsStep, RoleNextIsStep, TickIsStep
   DEF Next

LEMMA StepIInv == IInv /\ Step => IInv'
<1> SUFFICES ASSUME IInv, Step
             PROVE  IInv'
  OBVIOUS
<1>1. ASSUME NEW caller \in Accounts, Schedules(caller)
      PROVE  IInv'
  BY <1>1, ScheduleDelayChangeStep, ScheduleRootChangeStep, ScheduleStep, SchedulePermissionStep
     DEF Schedules
<1>2. ASSUME NEW caller \in Accounts, ChangesRoles(caller)
      PROVE  IInv'
  BY <1>2, PermissionStep, GranterStep, CancelerStep, RevokerStep DEF ChangesRoles
<1>3. ASSUME NEW caller \in Accounts, Ends(caller)
      PROVE  IInv'
  BY <1>3, ExecuteStep, CancelStep DEF Ends
<1>4. ASSUME NEW caller \in Accounts, ClaimRoot(caller)
      PROVE  IInv'
  BY <1>4, ClaimStep
<1> QED  BY <1>1, <1>2, <1>3, <1>4, ReturnedStep, RevertedStep, PassesStep DEF Step, Acts

LEMMA StutterIInv == IInv /\ UNCHANGED vars => IInv'
BY DEF IInv, TypeOK, Storage, vars, roleVars

LEMMA InitIInv == Init => IInv
<1> SUFFICES ASSUME Init
             PROVE  IInv
  OBVIOUS
<1>1. /\ now = 0 /\ root = InitialRoot /\ pendingRoot = NextRoot
      /\ granted = {} /\ granters = {} /\ revokers = {} /\ cancelers = {}
      /\ delays = InitialDelays /\ executions = <<>> /\ running = <<>>
      /\ roots = <<InitialRoot>> /\ delayAt = [t \in {0} |-> InitialDelays]
  BY DEF Init
<1>2. InitialDelays \in DelaysType /\ SetAuthorizer \in Actions /\ "perform" \in Kinds
  BY DelaysAssumption, AccountsAssumption DEF DelaysType, Kinds
<1>3. CoreTyped /\ RolesTyped
  BY <1>1, <1>2, AccountsAssumption DEF CoreTyped, RolesTyped
<1>4. Storage \in StorageType
  BY <1>3 DEF CoreTyped, RolesTyped, Storage, StorageType
<1>5. delayAt \in [0..now -> DelaysType]
  <2>1. 0..0 = {0}
    OBVIOUS
  <2> QED  BY <1>1, <1>2, <2>1
<1>6. TypeOK
  BY <1>1, <1>4, <1>5 DEF TypeOK
<1>7. RecordsOK(now, executions)
  BY <1>1 DEF RecordsOK
<1>8. RootsOK(root, pendingRoot, roots, executions)
  BY <1>1 DEF RootsOK
<1>9. DelaysOK(delays, executions)
  <2>1. WasAuthorizerDelay(InitialDelays["perform"][SetAuthorizer], executions)
    BY DEF WasAuthorizerDelay
  <2>2. InitialDelays["perform"][SetAuthorizer] \in Nat
    BY <1>2 DEF DelaysType
  <2> QED  BY <1>1, <2>1, <2>2, DelaysAssumption DEF DelaysOK
<1>10. NoticesOK(now, delayAt, delays, executions)
  <2> SUFFICES ASSUME NEW k \in Kinds, NEW a \in Actions, NEW t \in 0..now
               PROVE  NoticeKept(k, a, t, now, delayAt, delays, executions)
    BY DEF NoticesOK
  <2>1. t = 0 /\ delayAt[t] = delays /\ delays[k][a] \in Nat
    BY <1>1, <1>2 DEF DelaysType
  <2> QED  BY <1>1, <2>1 DEF NoticeKept
<1> QED  BY <1>1, <1>6, <1>7, <1>8, <1>9, <1>10, CoreStorage DEF IInv, CoreOK, AllOK

LEMMA Invariance == Spec => []IInv
<1>1. IInv /\ [Next]_vars => IInv'
  <2>1. IInv => TypeOK
    BY DEF IInv
  <2> QED  BY <2>1, NextIsStep, StepIInv, StutterIInv
<1> QED  BY <1>1, InitIInv, PTL DEF Spec

-----------------------------------------------------------------------------
(* What a step may not do *)

\* The action of RemovalIsEffective.
LossIsFinal ==
    ~(running # <<>> /\ running' = <<>>) =>
        /\ \A p \in granted \ granted' : ~HasPermission(p[1], p[2], p[3])'
        /\ \A g \in granters \ granters' : ~IsGranter(g[1], g[2], g[3])'
        /\ \A r \in revokers \ revokers' : ~IsRevoker(r[1], r[2])'
        /\ \A c \in cancelers \ cancelers' : ~IsCanceler(c[1], c[2])'

LEMMA NothingLost ==
    ASSUME granted \subseteq granted', granters \subseteq granters',
           revokers \subseteq revokers', cancelers \subseteq cancelers'
    PROVE  LossIsFinal
BY DEF LossIsFinal

LEMMA RevokeLoses ==
    ASSUME NEW a, NEW u, NEW w, Revoke(a, u, w), UNCHANGED cancelers
    PROVE  LossIsFinal
<1>1. /\ <<a, u, EVERYWHERE>> \in granted => w = EVERYWHERE
      /\ granted' = granted \ {<<a, u, w>>} /\ UNCHANGED <<granters, revokers>>
  BY DEF Revoke
<1>2. ASSUME NEW p \in granted \ granted'
      PROVE  ~HasPermission(p[1], p[2], p[3])'
  <2>1. p = <<a, u, w>> /\ p[1] = a /\ p[2] = u /\ p[3] = w
    BY <1>1, <1>2
  <2>2. <<a, u, w>> \notin granted' /\ <<a, u, EVERYWHERE>> \notin granted'
    BY <1>1
  <2> QED  BY <2>1, <2>2 DEF HasPermission, Everywhere
<1> QED  BY <1>1, <1>2 DEF LossIsFinal

LEMMA PermissionLoss ==
    ASSUME NEW caller, NEW a, NEW u, NEW w,
           \/ GrantPermission(caller, a, u, w)
           \/ RevokePermission(caller, a, u, w)
           \/ RenouncePermission(caller, a, w)
    PROVE  LossIsFinal
<1>1. CASE GrantPermission(caller, a, u, w)
  BY <1>1, NothingLost DEF GrantPermission, Grant, ChangesRolesOnly
<1>2. CASE RevokePermission(caller, a, u, w) \/ RenouncePermission(caller, a, w)
  <2>1. PICK v : Revoke(a, v, w) /\ UNCHANGED cancelers
    BY <1>2 DEF RevokePermission, RenouncePermission, RevokeBy, ChangesRolesOnly
  <2> QED  BY <2>1, RevokeLoses
<1> QED  BY <1>1, <1>2

LEMMA GranterLoss ==
    ASSUME NEW caller, NEW a, NEW u, NEW w,
           AddGranter(caller, a, u, w) \/ RemoveGranter(caller, a, u, w)
    PROVE  LossIsFinal
<1>1. CASE AddGranter(caller, a, u, w)
  BY <1>1, NothingLost DEF AddGranter, ChangesRolesOnly
<1>2. CASE RemoveGranter(caller, a, u, w)
  <2>1. /\ u # root /\ root' = root
        /\ <<a, u, EVERYWHERE>> \in granters => w = EVERYWHERE
        /\ granters' = granters \ {<<a, u, w>>} /\ UNCHANGED <<granted, revokers, cancelers>>
    BY <1>2 DEF RemoveGranter, ChangesRolesOnly
  <2>2. ASSUME NEW g \in granters \ granters'
        PROVE  ~IsGranter(g[1], g[2], g[3])'
    <3>1. g = <<a, u, w>> /\ g[1] = a /\ g[2] = u /\ g[3] = w
      BY <2>1, <2>2
    <3>2. <<a, u, w>> \notin granters' /\ <<a, u, EVERYWHERE>> \notin granters'
      BY <2>1
    <3> QED  BY <2>1, <3>1, <3>2 DEF IsGranter, Everywhere
  <2> QED  BY <2>1, <2>2 DEF LossIsFinal
<1> QED  BY <1>1, <1>2

LEMMA RevokerLoss ==
    ASSUME NEW caller, NEW u, NEW w, AddRevoker(caller, u, w) \/ RemoveRevoker(caller, u, w)
    PROVE  LossIsFinal
<1>1. CASE AddRevoker(caller, u, w)
  BY <1>1, NothingLost DEF AddRevoker, ChangesRolesOnly
<1>2. CASE RemoveRevoker(caller, u, w)
  <2>1. /\ u # root /\ root' = root
        /\ <<u, EVERYWHERE>> \in revokers => w = EVERYWHERE
        /\ revokers' = revokers \ {<<u, w>>} /\ UNCHANGED <<granted, granters, cancelers>>
    BY <1>2 DEF RemoveRevoker, ChangesRolesOnly
  <2>2. ASSUME NEW r \in revokers \ revokers'
        PROVE  ~IsRevoker(r[1], r[2])'
    <3>1. r = <<u, w>> /\ r[1] = u /\ r[2] = w
      BY <2>1, <2>2
    <3>2. <<u, w>> \notin revokers' /\ <<u, EVERYWHERE>> \notin revokers'
      BY <2>1
    <3> QED  BY <2>1, <3>1, <3>2 DEF IsRevoker, Everywhere
  <2> QED  BY <2>1, <2>2 DEF LossIsFinal
<1> QED  BY <1>1, <1>2

LEMMA CancelerLoss ==
    ASSUME NEW caller, NEW id, NEW u, AddCanceler(caller, id, u) \/ RemoveCanceler(caller, id, u)
    PROVE  LossIsFinal
<1>1. CASE AddCanceler(caller, id, u)
  BY <1>1, NothingLost DEF AddCanceler, ChangesCancelersOnly, roleVars
<1>2. CASE RemoveCanceler(caller, id, u)
  <2>1. /\ u # root /\ root' = root
        /\ <<GLOBAL_CANCELER, u>> \in cancelers => id = GLOBAL_CANCELER
        /\ cancelers' = cancelers \ {<<id, u>>} /\ UNCHANGED <<granted, granters, revokers>>
    BY <1>2 DEF RemoveCanceler, ChangesCancelersOnly, roleVars
  <2>2. ASSUME NEW c \in cancelers \ cancelers'
        PROVE  ~IsCanceler(c[1], c[2])'
    <3>1. c = <<id, u>> /\ c[1] = id /\ c[2] = u
      BY <2>1, <2>2
    <3>2. <<id, u>> \notin cancelers' /\ <<GLOBAL_CANCELER, u>> \notin cancelers'
      BY <2>1
    <3> QED  BY <2>1, <3>1, <3>2 DEF IsCanceler
  <2> QED  BY <2>1, <2>2 DEF LossIsFinal
<1> QED  BY <1>1, <1>2

LEMMA ExecuteLoss ==
    ASSUME NEW caller, NEW id, Execute(caller, id)
    PROVE  LossIsFinal
<1> DEFINE call == executions[id].call
<1>1. CallOf(id, call) /\ UNCHANGED cancelers
  BY DEF Execute
<1> HIDE DEF call
<1>2. CASE Grant(Helper, call.action, call.account, call.where)
  BY <1>1, <1>2, NothingLost DEF Grant
<1>3. CASE RevokeBy(Helper, call.action, call.account, call.where)
  BY <1>1, <1>3, RevokeLoses DEF RevokeBy
<1>4. CASE UNCHANGED roleVars
  BY <1>1, <1>4, NothingLost DEF roleVars
<1> QED  BY <1>1, <1>2, <1>3, <1>4 DEF CallOf, SetDelay

LEMMA ScheduleLoss ==
    ASSUME NEW caller, Schedules(caller)
    PROVE  LossIsFinal
<1>1. UNCHANGED roleVars /\ cancelers \subseteq cancelers'
  BY DEF Schedules, ScheduleDelayChange, ScheduleRootChange, Schedule, ScheduleGrantPermission,
         ScheduleRevokePermission, ScheduleWithDelay, CancelersAfterSchedule
<1> QED  BY <1>1, NothingLost DEF roleVars

LEMMA StepLoss == Step => LossIsFinal
<1> SUFFICES ASSUME Step
             PROVE  LossIsFinal
  OBVIOUS
<1>1. ASSUME NEW caller \in Accounts, ChangesRoles(caller)
      PROVE  LossIsFinal
  BY <1>1, PermissionLoss, GranterLoss, RevokerLoss, CancelerLoss DEF ChangesRoles
<1>2. ASSUME NEW caller \in Accounts, Ends(caller)
      PROVE  LossIsFinal
  <2>1. PICK id \in Ids : Execute(caller, id) \/ Cancel(caller, id)
    BY <1>2 DEF Ends
  <2>2. CASE Cancel(caller, id)
    BY <2>2, NothingLost DEF Cancel, roleVars
  <2> QED  BY <2>1, <2>2, ExecuteLoss
<1>3. ASSUME NEW caller \in Accounts, ClaimRoot(caller)
      PROVE  LossIsFinal
  BY <1>3, NothingLost DEF ClaimRoot, roleVars
<1>4. CASE ExecuteReturned \/ ExecuteReverted
  BY <1>4 DEF ExecuteReturned, ExecuteReverted, LossIsFinal
<1>5. ASSUME NEW t \in Nat, Passes(t)
      PROVE  LossIsFinal
  BY <1>5, NothingLost DEF Passes, AdvanceToTimestamp, roleVars
<1> QED  BY <1>1, <1>2, <1>3, <1>4, <1>5, ScheduleLoss DEF Step, Acts

\* What a revert restores of the delays is what they are: only an execution that has
\* ended changes one.
SavedDelays == running # <<>> => running[1].saved.delays = delays

\* The action of NoDelayOutgrowsSetAuthorizer.
NotOutgrown ==
    \A k \in Kinds, a \in Actions :
        delays'[k][a] > delays'["perform"][SetAuthorizer] => delays'[k][a] = delays[k][a]

LEMMA ExecuteOutgrows ==
    ASSUME TypeOK, NEW caller, NEW id \in Ids, Execute(caller, id)
    PROVE  NotOutgrown /\ SavedDelays'
<1> DEFINE call == executions[id].call
<1>1. CallOf(id, call) /\ running = <<>>
  BY DEF Execute
<1>2. delays \in DelaysType /\ executions[id].call \in Call
  <2>1. delays \in DelaysType
    BY DEF TypeOK, Storage, StorageType
  <2> QED  BY <2>1, ExecuteRecords
<1> HIDE DEF call
<1>3. CASE UNCHANGED delays /\ (running' = <<>> \/ running' = <<[id |-> id, saved |-> Storage]>>)
  BY <1>3 DEF NotOutgrown, SavedDelays, Storage
<1>4. CASE call.fn = "setDelay" /\ SetDelay(id, call)
  <2>1. /\ call.kind \in Kinds /\ call.action \in Actions /\ call.delay \in Nat
    BY <1>2, <1>4, CallKinds DEF call
  <2>2. /\ MaySetDelay(call.kind, call.action, call.delay)
        /\ delays' = [delays EXCEPT ![call.kind][call.action] = call.delay]
        /\ running' = <<>>
    BY <1>1, <1>4 DEF SetDelay
  <2>3. delays'[call.kind][call.action] = call.delay
    BY <1>2, <2>1, <2>2 DEF DelaysType
  <2>4. \A k \in Kinds, a \in Actions :
           k # call.kind \/ a # call.action => delays'[k][a] = delays[k][a]
    BY <1>2, <2>1, <2>2 DEF DelaysType
  <2>5. /\ "perform" \in Kinds /\ SetAuthorizer \in Actions
        /\ delays["perform"][SetAuthorizer] \in Nat
    BY <1>2, AccountsAssumption DEF Kinds, DelaysType
  <2>6. NotOutgrown
    <3> SUFFICES ASSUME NEW k \in Kinds, NEW a \in Actions,
                        delays'[k][a] > delays'["perform"][SetAuthorizer],
                        k = call.kind, a = call.action
                 PROVE  FALSE
      BY <2>4 DEF NotOutgrown
    <3>1. CASE k = "perform" /\ a = SetAuthorizer
      BY <2>1, <2>3, <3>1
    <3>2. CASE k # "perform" \/ a # SetAuthorizer
      <4>1. delays'["perform"][SetAuthorizer] = delays["perform"][SetAuthorizer]
        BY <2>4, <2>5, <3>2
      <4>2. call.delay <= delays["perform"][SetAuthorizer]
        BY <2>2, <3>2 DEF MaySetDelay
      <4> QED  BY <2>1, <2>3, <2>5, <4>1, <4>2
    <3> QED  BY <3>1, <3>2
  <2> QED  BY <2>2, <2>6 DEF SavedDelays
<1> QED  BY <1>1, <1>3, <1>4 DEF CallOf

LEMMA StepOutgrows == TypeOK /\ SavedDelays /\ Step => NotOutgrown /\ SavedDelays'
<1> SUFFICES ASSUME TypeOK, SavedDelays, Step
             PROVE  NotOutgrown /\ SavedDelays'
  OBVIOUS
<1>1. CASE UNCHANGED <<delays, running>>
  BY <1>1 DEF NotOutgrown, SavedDelays
<1>2. ASSUME NEW caller \in Accounts, Schedules(caller) \/ ClaimRoot(caller)
      PROVE  UNCHANGED <<delays, running>>
  BY <1>2 DEF Schedules, ScheduleDelayChange, ScheduleRootChange, Schedule, ClaimRoot,
              ScheduleGrantPermission, ScheduleRevokePermission, ScheduleWithDelay
<1>3. ASSUME NEW caller \in Accounts, ChangesRoles(caller)
      PROVE  UNCHANGED <<delays, running>>
  BY <1>3 DEF ChangesRoles, GrantPermission, RevokePermission, RenouncePermission, AddGranter,
              RemoveGranter, AddCanceler, RemoveCanceler, AddRevoker, RemoveRevoker,
              ChangesRolesOnly, ChangesCancelersOnly
<1>4. ASSUME NEW t \in Nat, Passes(t)
      PROVE  UNCHANGED <<delays, running>>
  BY <1>4 DEF Passes, AdvanceToTimestamp
<1>5. ASSUME NEW caller \in Accounts, Ends(caller)
      PROVE  NotOutgrown /\ SavedDelays'
  <2>1. PICK id \in Ids : Execute(caller, id) \/ Cancel(caller, id)
    BY <1>5 DEF Ends
  <2>2. CASE Cancel(caller, id)
    BY <1>1, <2>2 DEF Cancel
  <2> QED  BY <2>1, <2>2, ExecuteOutgrows
<1>6. CASE ExecuteReturned \/ ExecuteReverted
  <2>1. UNCHANGED delays /\ running' = <<>>
    BY <1>6 DEF ExecuteReturned, ExecuteReverted, SavedDelays
  <2> QED  BY <2>1 DEF NotOutgrown, SavedDelays
<1> QED  BY <1>1, <1>2, <1>3, <1>4, <1>5, <1>6 DEF Step, Acts

-----------------------------------------------------------------------------
(* The theorems about the authorizer *)

\* The storage of the authorizer, and the one it reverts to, keep their types.
THEOREM TypeCorrect == Spec => []TypeOK
<1>1. IInv => TypeOK
  BY DEF IInv
<1> QED  BY <1>1, Invariance, PTL

LEMMA IInvParts ==
    ASSUME IInv
    PROVE  CoreTyped /\ CoreOK /\ now \in Nat /\ Ids = DOMAIN executions
<1>1. CoreTyped /\ CoreOK /\ now \in Nat
  BY Parts, CoreStorage DEF IInv
<1> QED  BY <1>1 DEF CoreTyped, Ids

\* No scheduled execution is both executed and canceled, whatever its own call does.
THEOREM ExecutionsEndOnce == Spec => []EndsOnce
<1>1. IInv => EndsOnce
  BY IInvParts DEF CoreOK, AllOK, RecordsOK, EndsOnce
<1> QED  BY <1>1, Invariance, PTL

\* Every root after the first was announced by an earlier one and waited for.
THEOREM RootsAreHandedOver == Spec => []RootIsHandedOver
<1>1. IInv => RootIsHandedOver
  <2> SUFFICES ASSUME IInv, NEW i \in 2..Len(roots), ~(i = 2 /\ roots[i] = NextRoot)
               PROVE  \E id \in Ids :
                         LET e == executions[id]
                         IN /\ e.call = [fn |-> "setPendingRoot", account |-> roots[i]]
                            /\ e.executed /\ e.scheduledAt + RootTransferDelay <= e.executedAt
                            /\ \E j \in 1..i - 1 : e.scheduledBy = roots[j]
    BY DEF RootIsHandedOver
  <2>1. Announced(roots[i], i - 1, roots, executions)
    BY IInvParts DEF CoreOK, AllOK, RootsOK
  <2> QED  BY <2>1, IInvParts DEF Announced
<1> QED  BY <1>1, Invariance, PTL

\* No delay is longer than setAuthorizer's, unless that one was lowered.
THEOREM DelaysStayBelowSetAuthorizer == Spec => []NoDelayExceedsSetAuthorizer
<1>1. IInv => NoDelayExceedsSetAuthorizer
  <2> SUFFICES ASSUME IInv, AuthorizerDelayNeverLowered, NEW k \in Kinds, NEW a \in Actions
               PROVE  delays[k][a] <= delays["perform"][SetAuthorizer]
    BY DEF NoDelayExceedsSetAuthorizer
  <2>1. PICK v \in Nat : WasAuthorizerDelay(v, executions) /\ delays[k][a] <= v
    BY IInvParts DEF CoreOK, AllOK, DelaysOK
  <2>2. v <= delays["perform"][SetAuthorizer]
    BY <2>1, IInvParts DEF WasAuthorizerDelay, AuthorizerDelayNeverLowered
  <2>3. delays[k][a] \in Nat /\ delays["perform"][SetAuthorizer] \in Nat
    BY IInvParts, AccountsAssumption DEF CoreTyped, DelaysType, Kinds
  <2> QED  BY <2>1, <2>2, <2>3
<1> QED  BY <1>1, Invariance, PTL

\* Only lowering setAuthorizer's delay leaves another delay longer than it: no change
\* that is executed does, whenever and under whatever delays it was scheduled.
THEOREM ChangesOutgrowNothing == Spec => NoDelayOutgrowsSetAuthorizer
<1>1. Init => SavedDelays
  BY DEF Init, SavedDelays
<1>2. IInv /\ SavedDelays /\ [Next]_vars => SavedDelays' /\ [NotOutgrown]_vars
  <2>1. IInv => TypeOK
    BY DEF IInv
  <2>2. SavedDelays /\ UNCHANGED vars => SavedDelays'
    BY DEF SavedDelays, vars
  <2> QED  BY <2>1, <2>2, NextIsStep, StepOutgrows
<1> QED  BY <1>1, <1>2, Invariance, PTL DEF Spec, NoDelayOutgrowsSetAuthorizer, NotOutgrown

\* Lowering a delay gains no time over scheduling the action under the old one.
THEOREM LoweringGainsNoTime == Spec => []NoShortcut
<1>1. IInv => NoShortcut
  <2> SUFFICES ASSUME IInv, NEW k \in Kinds, NEW a \in Actions, NEW t \in 0..now,
                      ~Stale(k, a, t)
               PROVE  NoticeGiven(k, a, t)
    BY DEF NoShortcut
  <2>1. StaleIn(k, a, t, executions) \/ NoticeKept(k, a, t, now, delayAt, delays, executions)
    BY IInvParts DEF CoreOK, AllOK, NoticesOK
  <2>2. ~StaleIn(k, a, t, executions)
    BY IInvParts DEF StaleIn, Stale
  <2>3. delays[k][a] = 0 => now >= t + delayAt[t][k][a]
    BY <2>1, <2>2, IInvParts DEF NoticeKept
  <2> QED  BY <2>1, <2>2, <2>3, IInvParts DEF NoticeKept, NoticeGiven
<1> QED  BY <1>1, Invariance, PTL

\* Whoever loses a permission or a role has lost it, under a global one too.
THEOREM LossesAreFinal == Spec => RemovalIsEffective
<1>1. IInv /\ [Next]_vars => [LossIsFinal]_vars
  <2>1. IInv => TypeOK
    BY DEF IInv
  <2> QED  BY <2>1, NextIsStep, StepLoss
<1> QED  BY <1>1, Invariance, PTL DEF Spec, RemovalIsEffective, LossIsFinal

-----------------------------------------------------------------------------
(* The client: its steps are steps of the authorizer *)

LEMMA WithType == \A params \in Params \cup {NoParams} : With(params) \in Accounts
BY ClientAssumption DEF With

LEMMA ExecutorTypes == \A executors \in ExecutorLists : ToAddresses(executors) \in SUBSET Accounts
BY ClientAssumption DEF ToAddresses, ToList

LEMMA NoExecutors == ToAddresses({}) \in SUBSET Accounts
BY DEF ToAddresses, ToList

LEMMA DelayMethods ==
    ASSUME NEW params \in Params, NEW a \in Actions, NEW new \in Nat, NEW k \in Kinds,
           \/ k = "perform" /\ CScheduleDelayChange(params, a, new, {})
           \/ k = "grant" /\ CScheduleGrantDelayChange(params, a, new, {})
           \/ k = "revoke" /\ CScheduleRevokeDelayChange(params, a, new, {})
    PROVE  /\ ScheduleDelayChange(With(params), k, a, new, ToAddresses({}))
           /\ Schedules(With(params)) /\ Step
<1>1. ScheduleDelayChange(With(params), k, a, new, ToAddresses({}))
  BY DEF CScheduleDelayChange, CScheduleGrantDelayChange, CScheduleRevokeDelayChange
<1>2. Schedules(With(params))
  BY <1>1, NoExecutors DEF Schedules
<1> QED  BY <1>1, <1>2, WithType DEF Step, Acts

LEMMA MethodsAreSteps ==
    ASSUME NEW params \in Params, MethodNext(params)
    PROVE  Step
<1> DEFINE caller == With(params)
<1>1. caller \in Accounts
  BY WithType
<1>2. ASSUME NEW executors \in ExecutorLists,
             \/ \E newRoot \in NewRoots : CScheduleRootChange(params, newRoot, executors)
             \/ \E a \in Actions, w \in Targets : CSchedule(params, a, w, executors)
             \/ \E p \in Permissions :
                   \/ CScheduleGrantPermission(params, p[1], p[2], p[3], executors)
                   \/ CScheduleRevokePermission(params, p[1], p[2], p[3], executors)
      PROVE  Schedules(caller)
  BY <1>2, InputTypes, ExecutorTypes
     DEF Schedules, CScheduleRootChange, CSchedule, CScheduleGrantPermission,
         CScheduleRevokePermission
<1>3. ASSUME NEW new \in NewDelays, NEW change \in ChangedDelays,
             \/ change[1] = "perform" /\ CScheduleDelayChange(params, change[2], new, {})
             \/ change[1] = "grant" /\ CScheduleGrantDelayChange(params, change[2], new, {})
             \/ change[1] = "revoke" /\ CScheduleRevokeDelayChange(params, change[2], new, {})
      PROVE  Step
  BY <1>3, InputTypes, DelayMethods
<1>4. ASSUME NEW id \in Ids, CExecute(params, id) \/ CCancel(params, id)
      PROVE  Ends(caller)
  BY <1>4 DEF Ends, CExecute, CCancel
<1>5. ASSUME NEW id \in ({GLOBAL_CANCELER} \cup Ids) \cap CancelerIds, NEW u \in Cancelers,
             CAddCanceler(params, id, u) \/ CRemoveCanceler(params, id, u)
      PROVE  ChangesRoles(caller)
  BY <1>5, InputTypes DEF ChangesRoles, CAddCanceler, CRemoveCanceler
<1>6. ASSUME NEW g \in GranterRoles,
             \/ CAddGranter(params, g[1], g[2], g[3])
             \/ CRemoveGranter(params, g[1], g[2], g[3])
      PROVE  ChangesRoles(caller)
  BY <1>6, InputTypes DEF ChangesRoles, CAddGranter, CRemoveGranter
<1>7. ASSUME NEW r \in RevokerRoles,
             CAddRevoker(params, r[1], r[2]) \/ CRemoveRevoker(params, r[1], r[2])
      PROVE  ChangesRoles(caller)
  BY <1>7, InputTypes DEF ChangesRoles, CAddRevoker, CRemoveRevoker
<1>8. ASSUME NEW p \in Permissions,
             \/ CGrantPermission(params, p[1], p[2], p[3])
             \/ CRevokePermission(params, p[1], p[2], p[3])
             \/ CRenouncePermission(params, p[1], p[3])
             \/ CGrantPermissionGlobally(params, p[1], p[2])
             \/ CRevokePermissionGlobally(params, p[1], p[2])
             \/ CRenouncePermissionGlobally(params, p[1])
      PROVE  ChangesRoles(caller)
  BY <1>8, InputTypes
     DEF ChangesRoles, CGrantPermission, CRevokePermission, CRenouncePermission,
         CGrantPermissionGlobally, CRevokePermissionGlobally, CRenouncePermissionGlobally
<1>9. CClaimRoot(params) => ClaimRoot(caller)
  BY DEF CClaimRoot
<1> HIDE DEF caller
<1>10. Acts(caller) => Step
  BY <1>1 DEF Step
<1> QED  BY <1>2, <1>3, <1>4, <1>5, <1>6, <1>7, <1>8, <1>9, <1>10 DEF MethodNext, Acts

-----------------------------------------------------------------------------
(* The method in progress *)

Macro == [stage : {"advance", "execute"}, id : Nat, kind : Kinds, action : Actions, delay : Nat]

\* m waits for the execution that it scheduled, and knows what that does.
MacroIn(m, time, ex) ==
    /\ m.id \in DOMAIN ex
    /\ ex[m.id].call = [fn |-> "setDelay", kind |-> m.kind, action |-> m.action, delay |-> m.delay]
    /\ m.stage = "execute" => ex[m.id].executableAt <= time

MacroOK ==
    \/ macro = <<>>
    \/ \E m \in Macro : /\ macro = <<m>>
                        /\ MacroIn(m, now, executions)
                        /\ running # <<>> => MacroIn(m, now, running[1].saved.executions)

ClientIInv == IInv /\ MacroOK

LEMMA MacroKept ==
    ASSUME NEW m, NEW time \in Nat, NEW time2 \in Nat, time2 >= time,
           NEW ex \in Seq(Execution), NEW ex2, Kept(ex, ex2), MacroIn(m, time, ex)
    PROVE  MacroIn(m, time2, ex2)
<1>1. ex[m.id] \in Execution /\ m.id \in DOMAIN ex
  BY DEF MacroIn
<1>2. ex[m.id].executableAt \in Nat
  BY <1>1 DEF Execution
<1> QED  BY <1>1, <1>2 DEF MacroIn, Kept

\* A step other than a revert keeps the executions, and saves these if any.
LEMMA StepKeeps ==
    ASSUME TypeOK, Step
    PROVE  \/ ExecuteReverted
           \/ /\ Kept(executions, executions') /\ now' \in Nat /\ now' >= now
              /\ \/ running' = running \/ running' = <<>>
                 \/ running' # <<>> /\ running'[1].saved.executions = executions
<1> DEFINE Keeps == /\ Kept(executions, executions') /\ now' \in Nat /\ now' >= now
                    /\ \/ running' = running \/ running' = <<>>
                       \/ running' # <<>> /\ running'[1].saved.executions = executions
<1>1. now \in Nat /\ executions \in Seq(Execution)
  BY Parts DEF CoreTyped
<1>2. Kept(executions, executions)
  BY DEF Kept
<1>3. ASSUME NEW caller \in Accounts, Schedules(caller)
      PROVE  Keeps
  <2>1. PICK e : executions' = Append(executions, e) /\ UNCHANGED <<now, running>>
    BY <1>3 DEF Schedules, ScheduleDelayChange, ScheduleRootChange, Schedule,
                ScheduleGrantPermission, ScheduleRevokePermission, ScheduleWithDelay
  <2>2. Kept(executions, executions')
    BY <1>1, <2>1 DEF Kept
  <2> QED  BY <1>1, <2>1, <2>2
<1>4. ASSUME NEW caller \in Accounts, ChangesRoles(caller) \/ ClaimRoot(caller)
      PROVE  Keeps
  <2>1. UNCHANGED <<now, executions, running>>
    BY <1>4 DEF ChangesRoles, GrantPermission, RevokePermission, RenouncePermission, AddGranter,
                RemoveGranter, AddRevoker, RemoveRevoker, AddCanceler, RemoveCanceler,
                ChangesRolesOnly, ChangesCancelersOnly, ClaimRoot
  <2> QED  BY <1>1, <1>2, <2>1
<1>5. ASSUME NEW caller \in Accounts, Ends(caller)
      PROVE  Keeps
  <2>1. PICK id \in Ids : Execute(caller, id) \/ Cancel(caller, id)
    BY <1>5 DEF Ends
  <2>2. CASE Cancel(caller, id)
    <3>1. /\ Pending(executions[id]) /\ executions' = [executions EXCEPT ![id].canceled = TRUE]
          /\ UNCHANGED <<now, running>>
      BY <2>2 DEF Cancel
    <3>2. id \in DOMAIN executions
      BY <1>1 DEF Ids
    <3>3. Kept(executions, executions')
      BY <1>1, <3>1, <3>2, Canceled
    <3> QED  BY <1>1, <3>1, <3>3
  <2>3. CASE Execute(caller, id)
    <3>1. Kept(executions, executions')
      BY <2>3, ExecuteRecords
    <3>2. now' = now /\ (running' = running \/ running' = <<[id |-> id, saved |-> Storage]>>)
      BY <2>3 DEF Execute, CallOf, SetDelay
    <3>3. running' = <<[id |-> id, saved |-> Storage]>> =>
             running' # <<>> /\ running'[1].saved.executions = executions
      BY DEF Storage
    <3> QED  BY <1>1, <3>1, <3>2, <3>3
  <2> QED  BY <2>1, <2>2, <2>3
<1>6. CASE ExecuteReturned
  BY <1>1, <1>2, <1>6 DEF ExecuteReturned
<1>7. ASSUME NEW t \in Nat, Passes(t)
      PROVE  Keeps
  BY <1>1, <1>2, <1>7 DEF Passes, AdvanceToTimestamp
<1> QED  BY <1>3, <1>4, <1>5, <1>6, <1>7 DEF Step, Acts

\* Other code, between the steps of a method.
LEMMA OthersStep ==
    ASSUME TypeOK, MacroOK, Step, UNCHANGED macro
    PROVE  MacroOK'
<1>1. CASE macro = <<>>
  BY <1>1 DEF MacroOK
<1>2. CASE macro # <<>>
  <2>1. PICK m \in Macro : /\ macro = <<m>>
                           /\ MacroIn(m, now, executions)
                           /\ running # <<>> => MacroIn(m, now, running[1].saved.executions)
    BY <1>2 DEF MacroOK
  <2>2. /\ now \in Nat /\ executions \in Seq(Execution)
        /\ running # <<>> => running[1].saved.executions \in Seq(Execution)
    BY Parts DEF CoreTyped
  <2>3. CASE ExecuteReverted
    <3>1. /\ running # <<>> /\ running' = <<>> /\ now' = now
          /\ executions' = running[1].saved.executions
      BY <2>3 DEF ExecuteReverted
    <3> QED  BY <2>1, <3>1 DEF MacroOK
  <2>4. CASE /\ Kept(executions, executions') /\ now' \in Nat /\ now' >= now
             /\ \/ running' = running \/ running' = <<>>
                \/ running' # <<>> /\ running'[1].saved.executions = executions
    <3>1. MacroIn(m, now', executions')
      BY <2>1, <2>2, <2>4, MacroKept
    <3>2. \A ex : Kept(ex, ex)
      BY DEF Kept
    <3>3. MacroIn(m, now', executions)
      BY <2>1, <2>2, <2>4, <3>2, MacroKept
    <3>4. running # <<>> => MacroIn(m, now', running[1].saved.executions)
      BY <2>1, <2>2, <2>4, <3>2, MacroKept
    <3> QED  BY <2>1, <2>4, <3>1, <3>3, <3>4 DEF MacroOK
  <2> QED  BY <2>3, <2>4, StepKeeps
<1> QED  BY <1>1, <1>2

\* The first step of a method that schedules, waits and executes.
LEMMA MacroBegins ==
    ASSUME TypeOK, running = <<>>, NEW params \in Params, NEW a \in Actions, NEW new \in Nat,
           NEW k \in Kinds, ScheduleDelayChange(With(params), k, a, new, ToAddresses({})),
           macro' = InProgress(k, a, new)
    PROVE  MacroOK'
<1> DEFINE m == [stage |-> "advance", id |-> Len(executions) + 1, kind |-> k, action |-> a,
                 delay |-> new]
           call == [fn |-> "setDelay", kind |-> k, action |-> a, delay |-> new]
<1>1. executions \in Seq(Execution) /\ Len(executions) \in Nat
  BY Parts DEF CoreTyped
<1>2. /\ m \in Macro /\ m.id = Len(executions) + 1 /\ m.stage # "execute"
      /\ call = [fn |-> "setDelay", kind |-> m.kind, action |-> m.action, delay |-> m.delay]
  BY <1>1 DEF Macro
<1>3. macro' = <<m>>
  BY DEF InProgress
<1>4. PICK e : executions' = Append(executions, e) /\ e.call = call /\ running' = running
  BY DEF ScheduleDelayChange, ScheduleWithDelay
<1> HIDE DEF m, call
<1>5. m.id \in DOMAIN executions' /\ executions'[m.id].call = call
  BY <1>1, <1>2, <1>4
<1>6. MacroIn(m, now', executions')
  BY <1>2, <1>5 DEF MacroIn
<1> QED  BY <1>2, <1>3, <1>4, <1>6 DEF MacroOK

LEMMA ClientStep == ClientIInv /\ ClientNext => MacroOK' /\ (Step \/ UNCHANGED vars)
<1> SUFFICES ASSUME ClientIInv, ClientNext
             PROVE  MacroOK' /\ (Step \/ UNCHANGED vars)
  OBVIOUS
<1>1. /\ TypeOK /\ MacroOK /\ now \in Nat /\ executions \in Seq(Execution)
  BY Parts DEF ClientIInv, IInv, CoreTyped
<1>2. ASSUME Step, UNCHANGED macro
      PROVE  MacroOK' /\ Step
  BY <1>1, <1>2, OthersStep
<1>3. ASSUME NEW params \in Params, MethodNext(params), UNCHANGED macro
      PROVE  MacroOK' /\ Step
  BY <1>2, <1>3, MethodsAreSteps
<1>4. CASE Tick /\ UNCHANGED macro
  BY <1>1, <1>2, <1>4, TickIsStep
<1>5. CASE /\ ScheduleNext \/ PermissionNext \/ ExecutionNext \/ RoleNext
           /\ UNCHANGED macro
  BY <1>2, <1>5, ScheduleNextIsStep, PermissionNextIsStep, ExecutionNextIsStep, RoleNextIsStep
<1>6. ASSUME running = <<>>, NEW params \in Params, NEW change \in ChangedDelays,
             NEW new \in NewDelays,
             \/ change[1] = "perform" /\ ScheduleAndExecuteDelayChange(params, change[2], new)
             \/ change[1] = "grant" /\ ScheduleAndExecuteGrantDelayChange(params, change[2], new)
             \/ change[1] = "revoke" /\ ScheduleAndExecuteRevokeDelayChange(params, change[2], new)
      PROVE  MacroOK' /\ Step
  <2>1. change[1] \in Kinds /\ change[2] \in Actions /\ new \in Nat
    BY InputTypes
  <2>2. /\ macro' = InProgress(change[1], change[2], new)
        /\ \/ change[1] = "perform" /\ CScheduleDelayChange(params, change[2], new, {})
           \/ change[1] = "grant" /\ CScheduleGrantDelayChange(params, change[2], new, {})
           \/ change[1] = "revoke" /\ CScheduleRevokeDelayChange(params, change[2], new, {})
    BY <1>6 DEF ScheduleAndExecuteDelayChange, ScheduleAndExecuteGrantDelayChange,
                ScheduleAndExecuteRevokeDelayChange
  <2>3. /\ ScheduleDelayChange(With(params), change[1], change[2], new, ToAddresses({}))
        /\ Step
    BY <2>1, <2>2, DelayMethods
  <2> QED  BY <1>1, <1>6, <2>1, <2>2, <2>3, MacroBegins
<1>7. CASE running = <<>> /\ MacroAdvances
  <2>1. PICK m \in Macro : macro = <<m>> /\ MacroIn(m, now, executions)
    BY <1>1, <1>7 DEF MacroOK, MacroAdvances
  <2>2. executions[m.id] \in Execution /\ executions[m.id].executableAt \in Nat
    <3>1. executions[m.id] \in Execution
      BY <1>1, <2>1 DEF MacroIn
    <3> QED  BY <3>1 DEF Execution
  <2> DEFINE t == executions[m.id].executableAt
  <2>3. AdvanceToTimestamp(t) /\ macro' = <<[m EXCEPT !.stage = "execute"]>>
    BY <1>7, <2>1 DEF MacroAdvances, ExecutableAt, GetScheduledExecution
  <2> DEFINE m2 == [m EXCEPT !.stage = "execute"]
  <2>4. m2 \in Macro /\ m2.id = m.id /\ m2.kind = m.kind /\ m2.action = m.action /\ m2.delay = m.delay
    BY DEF Macro
  <2>5. now' = t /\ executions' = executions /\ running' = <<>>
    BY <1>7, <2>3 DEF AdvanceToTimestamp
  <2>6. MacroIn(m2, now', executions')
    BY <2>1, <2>2, <2>4, <2>5 DEF MacroIn
  <2>7. MacroOK'
    BY <2>3, <2>4, <2>5, <2>6 DEF MacroOK
  <2>8. Step
    BY <1>7, <2>2, <2>3 DEF Step, Passes
  <2> QED  BY <2>7, <2>8
<1>8. CASE running = <<>> /\ MacroExecutes
  <2>1. PICK m \in Macro : macro = <<m>> /\ MacroIn(m, now, executions)
    BY <1>1, <1>8 DEF MacroOK, MacroExecutes
  <2>2. Execute(With(NoParams), m.id) /\ macro' = <<>>
    BY <1>8, <2>1 DEF MacroExecutes, CExecute
  <2>3. m.id \in Ids
    BY <1>1, <2>1 DEF MacroIn, Ids
  <2>4. Step
    BY <2>2, <2>3, WithType DEF Step, Acts, Ends
  <2> QED  BY <2>2, <2>4 DEF MacroOK
<1>9. CASE MacroFails
  BY <1>9 DEF MacroFails, MacroOK
<1> QED  BY <1>3, <1>4, <1>5, <1>6, <1>7, <1>8, <1>9 DEF ClientNext, MacroNext

LEMMA ClientInvariance == ClientSpec => []ClientIInv
<1>1. ClientInit => ClientIInv
  BY InitIInv DEF ClientInit, ClientIInv, MacroOK
<1>2. ClientIInv /\ [ClientNext]_clientVars => ClientIInv'
  <2> SUFFICES ASSUME ClientIInv, [ClientNext]_clientVars
               PROVE  ClientIInv'
    OBVIOUS
  <2>1. CASE ClientNext
    <3>1. MacroOK' /\ (Step \/ UNCHANGED vars)
      BY <2>1, ClientStep
    <3>2. IInv'
      BY <3>1, StepIInv, StutterIInv DEF ClientIInv
    <3> QED  BY <3>1, <3>2 DEF ClientIInv
  <2>2. CASE UNCHANGED clientVars
    <3>1. UNCHANGED vars /\ macro' = macro
      BY <2>2 DEF clientVars
    <3>2. IInv'
      BY <3>1, StutterIInv DEF ClientIInv
    <3>3. MacroOK'
      BY <3>1 DEF ClientIInv, MacroOK, vars
    <3> QED  BY <3>2, <3>3 DEF ClientIInv
  <2> QED  BY <2>1, <2>2
<1> QED  BY <1>1, <1>2, PTL DEF ClientSpec

-----------------------------------------------------------------------------
(* The theorems about the client *)

\* Through the client too, no execution is both executed and canceled.
THEOREM ClientExecutionsEndOnce == ClientSpec => []EndsOnce
<1>1. ClientIInv => EndsOnce
  BY IInvParts DEF ClientIInv, CoreOK, AllOK, RecordsOK, EndsOnce
<1> QED  BY <1>1, ClientInvariance, PTL

\* Through the client too, a loss is final.
THEOREM ClientLossesAreFinal == ClientSpec => RemovalIsEffective
<1>1. ClientIInv /\ [ClientNext]_clientVars => [LossIsFinal]_vars
  BY ClientStep, StepLoss DEF clientVars
<1> QED  BY <1>1, ClientInvariance, PTL DEF ClientSpec, RemovalIsEffective, LossIsFinal

\* The action of MacroTakesEffect.
MacroEnds ==
    macro # <<>> /\ macro' = <<>> =>
        LET m == macro[1]
        IN \/ /\ delays'[m.kind][m.action] = m.delay
              /\ ExecutedNow(m.id) /\ ChangesDelay(executions[m.id], m.kind, m.action)
           \/ ~Pending(executions[m.id])
           \/ m.stage = "advance" /\ now >= executions[m.id].executableAt
           \/ ~MaySetDelay(m.kind, m.action, m.delay)

\* A method that schedules, waits and executes a delay change has set that delay when it
\* is done, whatever other code ran between its steps.
THEOREM MacrosTakeEffect == ClientSpec => MacroTakesEffect
<1>1. ASSUME ClientIInv, MacroFails \/ (running = <<>> /\ MacroExecutes)
      PROVE  MacroEnds
  <2>1. /\ now \in Nat /\ executions \in Seq(Execution) /\ delays \in DelaysType /\ TypeOK
    BY <1>1, Parts DEF ClientIInv, IInv, CoreTyped
  <2>2. PICK m \in Macro : macro = <<m>> /\ MacroIn(m, now, executions)
    BY <1>1 DEF ClientIInv, MacroOK, MacroFails, MacroExecutes
  <2>3. m.kind \in Kinds /\ m.action \in Actions /\ m.delay \in Nat /\ macro[1] = m
    BY <2>2 DEF Macro
  <2>4. /\ m.id \in Ids /\ executions[m.id] \in Execution
        /\ executions[m.id].call = [fn |-> "setDelay", kind |-> m.kind, action |-> m.action,
                                    delay |-> m.delay]
    BY <2>1, <2>2 DEF MacroIn, Ids
  <2>5. executions[m.id].executableAt \in Nat
    BY <2>4 DEF Execution
  <2>6. CASE MacroFails
    <3>1. CASE m.stage = "advance" /\ ExecutableAt(m.id) <= now
      BY <2>1, <2>3, <2>5, <3>1 DEF MacroEnds, ExecutableAt, GetScheduledExecution
    <3>2. CASE m.stage = "execute" /\ (~CanExecute(m.id) \/ ~MaySetDelay(m.kind, m.action, m.delay))
      <4>1. executions[m.id].executableAt <= now
        BY <2>2, <3>2 DEF MacroIn
      <4> QED  BY <2>1, <2>3, <2>5, <3>2, <4>1 DEF MacroEnds, CanExecute
    <3> QED  BY <2>3, <2>6, <3>1, <3>2 DEF MacroFails
  <2>7. CASE MacroExecutes
    <3>1. Execute(With(NoParams), m.id)
      BY <2>3, <2>7 DEF MacroExecutes, CExecute
    <3>2. delays' = [delays EXCEPT ![m.kind][m.action] = m.delay]
      BY <2>4, <3>1 DEF Execute, CallOf, SetDelay
    <3>3. delays'[m.kind][m.action] = m.delay
      BY <2>1, <2>3, <3>2 DEF DelaysType
    <3>4. ~executions[m.id].executed
      BY <3>1 DEF Execute, CanExecute, Pending
    <3>5. Ended(executions, m.id, executions', TRUE, FALSE, now) /\ m.id \in DOMAIN executions
      BY <2>1, <2>4, <3>1, ExecuteRecords
    <3>6. ExecutedNow(m.id)
      BY <3>4, <3>5 DEF ExecutedNow, Ended
    <3>7. ChangesDelay(executions[m.id], m.kind, m.action)
      BY <2>4 DEF ChangesDelay
    <3> QED  BY <2>3, <3>3, <3>6, <3>7 DEF MacroEnds
  <2> QED  BY <1>1, <2>6, <2>7
<1>2. ClientIInv /\ [ClientNext]_clientVars => [MacroEnds]_clientVars
  <2> SUFFICES ASSUME ClientIInv, ClientNext, macro # <<>>, macro' = <<>>
               PROVE  MacroEnds
    BY DEF MacroEnds
  <2>1. MacroFails \/ (running = <<>> /\ MacroExecutes)
    BY DEF ClientNext, MacroNext, MacroAdvances
  <2> QED  BY <1>1, <2>1
<1> QED  BY <1>2, ClientInvariance, PTL DEF ClientSpec, MacroTakesEffect, MacroEnds
=============================================================================
