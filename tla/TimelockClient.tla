---------------------------- MODULE TimelockClient ----------------------------
(***************************************************************************)
(* The TimelockAuthorizer as tests and scripts use it, through the class     *)
(* TimelockAuthorizer of pvt/helpers. A method sends one transaction, from     *)
(* the signer in its params or else from the default one, and is one step;    *)
(* the methods scheduleAndExecute...DelayChange send two, and move the clock   *)
(* in between, so that other code, when it does not await them, runs between  *)
(* their steps.                                                            *)
(*                                                                         *)
(* An account is its address. What a call of the authorizer calls while it    *)
(* executes is the code of other contracts, as in TimelockAuthorizer.        *)
(***************************************************************************)
EXTENDS TimelockAuthorizer

CONSTANTS
    DefaultSigner,      \* whose transactions `instance` sends
    ExecutorLists,      \* executors as methods are given them: an account, or several
    Params,             \* the signers that methods are given, or NoParams
    NoParams

ASSUME ClientAssumption ==
    /\ DefaultSigner \in Accounts /\ NoParams \notin Accounts
    /\ Params \subseteq Accounts \cup {NoParams}
    /\ ExecutorLists \subseteq Accounts \cup SUBSET Accounts

VARIABLE macro      \* the scheduleAndExecute...DelayChange in progress
clientVars == <<vars, macro>>

-----------------------------------------------------------------------------
(* The parameters of the methods *)

With(params) == IF params = NoParams THEN DefaultSigner ELSE params

\* One executor, or a list of them.
ToList(items) == IF items \in Accounts THEN {items} ELSE items
ToAddresses(accounts) == ToList(accounts)

\* The waiting time and the result of what is scheduled.
GetScheduledExecution(id) == executions[id]

-----------------------------------------------------------------------------
(* The methods *)

CScheduleRootChange(params, newRoot, executors) ==
    ScheduleRootChange(With(params), newRoot, ToAddresses(executors))
CClaimRoot(params) == ClaimRoot(With(params))

CScheduleDelayChange(params, a, delay, executors) ==
    ScheduleDelayChange(With(params), "perform", a, delay, ToAddresses(executors))
CScheduleGrantDelayChange(params, a, delay, executors) ==
    ScheduleDelayChange(With(params), "grant", a, delay, ToAddresses(executors))
CScheduleRevokeDelayChange(params, a, delay, executors) ==
    ScheduleDelayChange(With(params), "revoke", a, delay, ToAddresses(executors))

CSchedule(params, a, w, executors) == Schedule(With(params), a, w, ToAddresses(executors))
CScheduleGrantPermission(params, a, u, w, executors) ==
    ScheduleGrantPermission(With(params), a, u, w, ToAddresses(executors))
CScheduleRevokePermission(params, a, u, w, executors) ==
    ScheduleRevokePermission(With(params), a, u, w, ToAddresses(executors))

CExecute(params, id) == Execute(With(params), id)
CCancel(params, id) == Cancel(With(params), id)
CAddCanceler(params, id, u) == AddCanceler(With(params), id, u)
CRemoveCanceler(params, id, u) == RemoveCanceler(With(params), id, u)
CAddGranter(params, a, u, w) == AddGranter(With(params), a, u, w)
CRemoveGranter(params, a, u, w) == RemoveGranter(With(params), a, u, w)
CAddRevoker(params, u, w) == AddRevoker(With(params), u, w)
CRemoveRevoker(params, u, w) == RemoveRevoker(With(params), u, w)

CGrantPermission(params, a, u, w) == GrantPermission(With(params), a, u, w)
CRevokePermission(params, a, u, w) == RevokePermission(With(params), a, u, w)
CRenouncePermission(params, a, w) == RenouncePermission(With(params), a, w)
CGrantPermissionGlobally(params, a, u) == GrantPermission(With(params), a, u, EVERYWHERE)
CRevokePermissionGlobally(params, a, u) == RevokePermission(With(params), a, u, EVERYWHERE)
CRenouncePermissionGlobally(params, a) == RenouncePermission(With(params), a, EVERYWHERE)

-----------------------------------------------------------------------------
(* The methods that schedule, wait and execute *)

InProgress(k, a, delay) ==
    <<[stage |-> "advance", id |-> Len(executions) + 1, kind |-> k, action |-> a, delay |-> delay]>>

ScheduleAndExecuteDelayChange(params, a, delay) ==
    CScheduleDelayChange(params, a, delay, {}) /\ macro' = InProgress("perform", a, delay)
ScheduleAndExecuteGrantDelayChange(params, a, delay) ==
    CScheduleGrantDelayChange(params, a, delay, {}) /\ macro' = InProgress("grant", a, delay)
ScheduleAndExecuteRevokeDelayChange(params, a, delay) ==
    CScheduleRevokeDelayChange(params, a, delay, {}) /\ macro' = InProgress("revoke", a, delay)

\* Mutant: the wait is the minimum, whatever the change.
ExecutableAtTheEarliest(id) == GetScheduledExecution(id).scheduledAt + MinChangeDelay
ExecutableAt(id) == GetScheduledExecution(id).executableAt

\* advanceToTimestamp mines a block of that time.
AdvanceToTimestamp(t) ==
    /\ t > now
    /\ now' = t
    /\ delayAt' = [s \in 0..t |-> IF s > now THEN delays ELSE delayAt[s]]
    /\ UNCHANGED <<root, pendingRoot, roleVars, cancelers, delays, executions, running, roots>>

MacroAdvances ==
    /\ macro # <<>> /\ macro[1].stage = "advance"
    /\ ExecutableAt(macro[1].id) <= MaxTime
    /\ AdvanceToTimestamp(ExecutableAt(macro[1].id))
    /\ macro' = <<[macro[1] EXCEPT !.stage = "execute"]>>

\* The transaction of the default signer, whoever scheduled.
MacroExecutes ==
    /\ macro # <<>> /\ macro[1].stage = "execute"
    /\ CExecute(NoParams, macro[1].id)
    /\ macro' = <<>>

\* The clock is past that time already, or the execution reverts: the promise rejects.
MacroFails ==
    /\ macro # <<>>
    /\ LET m == macro[1]
       IN \/ m.stage = "advance" /\ ExecutableAt(m.id) <= now
          \/ /\ m.stage = "execute"
             /\ ~CanExecute(m.id) \/ ~MaySetDelay(m.kind, m.action, m.delay)
    /\ macro' = <<>>
    /\ UNCHANGED vars

-----------------------------------------------------------------------------
ClientInit == Init /\ macro = <<>>

MethodNext(params) ==
    \/ \E executors \in ExecutorLists :
          \/ \E newRoot \in NewRoots : CScheduleRootChange(params, newRoot, executors)
          \/ \E a \in Actions, w \in Targets : CSchedule(params, a, w, executors)
          \/ \E p \in Permissions :
                \/ CScheduleGrantPermission(params, p[1], p[2], p[3], executors)
                \/ CScheduleRevokePermission(params, p[1], p[2], p[3], executors)
    \/ \E new \in NewDelays, change \in ChangedDelays :
          \/ change[1] = "perform" /\ CScheduleDelayChange(params, change[2], new, {})
          \/ change[1] = "grant" /\ CScheduleGrantDelayChange(params, change[2], new, {})
          \/ change[1] = "revoke" /\ CScheduleRevokeDelayChange(params, change[2], new, {})
    \/ CClaimRoot(params)
    \/ \E id \in Ids : CExecute(params, id) \/ CCancel(params, id)
    \/ \E id \in ({GLOBAL_CANCELER} \cup Ids) \cap CancelerIds, u \in Cancelers :
          CAddCanceler(params, id, u) \/ CRemoveCanceler(params, id, u)
    \/ \E g \in GranterRoles :
          CAddGranter(params, g[1], g[2], g[3]) \/ CRemoveGranter(params, g[1], g[2], g[3])
    \/ \E r \in RevokerRoles : CAddRevoker(params, r[1], r[2]) \/ CRemoveRevoker(params, r[1], r[2])
    \/ \E p \in Permissions :
          \/ CGrantPermission(params, p[1], p[2], p[3])
          \/ CRevokePermission(params, p[1], p[2], p[3])
          \/ CRenouncePermission(params, p[1], p[3])
          \/ CGrantPermissionGlobally(params, p[1], p[2])
          \/ CRevokePermissionGlobally(params, p[1], p[2])
          \/ CRenouncePermissionGlobally(params, p[1])

MacroNext ==
    \/ /\ macro = <<>>
       /\ \E params \in Params, change \in ChangedDelays, new \in NewDelays :
             \/ change[1] = "perform" /\ ScheduleAndExecuteDelayChange(params, change[2], new)
             \/ change[1] = "grant" /\ ScheduleAndExecuteGrantDelayChange(params, change[2], new)
             \/ change[1] = "revoke" /\ ScheduleAndExecuteRevokeDelayChange(params, change[2], new)
    \/ MacroAdvances
    \/ MacroExecutes
    \/ MacroFails

\* A transaction is over before the next one begins; the code that an execution calls
\* may be any.
ClientNext ==
    \/ running = <<>> /\ MacroNext
    \/ running = <<>> /\ \E params \in Params : MethodNext(params) /\ UNCHANGED macro
    \/ Tick /\ UNCHANGED macro
    \/ running # <<>> /\ (ScheduleNext \/ PermissionNext \/ ExecutionNext \/ RoleNext) /\ UNCHANGED macro

ClientSpec == ClientInit /\ [][ClientNext]_clientVars

-----------------------------------------------------------------------------
(* Properties *)

\* A method that schedules, waits and executes has set the delay when it is done,
\* whatever ran in between: it fails only when somebody else ended its execution or
\* moved the clock that far, or when the delay would exceed setAuthorizer's.
MacroTakesEffect ==
    [][macro # <<>> /\ macro' = <<>> =>
          LET m == macro[1]
          IN \/ /\ delays'[m.kind][m.action] = m.delay
                /\ ExecutedNow(m.id) /\ ChangesDelay(executions[m.id], m.kind, m.action)
             \/ ~Pending(executions[m.id])
             \/ m.stage = "advance" /\ now >= executions[m.id].executableAt
             \/ ~MaySetDelay(m.kind, m.action, m.delay)]_clientVars
===============================================================================
