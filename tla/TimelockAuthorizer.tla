------------------------ MODULE TimelockAuthorizer ------------------------
(***************************************************************************)
(* The TimelockAuthorizer: who may perform which permissioned action of    *)
(* the protocol, where, and after which delay.  An action, the granting    *)
(* and the revoking of its permission each have a delay.  What has a delay *)
(* cannot be done directly: it is scheduled, waits, and is then executed   *)
(* through the TimelockExecutionHelper, unless it is canceled first.       *)
(* Changing a delay and the root are themselves scheduled executions.      *)
(*                                                                         *)
(* A function of the authorizer is one step.  Only `execute` calls other   *)
(* code, and only for an execution of an external action; that code runs   *)
(* between Execute and ExecuteReturned and may call the authorizer, or     *)
(* revert, which restores what the transaction began with.                 *)
(*                                                                         *)
(* Events, the views and the AuthorizerAdaptor's exception in canPerform   *)
(* are left out.                                                           *)
(***************************************************************************)
EXTENDS Integers, Sequences, FiniteSets

CONSTANTS
    Accounts,
    Helper,             \* the TimelockExecutionHelper
    NoAccount,          \* address(0)
    Actions,            \* action ids
    SetAuthorizer,      \* the action id of the Vault's setAuthorizer
    Targets,            \* contracts with permissioned functions
    EVERYWHERE,
    InitialRoot, NextRoot,
    RootTransferDelay,
    MinChangeDelay,     \* MINIMUM_CHANGE_DELAY_EXECUTION_DELAY
    MaxDelay,           \* MAX_DELAY
    InitialDelays,      \* the delays governance set before the first step
    \* The inputs callers choose from.
    ChangedDelays,      \* <<kind, action>>: the delays that root changes
    NewDelays,          \* and the values it changes them to
    NewRoots,
    Permissions,        \* <<action, account, where>>
    GranterRoles,       \* <<action, account, where>>
    RevokerRoles,       \* <<account, where>>
    Cancelers,          \* accounts root makes cancelers
    CancelerIds,        \* bound: the executions, or all of them, for which it does
    ExecutorSets,       \* {}: anybody may execute
    MaxTime, MaxExecutions  \* bounds of the instance

\* What a delay is of: performing an action, granting it, revoking it.
Kinds == {"perform", "grant", "revoke"}

\* GLOBAL_CANCELER_SCHEDULED_EXECUTION_ID: no execution has this id.
GLOBAL_CANCELER == 0

ASSUME AccountsAssumption ==
    /\ Helper \notin Accounts /\ NoAccount \notin Accounts
    /\ {InitialRoot, NextRoot} \subseteq Accounts
    /\ NewRoots \subseteq Accounts /\ Cancelers \subseteq Accounts
    /\ ExecutorSets \subseteq SUBSET Accounts
    /\ EVERYWHERE \notin Targets /\ SetAuthorizer \in Actions
    /\ Permissions \subseteq Actions \X Accounts \X (Targets \cup {EVERYWHERE})
    /\ GranterRoles \subseteq Actions \X Accounts \X (Targets \cup {EVERYWHERE})
    /\ RevokerRoles \subseteq Accounts \X (Targets \cup {EVERYWHERE})
    /\ ChangedDelays \subseteq Kinds \X Actions

ASSUME DelaysAssumption ==
    /\ RootTransferDelay \in Nat /\ MaxDelay \in Nat
    /\ MinChangeDelay \in Nat \ {0}
    /\ NewDelays \subseteq Nat
    /\ InitialDelays \in [Kinds -> [Actions -> Nat]]
    /\ \A k \in Kinds, a \in Actions :
          InitialDelays[k][a] <= InitialDelays["perform"][SetAuthorizer]

VARIABLES
    now,            \* block.timestamp
    root, pendingRoot,
    granted,        \* _isPermissionGranted
    granters,       \* _isGranter
    revokers,       \* _isRevoker
    cancelers,      \* _isCanceler: <<execution id, account>>
    delays,         \* _delaysPerActionId, _grantDelays, _revokeDelays
    executions,     \* _scheduledExecutions
    running,        \* the execution whose call is in progress
    roots,          \* history: the roots so far
    delayAt         \* history: the delays when the clock reached a time

roleVars == <<granted, granters, revokers>>
vars == <<now, root, pendingRoot, roleVars, cancelers, delays, executions,
          running, roots, delayAt>>

\* Everything a revert restores.
Storage == [root |-> root, pendingRoot |-> pendingRoot, granted |-> granted,
            granters |-> granters, revokers |-> revokers, cancelers |-> cancelers,
            delays |-> delays, executions |-> executions, roots |-> roots]

-----------------------------------------------------------------------------
(* Roles and permissions *)

Everywhere(w) == {w, EVERYWHERE}

HasPermission(a, u, w) == \E v \in Everywhere(w) : <<a, u, v>> \in granted
IsGranter(a, u, w) == u = root \/ \E v \in Everywhere(w) : <<a, u, v>> \in granters
IsRevoker(u, w) == u = root \/ \E v \in Everywhere(w) : <<u, v>> \in revokers
IsCanceler(id, u) == u = root \/ \E i \in {id, GLOBAL_CANCELER} : <<i, u>> \in cancelers

CanPerform(a, u, w) ==
    IF delays["perform"][a] = 0 THEN HasPermission(a, u, w) ELSE u = Helper

-----------------------------------------------------------------------------
(* Scheduling *)

Ids == 1..Len(executions)
Pending(e) == ~e.executed /\ ~e.canceled

\* The scheduler becomes a canceler of what it scheduled, unless it is one.
CancelersAfterSchedule(caller) ==
    LET id == Len(executions) + 1
    IN IF IsCanceler(id, caller) THEN cancelers ELSE cancelers \cup {<<id, caller>>}

ScheduleWithDelay(caller, call, delay, executors) ==
    /\ Len(executions) < MaxExecutions
    /\ executions' = Append(executions,
          [call |-> call, executors |-> executors, scheduledBy |-> caller,
           scheduledAt |-> now, executableAt |-> now + delay,
           executed |-> FALSE, canceled |-> FALSE, executedAt |-> 0])
    /\ UNCHANGED <<now, root, pendingRoot, roleVars, delays, running, roots, delayAt>>

\* Mutant: a change always waits for the minimum only.
DelayChangeExecutionDelayMinimum(current, new) == MinChangeDelay

DelayChangeExecutionDelay(current, new) ==
    IF new < current /\ current - new > MinChangeDelay
    THEN current - new ELSE MinChangeDelay

\* scheduleDelayChange, scheduleGrantDelayChange, scheduleRevokeDelayChange.
ScheduleDelayChange(caller, k, a, new, executors) ==
    /\ caller = root
    /\ new <= MaxDelay
    /\ ScheduleWithDelay(caller, [fn |-> "setDelay", kind |-> k, action |-> a, delay |-> new],
                         DelayChangeExecutionDelay(delays[k][a], new), executors)
    /\ UNCHANGED cancelers

\* Mutant: the caller is not checked.
ScheduleRootChangeByAnyone(caller, newRoot, executors) ==
    /\ ScheduleWithDelay(caller, [fn |-> "setPendingRoot", account |-> newRoot],
                         RootTransferDelay, executors)
    /\ UNCHANGED cancelers

ScheduleRootChange(caller, newRoot, executors) ==
    /\ caller = root
    /\ ScheduleWithDelay(caller, [fn |-> "setPendingRoot", account |-> newRoot],
                         RootTransferDelay, executors)
    /\ UNCHANGED cancelers

\* An action of another contract: `schedule` refuses the authorizer and the
\* helper as targets.
Schedule(caller, a, w, executors) ==
    /\ HasPermission(a, caller, w)
    /\ delays["perform"][a] > 0
    /\ ScheduleWithDelay(caller, [fn |-> "perform", action |-> a, where |-> w],
                         delays["perform"][a], executors)
    /\ cancelers' = CancelersAfterSchedule(caller)

ScheduleGrantPermission(caller, a, u, w, executors) ==
    /\ IsGranter(a, caller, w)
    /\ delays["grant"][a] > 0
    /\ ScheduleWithDelay(caller, [fn |-> "grant", action |-> a, account |-> u, where |-> w],
                         delays["grant"][a], executors)
    /\ cancelers' = CancelersAfterSchedule(caller)

ScheduleRevokePermission(caller, a, u, w, executors) ==
    /\ IsRevoker(caller, w)
    /\ delays["revoke"][a] > 0
    /\ ScheduleWithDelay(caller, [fn |-> "revoke", action |-> a, account |-> u, where |-> w],
                         delays["revoke"][a], executors)
    /\ cancelers' = CancelersAfterSchedule(caller)

-----------------------------------------------------------------------------
(* Granting and revoking: by a caller, or by the helper for an execution *)

Grant(sender, a, u, w) ==
    /\ IF delays["grant"][a] = 0 THEN IsGranter(a, sender, w) ELSE sender = Helper
    /\ ~HasPermission(a, u, w)
    /\ granted' = granted \cup {<<a, u, w>>}
    /\ UNCHANGED <<granters, revokers>>

\* Mutant: a permission over one contract is taken from one who has it
\* everywhere.
RevokeUnderGlobal(a, u, w) ==
    /\ HasPermission(a, u, w)
    /\ granted' = granted \ {<<a, u, w>>}
    /\ UNCHANGED <<granters, revokers>>

\* _revokePermission.
Revoke(a, u, w) ==
    /\ HasPermission(a, u, w)
    /\ <<a, u, EVERYWHERE>> \in granted => w = EVERYWHERE
    /\ granted' = granted \ {<<a, u, w>>}
    /\ UNCHANGED <<granters, revokers>>

RevokeBy(sender, a, u, w) ==
    /\ IF delays["revoke"][a] = 0 THEN IsRevoker(sender, w) ELSE sender = Helper
    /\ Revoke(a, u, w)

ChangesRolesOnly ==
    UNCHANGED <<now, root, pendingRoot, cancelers, delays, executions,
                running, roots, delayAt>>

GrantPermission(caller, a, u, w) == Grant(caller, a, u, w) /\ ChangesRolesOnly
RevokePermission(caller, a, u, w) == RevokeBy(caller, a, u, w) /\ ChangesRolesOnly
RenouncePermission(caller, a, w) == Revoke(a, caller, w) /\ ChangesRolesOnly

-----------------------------------------------------------------------------
(* Executing and canceling *)

CanExecute(id) == Pending(executions[id]) /\ now >= executions[id].executableAt

\* setDelay does not compare setAuthorizer's delay with itself; setGrantDelay
\* and setRevokeDelay compare every action's.
MaySetDelay(k, a, new) ==
    k # "perform" \/ a # SetAuthorizer => new <= delays["perform"][SetAuthorizer]

\* Mutant: a new delay is compared with what setAuthorizer's delay was when the
\* change was scheduled.
SetDelayAsScheduled(id, call) ==
    /\ call.kind # "perform" \/ call.action # SetAuthorizer
          => call.delay <= delayAt[executions[id].scheduledAt]["perform"][SetAuthorizer]
    /\ delays' = [delays EXCEPT ![call.kind][call.action] = call.delay]
    /\ UNCHANGED <<pendingRoot, roleVars, running>>

SetDelay(id, call) ==
    /\ MaySetDelay(call.kind, call.action, call.delay)
    /\ delays' = [delays EXCEPT ![call.kind][call.action] = call.delay]
    /\ UNCHANGED <<pendingRoot, roleVars, running>>

\* What the helper's call does: it fails with the function called.
CallOf(id, call) ==
    \/ call.fn = "setDelay" /\ SetDelay(id, call)
    \/ /\ call.fn = "setPendingRoot"
       /\ pendingRoot' = call.account
       /\ UNCHANGED <<delays, roleVars, running>>
    \/ /\ call.fn = "grant"
       /\ Grant(Helper, call.action, call.account, call.where)
       /\ UNCHANGED <<pendingRoot, delays, running>>
    \/ /\ call.fn = "revoke"
       /\ RevokeBy(Helper, call.action, call.account, call.where)
       /\ UNCHANGED <<pendingRoot, delays, running>>
    \/ /\ call.fn = "perform"
       /\ CanPerform(call.action, Helper, call.where)
       /\ running' = <<[id |-> id, saved |-> Storage]>>
       /\ UNCHANGED <<pendingRoot, delays, roleVars>>

\* The helper is nonReentrant: no execution during another one.
Execute(caller, id) ==
    /\ running = <<>>
    /\ CanExecute(id)
    /\ executions[id].executors # {} => caller \in executions[id].executors
    /\ executions' = [executions EXCEPT ![id].executed = TRUE, ![id].executedAt = now]
    /\ CallOf(id, executions[id].call)
    /\ UNCHANGED <<now, root, cancelers, roots, delayAt>>

ExecuteReturned ==
    /\ running # <<>>
    /\ running' = <<>>
    /\ UNCHANGED <<now, root, pendingRoot, roleVars, cancelers, delays,
                   executions, roots, delayAt>>

ExecuteReverted ==
    /\ running # <<>>
    /\ running' = <<>>
    /\ LET saved == running[1].saved
       IN /\ root' = saved.root /\ pendingRoot' = saved.pendingRoot
          /\ granted' = saved.granted /\ granters' = saved.granters
          /\ revokers' = saved.revokers /\ cancelers' = saved.cancelers
          /\ delays' = saved.delays /\ executions' = saved.executions
          /\ roots' = saved.roots
    /\ UNCHANGED <<now, delayAt>>

\* Mutant: what was executed can be canceled.
CancelExecuted(caller, id) ==
    /\ ~executions[id].canceled
    /\ IsCanceler(id, caller)
    /\ executions' = [executions EXCEPT ![id].canceled = TRUE]
    /\ UNCHANGED <<now, root, pendingRoot, roleVars, cancelers, delays,
                   running, roots, delayAt>>

Cancel(caller, id) ==
    /\ Pending(executions[id])
    /\ IsCanceler(id, caller)
    /\ executions' = [executions EXCEPT ![id].canceled = TRUE]
    /\ UNCHANGED <<now, root, pendingRoot, roleVars, cancelers, delays,
                   running, roots, delayAt>>

-----------------------------------------------------------------------------
(* Roles that only root gives and takes, and the root itself *)

ChangesCancelersOnly ==
    UNCHANGED <<now, root, pendingRoot, roleVars, delays, executions,
                running, roots, delayAt>>

AddCanceler(caller, id, u) ==
    /\ caller = root
    /\ ~IsCanceler(id, u)
    /\ id # GLOBAL_CANCELER => id \in Ids /\ Pending(executions[id])
    /\ cancelers' = cancelers \cup {<<id, u>>}
    /\ ChangesCancelersOnly

RemoveCanceler(caller, id, u) ==
    /\ caller = root /\ u # root
    /\ IsCanceler(id, u)
    /\ <<GLOBAL_CANCELER, u>> \in cancelers => id = GLOBAL_CANCELER
    /\ cancelers' = cancelers \ {<<id, u>>}
    /\ ChangesCancelersOnly

AddGranter(caller, a, u, w) ==
    /\ caller = root
    /\ ~IsGranter(a, u, w)
    /\ granters' = granters \cup {<<a, u, w>>}
    /\ UNCHANGED <<granted, revokers>> /\ ChangesRolesOnly

RemoveGranter(caller, a, u, w) ==
    /\ caller = root /\ u # root
    /\ IsGranter(a, u, w)
    /\ <<a, u, EVERYWHERE>> \in granters => w = EVERYWHERE
    /\ granters' = granters \ {<<a, u, w>>}
    /\ UNCHANGED <<granted, revokers>> /\ ChangesRolesOnly

AddRevoker(caller, u, w) ==
    /\ caller = root
    /\ ~IsRevoker(u, w)
    /\ revokers' = revokers \cup {<<u, w>>}
    /\ UNCHANGED <<granted, granters>> /\ ChangesRolesOnly

RemoveRevoker(caller, u, w) ==
    /\ caller = root /\ u # root
    /\ IsRevoker(u, w)
    /\ <<u, EVERYWHERE>> \in revokers => w = EVERYWHERE
    /\ revokers' = revokers \ {<<u, w>>}
    /\ UNCHANGED <<granted, granters>> /\ ChangesRolesOnly

ClaimRoot(caller) ==
    /\ caller = pendingRoot
    /\ root' = pendingRoot /\ pendingRoot' = NoAccount
    /\ roots' = Append(roots, pendingRoot)
    /\ UNCHANGED <<now, roleVars, cancelers, delays, executions, running, delayAt>>

\* The next block, between two transactions.
Tick ==
    /\ running = <<>> /\ now < MaxTime
    /\ now' = now + 1
    /\ delayAt' = [t \in 0..now + 1 |-> IF t = now + 1 THEN delays ELSE delayAt[t]]
    /\ UNCHANGED <<root, pendingRoot, roleVars, cancelers, delays, executions,
                   running, roots>>

-----------------------------------------------------------------------------
Init ==
    /\ now = 0
    /\ root = InitialRoot /\ pendingRoot = NextRoot
    /\ granted = {} /\ granters = {} /\ revokers = {} /\ cancelers = {}
    /\ delays = InitialDelays
    /\ executions = <<>> /\ running = <<>>
    /\ roots = <<InitialRoot>>
    /\ delayAt = [t \in {0} |-> InitialDelays]

ScheduleNext ==
    \E caller \in Accounts, executors \in ExecutorSets :
        \/ \E change \in ChangedDelays, new \in NewDelays :
              ScheduleDelayChange(caller, change[1], change[2], new, executors)
        \/ \E newRoot \in NewRoots : ScheduleRootChange(caller, newRoot, executors)
        \/ \E a \in Actions, w \in Targets : Schedule(caller, a, w, executors)
        \/ \E p \in Permissions :
              \/ ScheduleGrantPermission(caller, p[1], p[2], p[3], executors)
              \/ ScheduleRevokePermission(caller, p[1], p[2], p[3], executors)

PermissionNext ==
    \E caller \in Accounts, p \in Permissions :
        \/ GrantPermission(caller, p[1], p[2], p[3])
        \/ RevokePermission(caller, p[1], p[2], p[3])
        \/ RenouncePermission(caller, p[1], p[3])

ExecutionNext ==
    \/ \E caller \in Accounts, id \in Ids : Execute(caller, id) \/ Cancel(caller, id)
    \/ ExecuteReturned
    \/ ExecuteReverted

RoleNext ==
    \E caller \in Accounts :
        \/ \E id \in ({GLOBAL_CANCELER} \cup Ids) \cap CancelerIds, u \in Cancelers :
              AddCanceler(caller, id, u) \/ RemoveCanceler(caller, id, u)
        \/ \E g \in GranterRoles :
              AddGranter(caller, g[1], g[2], g[3]) \/ RemoveGranter(caller, g[1], g[2], g[3])
        \/ \E r \in RevokerRoles :
              AddRevoker(caller, r[1], r[2]) \/ RemoveRevoker(caller, r[1], r[2])
        \/ ClaimRoot(caller)

Next == ScheduleNext \/ PermissionNext \/ ExecutionNext \/ RoleNext \/ Tick

Spec == Init /\ [][Next]_vars

-----------------------------------------------------------------------------
(* Properties *)

\* e changes the delay of kind k of action a.
ChangesDelay(e, k, a) == e.call.fn = "setDelay" /\ e.call.kind = k /\ e.call.action = a

\* e is subject to the delay of kind k of action a.
SubjectTo(e, k, a) == e.call.fn = k /\ e.call.action = a

\* A change of the delay that was pending at time t has been executed since.
\* ITimelockAuthorizer tells root to avoid such changes.
Stale(k, a, t) ==
    \E id \in Ids : LET e == executions[id]
                    IN /\ ChangesDelay(e, k, a) /\ e.executed
                       /\ e.scheduledAt < t /\ e.executedAt >= t

\* Nothing begun at time t or later takes effect before t plus the delay then.
NoticeGiven(k, a, t) ==
    LET earliest == t + delayAt[t][k][a]
    IN /\ delays[k][a] = 0 => now >= earliest
       /\ \A id \in Ids :
             LET e == executions[id]
             IN SubjectTo(e, k, a) /\ e.scheduledAt >= t => e.executableAt >= earliest

\* Lowering a delay gains no time: an action that had a delay d at time t and
\* was not scheduled then cannot be done before t + d, neither directly nor
\* scheduled under a lower delay, unless a change that was already pending
\* took effect in between.
NoShortcut ==
    \A k \in Kinds, a \in Actions, t \in 0..now :
        ~Stale(k, a, t) => NoticeGiven(k, a, t)

\* An execution that becomes executed in this step.
ExecutedNow(id) ==
    id \in DOMAIN executions' /\ executions'[id].executed /\ ~executions[id].executed

\* Each root after the first was announced by an earlier root, at least the
\* root transfer delay before it could claim; only the next root named at
\* deployment is excepted, and only as the second root.
RootIsHandedOver ==
    \A i \in 2..Len(roots) :
        \/ i = 2 /\ roots[i] = NextRoot
        \/ \E id \in Ids :
              LET e == executions[id]
              IN /\ e.call = [fn |-> "setPendingRoot", account |-> roots[i]]
                 /\ e.executed /\ e.scheduledAt + RootTransferDelay <= e.executedAt
                 /\ \E j \in 1..i - 1 : e.scheduledBy = roots[j]

\* setAuthorizer's delay was never longer than it is now.
AuthorizerDelayNeverLowered ==
    LET d == delays["perform"][SetAuthorizer]
    IN /\ InitialDelays["perform"][SetAuthorizer] <= d
       /\ \A id \in Ids : LET e == executions[id]
                        IN e.executed /\ ChangesDelay(e, "perform", SetAuthorizer)
                           => e.call.delay <= d

\* Replacing the authorizer is no way around a delay: no delay is longer than
\* setAuthorizer's, as long as that one was not lowered.
NoDelayExceedsSetAuthorizer ==
    AuthorizerDelayNeverLowered =>
        \A k \in Kinds, a \in Actions : delays[k][a] <= delays["perform"][SetAuthorizer]

\* A delay becomes longer than setAuthorizer's in one way only, by lowering that
\* one: a delay that is longer after a step has not been changed by it.  Changes
\* are scheduled when setAuthorizer's delay may be another than it is when they
\* are executed, in whatever order that happens.
NoDelayOutgrowsSetAuthorizer ==
    [][\A k \in Kinds, a \in Actions :
         delays'[k][a] > delays'["perform"][SetAuthorizer]
         => delays'[k][a] = delays[k][a]]_vars

\* An execution ends once: it is executed or canceled, never both, not even
\* when its own call tries to cancel it.
EndsOnce == \A id \in Ids : ~(executions[id].executed /\ executions[id].canceled)

\* Who loses a permission or a role over a contract or an execution cannot use
\* it there any more, also not by holding it everywhere.
RemovalIsEffective ==
    [][~(running # <<>> /\ running' = <<>>) =>
        /\ \A p \in granted \ granted' : ~HasPermission(p[1], p[2], p[3])'
        /\ \A g \in granters \ granters' : ~IsGranter(g[1], g[2], g[3])'
        /\ \A r \in revokers \ revokers' : ~IsRevoker(r[1], r[2])'
        /\ \A c \in cancelers \ cancelers' : ~IsCanceler(c[1], c[2])']_vars
=============================================================================
