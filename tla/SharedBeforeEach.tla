--------------------------- MODULE SharedBeforeEach ---------------------------
(***************************************************************************)
(* The fixtures of the tests (pvt/common/sharedBeforeEach.ts): a hook that  *)
(* runs its initializer before the first test of a suite only, and restores *)
(* a snapshot of the chain before the others. All hooks of a run share one   *)
(* stack of snapshots, whatever suites they are of, so that a hook seldom    *)
(* pops the snapshot it pushed.                                            *)
(*                                                                         *)
(* Mocha and the network's snapshots are not part of the repository: they   *)
(* are here as the hooks use them. Mocha runs, for each test, the hooks of   *)
(* the suites around it from the outermost, the tests of a suite before      *)
(* those of the suites in it, and the after hooks of a suite when it is      *)
(* done; a hook that throws skips the other tests of its suite. Restoring a  *)
(* snapshot discards it and those taken after it, and takes it again.       *)
(***************************************************************************)
EXTENDS Naturals, Sequences, SequencesExt, FiniteSetsExt

CONSTANTS
    Shapes,         \* the files of tests: records of `parent`, `hooks` and `tests` of each suite
    MaxFailures     \* bound: initializers that throw

VARIABLES
    shape,          \* the file that is run
    todo,           \* what Mocha has yet to run
    SNAPSHOTS,      \* the stack of snapshots, as their ids
    initialized,    \* the hooks whose initializer has run
    chain,          \* the state of the chain: the sequence of what was executed
    taken,          \* the snapshots of the network: their chains, by id
    lastId,         \* the id of the last snapshot
    failures,       \* the number of initializers that have thrown
    base,           \* the chain on which each initializer ran
    outcome         \* of the tests that are done: whether the chain was right

fixtureVars == <<shape, todo, SNAPSHOTS, initialized, chain, taken, lastId, failures, base, outcome>>

-----------------------------------------------------------------------------
(* Mocha *)

Suites == DOMAIN shape.parent

\* The suites around and including this one, the outermost first.
PathIn(sh) ==
    LET path[s \in 0..Len(sh.parent)] == IF s = 0 THEN <<>> ELSE Append(path[sh.parent[s]], s)
    IN path

HooksIn(sh, s) == [i \in DOMAIN sh.hooks[s] |-> [suite |-> s, index |-> i, shared |-> sh.hooks[s][i] = "shared"]]
HooksAround(sh, s) == FlattenSeq([i \in DOMAIN PathIn(sh)[s] |-> HooksIn(sh, PathIn(sh)[s][i])])

\* The suite of each test, in the order in which they run.
TestsOf(sh) == FlattenSeq([s \in DOMAIN sh.tests |-> [i \in 1..sh.tests[s] |-> s]])

\* All that is run when no hook throws.
Plan(sh) ==
    LET tests == TestsOf(sh)
        suitesAfter(i) == IF i = Len(tests) THEN <<>> ELSE PathIn(sh)[tests[i + 1]]
        ended(i) == SelectSeq(Reverse(PathIn(sh)[tests[i]]), LAMBDA s : ~Contains(suitesAfter(i), s))
        item(kind, s, hook, i) == [kind |-> kind, suite |-> s, hook |-> hook, test |-> i]
        before(i) == [k \in DOMAIN HooksAround(sh, tests[i]) |->
                        item("hook", tests[i], HooksAround(sh, tests[i])[k], i)]
        after(i) == FlattenSeq([k \in DOMAIN ended(i) |->
                        [j \in DOMAIN HooksIn(sh, ended(i)[k]) |->
                            item("after", ended(i)[k], HooksIn(sh, ended(i)[k])[j], i)]])
        none == [suite |-> 0, index |-> 0, shared |-> FALSE]
    IN FlattenSeq([i \in DOMAIN tests |-> before(i) \o <<item("test", tests[i], none, i)>> \o after(i)])

\* A hook of this suite has thrown.
WithoutTestsOf(items, s) ==
    SelectSeq(items, LAMBDA i : i.kind = "after" \/ ~Contains(PathIn(shape)[i.suite], s))

Item == Head(todo)
Hook == Item.hook
AtHook(kind, shared) == todo # <<>> /\ Item.kind = kind /\ Hook.shared = shared

-----------------------------------------------------------------------------
(* The network *)

Prefix(t, id) == [i \in {j \in DOMAIN t : j < id} |-> t[i]]
WithSnapshot(t, id, c) == [i \in DOMAIN t \cup {id} |-> IF i = id THEN c ELSE t[i]]

\* The snapshots after this one is restored, which gives it a new id.
Restored(id) == WithSnapshot(Prefix(taken, id), lastId + 1, taken[id])
Alive(id) == id \in DOMAIN taken

-----------------------------------------------------------------------------
(* The hook of sharedBeforeEach *)

Top == Last(SNAPSHOTS)

\* The first time: on the state that the hooks before left, which is on the stack if
\* one of them is shared, and whose snapshot is replaced by a new one.
StartsFrom == IF SNAPSHOTS = <<>> THEN chain ELSE taken[Top]

InitializeSucceeds ==
    LET again == SNAPSHOTS # <<>>
        restored == IF again THEN WithSnapshot(Restored(Top), lastId + 2, taken[Top]) ELSE taken
        id == IF again THEN lastId + 3 ELSE lastId + 1
    IN /\ AtHook("hook", TRUE) /\ Hook \notin initialized
       /\ again => Alive(Top)
       /\ chain' = Append(StartsFrom, Hook)
       /\ taken' = WithSnapshot(restored, id, chain')
       /\ lastId' = id
       /\ SNAPSHOTS' = (IF again THEN Append(Front(SNAPSHOTS), lastId + 2) ELSE <<>>) \o <<id>>
       /\ initialized' = initialized \cup {Hook}
       /\ base' = [base EXCEPT ![Hook.suite][Hook.index] = StartsFrom]
       /\ todo' = Tail(todo)
       /\ UNCHANGED <<shape, failures, outcome>>

\* The initializer throws after it has changed the chain.
InitializeThrows ==
    LET again == SNAPSHOTS # <<>>
    IN /\ AtHook("hook", TRUE) /\ Hook \notin initialized
       /\ failures < MaxFailures
       /\ again => Alive(Top)
       /\ chain' = Append(StartsFrom, Hook)
       /\ IF again
          THEN /\ taken' = WithSnapshot(Restored(Top), lastId + 2, taken[Top])
               /\ lastId' = lastId + 2
               /\ SNAPSHOTS' = Append(Front(SNAPSHOTS), lastId + 2)
          ELSE UNCHANGED <<taken, lastId, SNAPSHOTS>>
       /\ failures' = failures + 1
       /\ todo' = WithoutTestsOf(Tail(todo), Hook.suite)
       /\ UNCHANGED <<shape, initialized, base, outcome>>

\* The mutant does not restore it.
RevertWithoutRestore ==
    /\ AtHook("hook", TRUE) /\ Hook \in initialized
    /\ SNAPSHOTS # <<>> /\ Alive(Top)
    /\ taken' = WithSnapshot(taken, lastId + 1, chain) /\ lastId' = lastId + 1
    /\ SNAPSHOTS' = Append(Front(SNAPSHOTS), lastId + 1)
    /\ todo' = Tail(todo)
    /\ UNCHANGED <<shape, failures, outcome, initialized, base, chain>>

\* The other times: the last snapshot is restored, and replaced by a new one.
Revert ==
    /\ AtHook("hook", TRUE) /\ Hook \in initialized
    /\ SNAPSHOTS # <<>> /\ Alive(Top)
    /\ chain' = taken[Top]
    /\ taken' = WithSnapshot(Restored(Top), lastId + 2, taken[Top]) /\ lastId' = lastId + 2
    /\ SNAPSHOTS' = Append(Front(SNAPSHOTS), lastId + 2)
    /\ todo' = Tail(todo)
    /\ UNCHANGED <<shape, failures, outcome, initialized, base>>

\* The mutant pops whether or not the initializer has run.
AfterPopped(always) ==
    /\ AtHook("after", TRUE)
    /\ SNAPSHOTS' = IF (Hook \in initialized \/ always) /\ SNAPSHOTS # <<>> THEN Front(SNAPSHOTS) ELSE SNAPSHOTS
    /\ todo' = Tail(todo)
    /\ UNCHANGED <<shape, failures, outcome, initialized, base, chain, taken, lastId>>

AfterAlways == AfterPopped(TRUE)
After == AfterPopped(FALSE)

-----------------------------------------------------------------------------
(* The other hooks, and the tests *)

PlainHook ==
    /\ AtHook("hook", FALSE)
    /\ chain' = Append(chain, Hook)
    /\ todo' = Tail(todo)
    /\ UNCHANGED <<shape, failures, outcome, SNAPSHOTS, initialized, base, taken, lastId>>

PlainAfter ==
    /\ AtHook("after", FALSE)
    /\ todo' = Tail(todo)
    /\ UNCHANGED <<shape, failures, outcome, SNAPSHOTS, initialized, base, chain, taken, lastId>>

\* What a test of this suite may rely on: the shared fixtures around it, each once and in
\* order, on the chain on which the outermost of them ran, and the other hooks that come
\* after them; the effects of those in between are reverted.
Promised(s) ==
    LET around == HooksAround(shape, s)
        shared == {i \in DOMAIN around : around[i].shared}
        first == around[Min(shared)]
    IN base[first.suite][first.index]
         \o SelectSeq(around, LAMBDA h : h.shared)
         \o SubSeq(around, Max(shared) + 1, Len(around))

IsFixed(s) == \E i \in DOMAIN HooksAround(shape, s) : HooksAround(shape, s)[i].shared

Test ==
    /\ todo # <<>> /\ Item.kind = "test"
    /\ outcome' = [outcome EXCEPT ![Item.test] =
          IF ~IsFixed(Item.suite) THEN "free" ELSE IF chain = Promised(Item.suite) THEN "right" ELSE "wrong"]
    /\ chain' = Append(chain, [suite |-> Item.suite, index |-> Item.test, shared |-> FALSE])
    /\ todo' = Tail(todo)
    /\ UNCHANGED <<shape, failures, SNAPSHOTS, initialized, base, taken, lastId>>

-----------------------------------------------------------------------------
FixturesInit ==
    /\ shape \in Shapes
    /\ todo = Plan(shape)
    /\ SNAPSHOTS = <<>> /\ initialized = {}
    /\ chain = <<>> /\ taken = [i \in {} |-> <<>>] /\ lastId = 0
    /\ failures = 0
    /\ base = [s \in Suites |-> [i \in DOMAIN shape.hooks[s] |-> <<>>]]
    /\ outcome = [i \in DOMAIN TestsOf(shape) |-> "none"]

FixturesNext ==
    \/ InitializeSucceeds \/ InitializeThrows \/ Revert \/ After
    \/ PlainHook \/ PlainAfter \/ Test

\* Mocha goes on with the next hook or test when the last is done, or times out.
FixturesFairness == WF_fixtureVars(FixturesNext)

-----------------------------------------------------------------------------
(* Properties *)

\* Each test runs on the state its fixtures set up, with nothing of the tests before it,
\* although the hook that restores it may pop the snapshot of another suite.
TestsSeeTheirFixtures == \A i \in DOMAIN outcome : outcome[i] # "wrong"

\* All hooks and tests are run or skipped in the end, and no snapshot is left: no hook stops
\* with 'Missing sharedBeforeEach snapshot', nor restores one that restoring another has
\* discarded.
EveryTestEnds == <>[](todo = <<>> /\ SNAPSHOTS = <<>>)
===============================================================================
