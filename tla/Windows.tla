------------------------------ MODULE Windows ------------------------------
(***************************************************************************)
(* The snapshooter of the first generation (cmd/snapshooter): a loop that  *)
(* sleeps until some window asks for a snapshot and starts a goroutine for *)
(* it, which creates the snapshot and deletes those no window asks to      *)
(* keep.  Goroutines of different times may run at once, Elasticsearch     *)
(* allows one snapshot operation at a time.  Snapshots are named after     *)
(* their times; a tick is the second of the sanity check.                  *)
(***************************************************************************)
EXTENDS Integers, FiniteSets

CONSTANTS
  Window,       \* SnapshotWindows: records [every, keepFor]
  Horizon,      \* bound on the time
  MaxLate,      \* bound: how late a sleep ends, and a goroutine sends its request
  MaxJobs,      \* bound: goroutines at once
  MaxFailures   \* bound: failures and crashes

Time == 0..Horizon

\* Some window is given.
WindowsOK ==
  /\ Horizon \in Nat /\ MaxLate \in Nat /\ MaxJobs \in Nat /\ MaxFailures \in Nat
  /\ Window # {}
  /\ \A w \in Window : w.every \in Nat \ {0} /\ w.keepFor \in Nat

VARIABLES
  now,
  delete,       \* the --delete flag
  repo,         \* the snapshots in the repository
  next,         \* nextSnapshot
  job,          \* of each time, how far its goroutine is
  old,          \* of each time, those no window asked for when its goroutine listed
                \* the snapshots (history)
  todo,         \* of each time, the snapshots its goroutine has not looked at
  made,         \* all snapshots that were ever complete (history)
  failures

vars == <<now, delete, repo, next, job, old, todo, made, failures>>

TypeOK ==
  /\ now \in Time /\ delete \in BOOLEAN /\ next \in Nat
  /\ repo \subseteq made /\ made \subseteq Time
  /\ job \in [Time -> {"none", "start", "create", "list", "delete"}]
  /\ old \in [Time -> SUBSET Time] /\ todo \in [Time -> SUBSET Time]
  /\ failures \in 0..MaxFailures

Least(S) == CHOOSE x \in S : \A y \in S : x <= y

IsMultiple(t, every) == t % every = 0
NextMultiple(t, every) == (t \div every) * every + every

\* (mutants) The last window decides; a window also counts from the other's multiples.
NextLongest(t) ==
  CHOOSE n \in {NextMultiple(t, w.every) : w \in Window} :
    \A w \in Window : n >= NextMultiple(t, w.every)
KeepNewer(at, t) == \E w \in Window : at - t < w.keepFor /\ IsMultiple(t, w.every)

\* SnapshotWindows.next and keep.
Next1(t) == Least({NextMultiple(t, w.every) : w \in Window})
Keep(at, t) == \E w \in Window : at - t <= w.keepFor /\ IsMultiple(t, w.every)

All(x) == [t \in Time |-> x]

Init ==
  /\ now \in Time /\ now <= Least({w.every : w \in Window}) /\ delete \in BOOLEAN
  /\ repo = {} /\ made = {} /\ failures = 0
  /\ next = Next1(now)
  /\ job = All("none") /\ old = All({}) /\ todo = All({})

\* The process ends and is started again; a snapshot being created is completed by
\* Elasticsearch, or not.
Restart ==
  /\ next' = Next1(now)
  /\ job' = All("none") /\ old' = All({}) /\ todo' = All({})
  /\ \E done \in SUBSET {t \in Time : job[t] = "create"} :
       repo' = repo \cup done /\ made' = made \cup done

Go(t, where) == job' = [job EXCEPT ![t] = where]

-----------------------------------------------------------------------------

\* The sleep is over; the next time is reckoned from the clock.
Wake ==
  /\ now >= next
  /\ Cardinality({t \in Time : job[t] # "none"}) < MaxJobs
  /\ Go(next, "start")
  /\ next' = Next1(now)
  /\ UNCHANGED <<now, delete, repo, old, todo, made, failures>>

\* The sanity check panics within a second of the time, before or after.
SanityCheck(t) ==
  /\ job[t] = "start" /\ now - t < 1
  /\ Restart
  /\ UNCHANGED <<now, delete, failures>>

\* An operation is rejected while a snapshot is being created.
Creating == \E t \in Time : job[t] = "create"

StartSnapshot(t) ==
  /\ job[t] = "start" /\ now - t >= 1 /\ ~Creating
  /\ Go(t, "create")
  /\ UNCHANGED <<now, delete, repo, next, old, todo, made, failures>>

SnapshotCreated(t) ==
  /\ job[t] = "create"
  /\ repo' = repo \cup {t} /\ made' = made \cup {t}
  /\ Go(t, IF delete THEN "list" ELSE "none")
  /\ UNCHANGED <<now, delete, next, old, todo, failures>>

List(t) ==
  /\ job[t] = "list"
  /\ todo' = [todo EXCEPT ![t] = repo]
  /\ old' = [old EXCEPT ![t] = {s \in repo : ~Keep(now, s)}]
  /\ Go(t, "delete")
  /\ UNCHANGED <<now, delete, repo, next, made, failures>>

\* (mutant) The first snapshot to be kept ends the loop.
LookUntilKept(t) ==
  /\ job[t] = "delete" /\ todo[t] # {}
  /\ LET s == Least(todo[t]) IN
       \/ Keep(now, s) /\ todo' = [todo EXCEPT ![t] = {}] /\ UNCHANGED repo
       \/ /\ ~Keep(now, s) /\ s \in repo /\ ~Creating
          /\ todo' = [todo EXCEPT ![t] = @ \ {s}]
          /\ repo' = repo \ {s}
  /\ UNCHANGED <<now, delete, next, job, old, made, failures>>

\* One turn of the loop over the listed snapshots, the oldest first.
Look(t) ==
  /\ job[t] = "delete" /\ todo[t] # {}
  /\ LET s == Least(todo[t]) IN
       /\ todo' = [todo EXCEPT ![t] = @ \ {s}]
       /\ \/ Keep(now, s) /\ UNCHANGED repo
          \/ ~Keep(now, s) /\ s \in repo /\ ~Creating /\ repo' = repo \ {s}
  /\ UNCHANGED <<now, delete, next, job, old, made, failures>>

JobEnds(t) ==
  /\ job[t] = "delete" /\ todo[t] = {}
  /\ Go(t, "none")
  /\ old' = [old EXCEPT ![t] = {}]
  /\ UNCHANGED <<now, delete, repo, next, todo, made, failures>>

\* Elasticsearch rejects an operation: it is creating another snapshot, or another
\* goroutine has deleted the one to delete.  The process ends.
Rejected(t) ==
  /\ \/ job[t] = "start" /\ now - t >= 1 /\ Creating
     \/ /\ job[t] = "delete" /\ todo[t] # {} /\ ~Keep(now, Least(todo[t]))
        /\ Least(todo[t]) \notin repo \/ Creating
  /\ Restart
  /\ UNCHANGED <<now, delete, failures>>

\* A request fails, carried out or not, a name is no time, or the process is killed.
Fail ==
  /\ failures < MaxFailures /\ failures' = failures + 1
  /\ Restart
  /\ UNCHANGED <<now, delete>>

Tick ==
  /\ now < Horizon
  /\ now < next + MaxLate
  /\ \A t \in Time : job[t] = "start" => now < t + MaxLate
  /\ now' = now + 1
  /\ UNCHANGED <<delete, repo, next, job, old, todo, made, failures>>

Next ==
  \/ Wake \/ Fail \/ Tick
  \/ \E t \in Time :
       \/ SanityCheck(t) \/ StartSnapshot(t) \/ SnapshotCreated(t) \/ List(t)
       \/ Look(t) \/ JobEnds(t) \/ Rejected(t)

Spec == Init /\ [][Next]_vars

-----------------------------------------------------------------------------

Due(t) == \E w \in Window : IsMultiple(t, w.every)

\* The loop passes over no time some window asks a snapshot for that is still to come
\* (main.go:82-83, snap.go:52-60).  It does pass over those that came while it slept
\* or was down: the next time is reckoned from the clock, and a sleep that ends after
\* the time due next leaves no snapshot for that time (snap.go:48).
NothingSkipped ==
  [][next' # next => \A t \in next + 1..next' - 1 : Due(t) => t <= now]_vars

\* Of all the snapshots that were ever complete, those some window still asks for are
\* in the repository, whatever goroutines delete at once and wherever they stopped.
WantedAreKept ==
  \A t \in made, w \in Window :
    IsMultiple(t, w.every) /\ now - t <= w.keepFor => t \in repo

\* A goroutine that comes to its end has left none of the snapshots it listed that no
\* window asked for by then, whatever other goroutines, late ones too, created and
\* deleted at the same time.
OldSnapshotsGo ==
  [][\A t \in Time :
       job[t] = "delete" /\ todo[t] = {} /\ job'[t] = "none" => old[t] \cap repo = {}]_vars
=============================================================================
