---------------------------- MODULE Snapshooter ----------------------------
(***************************************************************************)
(* v2/internal/app/snapshooter: take a snapshot of the cluster at every    *)
(* tick of the shortest interval of the retention policy, and delete the   *)
(* ones the policy lets go.  The process is the only writer of its         *)
(* repository.  Time passes in the units of Retention; operations on the   *)
(* repository take as long as they like; the process may fail anywhere,    *)
(* with an operation done or not, and is started again.                    *)
(***************************************************************************)
EXTENDS Retention

CONSTANTS
  Policy,      \* the policies the command line may set
  History,     \* the repositories the program may find: sets of snapshot times
  Start,       \* the time of the first boot
  Horizon,     \* bound on the time
  MaxFailures  \* bound on the failures of the process, panics aside

ParametersOK ==
  /\ WidthOK
  /\ Horizon \in Nat /\ Start \in 1..Horizon /\ MaxFailures \in Nat
  /\ \A S \in History : S \subseteq 1..Start
  /\ \A c \in Policy : c \in [DOMAIN Width -> Nat] /\ \E i \in DOMAIN Width : c[i] > 0

VARIABLES
  now,       \* the time
  config,    \* flags.Config, the retention policy
  repo,      \* the times of the snapshots in the repository
  pc,        \* where the main loop is, or why it is not running
  due,       \* when the ticker sends next
  todo,      \* the snapshots still to delete in this turn of the loop
  failures   \* how often the process failed

vars == <<now, config, repo, pc, due, todo, failures>>

Every == MinInterval(config)
Running == pc \in {"idle", "create", "created", "delete"}

TypeOK ==
  /\ now \in Start..Horizon
  /\ config \in Policy
  /\ repo \subseteq 1..now
  /\ pc \in {"down", "panicked", "idle", "create", "created", "delete"}
  /\ due \in 0..(Horizon + Max(ToSet(Width))) /\ (Running => due >= now)
  /\ todo \subseteq repo /\ (todo # {} => pc = "delete")
  /\ failures \in 0..MaxFailures

Init ==
  /\ now = Start
  /\ config \in Policy
  /\ repo \in History
  /\ pc = "down"
  /\ due = 0
  /\ todo = {}
  /\ failures = 0

-----------------------------------------------------------------------------

\* The ticker goroutine and the start of an operation are prompt.
Advance ==
  /\ now < Horizon
  /\ pc # "create" /\ (Running => now < due)
  /\ now' = now + 1
  /\ UNCHANGED <<config, repo, pc, due, todo, failures>>

\* The first backup is not skipped: the goroutine waits for the main loop to take it
\* before it starts the ticker.  Main as it is does not get here: NewApp sets no
\* app.health (app.go:41-76), and Main panics where it sets a field of it (app.go:103).
\* The loop is modelled as if it were set.
Boot ==
  /\ ~Running
  /\ pc' = "create"
  /\ due' = now + Every
  /\ UNCHANGED <<now, config, repo, todo, failures>>

\* A backup whose time has come is skipped if the main loop is busy.
Tick ==
  /\ Running /\ pc # "create" /\ now = due
  /\ due' = due + Every
  /\ pc' = IF pc = "idle" THEN "create" ELSE pc
  /\ UNCHANGED <<now, config, repo, todo, failures>>

\* CreateSnapshot asks for a snapshot named after the time; a name can be used once.
Create ==
  /\ pc = "create"
  /\ now \notin repo
  /\ repo' = repo \cup {now}
  /\ pc' = "created"
  /\ UNCHANGED <<now, config, due, todo, failures>>

\* The snapshot is complete: list what the repository holds now and decide what to
\* delete, or panic over it.
Plan ==
  /\ pc = "created"
  /\ \E plan \in {Delete(config, repo)} :
       \/ /\ ~plan.panic
          /\ todo' = plan.times
          /\ pc' = IF todo' = {} THEN "idle" ELSE "delete"
       \/ /\ plan.panic
          /\ pc' = "panicked"
          /\ UNCHANGED todo
  /\ UNCHANGED <<now, config, repo, due, failures>>

\* One turn of the loop that deletes the snapshots, the oldest first.
DeleteSnapshot ==
  /\ pc = "delete"
  /\ repo' = repo \ {Min(todo)}
  /\ todo' = todo \ {Min(todo)}
  /\ pc' = IF todo' = {} THEN "idle" ELSE "delete"
  /\ UNCHANGED <<now, config, due, failures>>

\* (mutant) What is left to delete outlives the failure.
FailKeepsTodo ==
  /\ Running
  /\ failures < MaxFailures
  /\ pc' = "down"
  /\ failures' = failures + 1
  /\ UNCHANGED <<now, config, repo, due, todo>>

\* An operation on the repository fails, having been done (the answer is lost) or not,
\* or the process is killed.
Fail ==
  /\ Running
  /\ failures < MaxFailures
  /\ pc' = "down"
  /\ todo' = {}
  /\ failures' = failures + 1
  /\ UNCHANGED <<now, config, repo, due>>

Next ==
  \/ Advance
  \/ Boot
  \/ Tick
  \/ Create
  \/ Plan
  \/ DeleteSnapshot
  \/ Fail

Spec == Init /\ [][Next]_vars

-----------------------------------------------------------------------------
(* Properties.                                                             *)

Gone == repo \ repo'

\* The span the buckets of the policy cover before the newest snapshot.
Span(c) == FoldLeft(+, 0, Widths(c))

\* The newest snapshot is never deleted ("Keep the very newest snapshot of all"),
\* whatever was deleted before the process last failed.
NewestSurvives == [][repo # {} => Max(repo) \in repo']_vars

\* As many hours of snapshots as the policy asks for are kept whole, but for what
\* redistributeBackups may move out of the oldest hour, next to its boundary.
RecentSurvive ==
  [][\A t \in Gone : Max(repo) - t >= config[1] * Hour - Hour \div 4]_vars

\* Deleting a snapshot well within the span of the policy opens no gap wider than the
\* bucket of its age: an older snapshot that stays is that close to it.
NoGapOpens ==
  [][\A t \in Gone : Max(repo) - t < Span(config) - Every \div 4 =>
       LET b == NewBuckets(config, Max(repo))
       IN \E u \in repo' \ todo' : u < t /\ t - u <= b[For(b, t)].width + Every \div 4]_vars

\* "Keep takes a list of times that snapshots were taken at and returns which ones should
\* be kept": it returns, for whatever the program finds in its repository.
KeepReturns == pc # "panicked"
=============================================================================
