--------------------------- MODULE RebalanceClock ---------------------------
(***************************************************************************)
(* What the scheduler promises to virtual staking contracts, without tasks *)
(* or caps: every contract has a clock that strikes once per epoch and can *)
(* be asked for an extra strike in the current block.  However often it is *)
(* asked, it strikes at most once per block, an extra strike does not move *)
(* the next regular one, and a clock that is stopped strikes a last time.  *)
(* EpochSchedulerClock.tla shows that EpochScheduler implements it.        *)
(***************************************************************************)
EXTENDS Naturals

CONSTANTS
    Clocks,
    Epoch,      \* blocks between two regular strikes
    Horizon     \* bound: in this block nothing strikes any more

VARIABLES
    now,        \* the current block
    next,       \* block of the next regular strike, or Stopped
    owed,       \* clocks that have to strike before the block ends
    called      \* clocks that have struck in this block

vars == <<now, next, owed, called>>

Stopped == 0

Init ==
    /\ now = 1
    /\ next = [c \in Clocks |-> Stopped]
    /\ owed = {}
    /\ called = {}

Start(c) ==
    /\ called = {}
    /\ next[c] = Stopped
    /\ next' = [next EXCEPT ![c] = now + Epoch]
    /\ UNCHANGED <<now, owed, called>>

Ask(c) ==
    /\ called = {}
    /\ next[c] # Stopped
    /\ owed' = owed \cup {c}
    /\ UNCHANGED <<now, next, called>>

Stop(c) ==
    /\ called = {}
    /\ next[c] # Stopped
    /\ next' = [next EXCEPT ![c] = Stopped]
    /\ owed' = owed \cup {c}
    /\ UNCHANGED <<now, called>>

Strike(c) ==
    /\ now < Horizon
    /\ c \in owed
    /\ c \notin called
    /\ called' = called \cup {c}
    /\ owed' = owed \ {c}
    /\ next' = [next EXCEPT ![c] = IF @ = now THEN now + Epoch ELSE @]
    /\ UNCHANGED now

NextBlock ==
    /\ now < Horizon
    /\ owed = {}
    /\ now' = now + 1
    /\ owed' = {c \in Clocks : next[c] = now + 1}
    /\ called' = {}
    /\ UNCHANGED next

Next ==
    \/ \E c \in Clocks : Start(c) \/ Ask(c) \/ Stop(c) \/ Strike(c)
    \/ NextBlock

\* A clock that is owed a strike gets it, and time goes on.
Fairness ==
    /\ \A c \in Clocks : WF_vars(Strike(c))
    /\ WF_vars(NextBlock)

Spec == Init /\ [][Next]_vars

FairSpec == Spec /\ Fairness
=============================================================================
