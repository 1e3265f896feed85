----------------------------- MODULE RunLedger ------------------------------
(***************************************************************************)
(* What the conversation tables promise, without tables: each conversation *)
(* has a latest run, only that run can be open, an open run collects        *)
(* entries until it is answered or interrupted, and a closed run never      *)
(* changes again; the runs of a conversation are erased together.           *)
(*                                                                          *)
(* RunStore implements this with a unique index over active runs, rows of   *)
(* turns, replay checks and a sweep at start-up; nothing here says how.     *)
(***************************************************************************)
CONSTANTS Conversations, Runs, NoConversation, NoRun

VARIABLES
  latest,     \* the run whose exchange stands last in a conversation
  home,       \* the conversation of a run
  fate,       \* none, open, answered or interrupted
  entries     \* what was recorded of a run

ledgerVars == <<latest, home, fate, entries>>

LedgerInit ==
  /\ latest = [c \in Conversations |-> NoRun]
  /\ home = [r \in Runs |-> NoConversation]
  /\ fate = [r \in Runs |-> "none"]
  /\ entries = [r \in Runs |-> {}]

\* The run that may record and be answered in a conversation.
Holds(r, c) == latest[c] = r /\ home[r] = c /\ fate[r] = "open"

\* A new exchange begins only when the latest one is closed.
Open(r, c) ==
  /\ fate[r] = "none"
  /\ \A q \in Runs : ~Holds(q, c)
  /\ latest' = [latest EXCEPT ![c] = r]
  /\ home' = [home EXCEPT ![r] = c]
  /\ fate' = [fate EXCEPT ![r] = "open"]
  /\ UNCHANGED entries

\* Entries are added, never replaced or removed.
Record(r, c) ==
  /\ Holds(r, c)
  /\ entries[r] \subseteq entries'[r]
  /\ entries' = [entries EXCEPT ![r] = entries'[r]]
  /\ UNCHANGED <<latest, home, fate>>

Answered(r, c) ==
  /\ Holds(r, c)
  /\ fate' = [fate EXCEPT ![r] = "answered"]
  /\ UNCHANGED <<latest, home, entries>>

\* A restart interrupts every open run at once.
Interrupt ==
  /\ fate' = [r \in Runs |-> IF fate[r] = "open" THEN "interrupted" ELSE fate[r]]
  /\ UNCHANGED <<latest, home, entries>>

Erase(c) ==
  /\ latest' = [latest EXCEPT ![c] = NoRun]
  /\ home' = [r \in Runs |-> IF home[r] = c THEN NoConversation ELSE home[r]]
  /\ fate' = [r \in Runs |-> IF home[r] = c THEN "none" ELSE fate[r]]
  /\ entries' = [r \in Runs |-> IF home[r] = c THEN {} ELSE entries[r]]

LedgerNext ==
  \/ \E r \in Runs, c \in Conversations :
       Open(r, c) \/ Record(r, c) \/ Answered(r, c)
  \/ \E c \in Conversations : Erase(c)
  \/ Interrupt

LedgerSpec == LedgerInit /\ [][LedgerNext]_ledgerVars
=============================================================================
