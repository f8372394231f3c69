------------------------------- MODULE TailLog -------------------------------
(***************************************************************************)
(* What a stream promises: an append-only log and readers that follow it.  *)
(* Entries are only appended; a reader is given the entries of its range   *)
(* one by one, in order, none left out and none twice, and may wait for    *)
(* more at any time.  A failure of the machine may cost the log its latest *)
(* entries and ends every reader.                                          *)
(***************************************************************************)
CONSTANTS
  Key,         \* the keys of the entries
  _ \prec _,   \* their order
  Readers

VARIABLES
  entries,   \* the keys of the log
  range,     \* for each reader, whether it is open, and its bounds
  read       \* for each reader, the keys it was given since it was opened

logVars == <<entries, range, read>>

a \preceq b == a = b \/ a \prec b

InRange(k, r) == r.begin \preceq k /\ (r.hasEnd => k \prec r.end)

Init ==
  /\ entries = {}
  /\ \A r \in Readers : ~range[r].open
  /\ read = [r \in Readers |-> {}]

Append(k) ==
  /\ \A j \in entries : j \prec k
  /\ entries' = entries \union {k}
  /\ UNCHANGED <<range, read>>

Open(r) ==
  /\ ~range[r].open
  /\ range'[r].open
  /\ \A s \in Readers \ {r} : range'[s] = range[s]
  /\ read' = [read EXCEPT ![r] = {}]
  /\ UNCHANGED entries

Close(r) ==
  /\ range[r].open
  /\ ~range'[r].open
  /\ \A s \in Readers \ {r} : range'[s] = range[s]
  /\ UNCHANGED <<entries, read>>

\* The next entry of r's range is the first one r was not given.
Read(r, k) ==
  /\ range[r].open
  /\ k \in entries \ read[r]
  /\ InRange(k, range[r])
  /\ \A j \in entries \ read[r] : InRange(j, range[r]) => k \preceq j
  /\ read' = [read EXCEPT ![r] = @ \union {k}]
  /\ UNCHANGED <<entries, range>>

\* The process ends, and the log may have lost its latest entries.
Fail ==
  /\ \A r \in Readers : ~range'[r].open
  /\ entries' \subseteq entries
  /\ \A kept \in entries', lost \in entries \ entries' : kept \prec lost
  /\ UNCHANGED read

Next ==
  \/ \E k \in Key : Append(k)
  \/ \E r \in Readers : Open(r) \/ Close(r) \/ \E k \in Key : Read(r, k)
  \/ Fail

Spec == Init /\ [][Next]_logVars
=============================================================================
