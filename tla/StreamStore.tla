----------------------------- MODULE StreamStore -----------------------------
(***************************************************************************)
(* What the schema of the keys promises to publishers and listeners: that  *)
(* each stream is as alone in the storage, with its head and the keys of   *)
(* its entries.  Publisher and Listener are about such a stream.           *)
(***************************************************************************)
CONSTANTS
  Names,            \* the names of the streams
  Key,              \* the keys of entries
  Primary,          \* the primary keys pushed
  NewHead(_, _)     \* the head that follows one when a primary key is pushed

VARIABLE
  streams   \* a function from the names of the streams there are to head and data

Init == streams = [name \in {} |-> {}]

\* A stream begins without entries.
Create(name, k) ==
  streams' = [n \in DOMAIN streams \union {name} |->
                IF n = name THEN [head |-> k, data |-> {}] ELSE streams[n]]

\* The head moves, and an entry may be stored under it.
Push(name, p) ==
  LET k == NewHead(streams[name].head, p)
  IN /\ streams'[name].head = k
     /\ \E new \in {{}, {k}} :
          streams' = [streams EXCEPT ![name] = [head |-> k, data |-> @.data \union new]]

Next ==
  \/ \E name \in DOMAIN streams, p \in Primary : Push(name, p)
  \/ \E name \in Names \ DOMAIN streams, k \in Key : Create(name, k)

Spec == Init /\ [][Next]_streams
=============================================================================
