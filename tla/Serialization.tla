----------------------------- MODULE Serialization -----------------------------
(***************************************************************************)
(* What becomes of the class of an entry on the way through the storage.   *)
(*                                                                         *)
(* A polymorphic stream lists classes derived from the class of its        *)
(* entries.  An entry is copied as the first of them that a dynamic_cast   *)
(* succeeds for, which cuts off what its own class adds, and is serialized *)
(* with the name of that class.  The processor is called with the class    *)
(* found in the same way for the object that is read.  A stream of a fixed *)
(* type is one with no list: everything is taken for the class Base.       *)
(*                                                                         *)
(* The storage outlives the program, the next version of which may list    *)
(* and register other classes.                                             *)
(***************************************************************************)
EXTENDS Naturals, Sequences, FiniteSetsExt

CONSTANTS
  Classes,      \* the classes of entries
  Base,         \* BASE_TYPE, or T_ENTRY of a fixed type
  IsA,          \* the pairs of a class and one it is derived from, or is
  Programs,     \* versions: the classes listed, and those registered with cereal
  MaxEntries    \* bound: how many entries are stored

Program == [types : Seq(Classes), registered : SUBSET Classes]

ASSUME SerializationAssumption ==
  /\ Base \in Classes
  /\ IsA \subseteq Classes \X Classes
  /\ \A c \in Classes : <<c, c>> \in IsA /\ <<c, Base>> \in IsA
  /\ \A c, d, e \in Classes : <<c, d>> \in IsA /\ <<d, e>> \in IsA => <<c, e>> \in IsA
  /\ \A c, d \in Classes : <<c, d>> \in IsA /\ <<d, c>> \in IsA => c = d
  /\ Programs \subseteq Program
  /\ MaxEntries \in Nat

VARIABLES
  program,   \* the version that runs
  stored,    \* the entries in the storage: the class each was serialized as
  pushed,    \* history: the entries that were pushed, and by which version
  seen       \* history: the classes this version's processor was called with

serVars == <<program, stored, pushed, seen>>

SerInit ==
  /\ program \in Programs
  /\ stored = <<>>
  /\ pushed = <<>>
  /\ seen = <<>>
-----------------------------------------------------------------------------
Matches(c, types) == {i \in 1 .. Len(types) : <<c, types[i]>> \in IsA}

\* A defect: the last class of the list that matches.
DispatchToLast(c, types) ==
  IF Matches(c, types) = {} THEN Base ELSE types[Max(Matches(c, types))]

\* RuntimeDispatcher calls back with the first class of the list that matches, or
\* with BASE.
DispatchTo(c, types) ==
  IF Matches(c, types) = {} THEN Base ELSE types[Min(Matches(c, types))]

\* A defect: what is listed is taken to be registered as well.
KnownIfListed(c) == c = Base \/ \E i \in DOMAIN program.types : program.types[i] = c

\* cereal finds a class by its name if it is registered; Base needs no name.
Known(c) == c = Base \/ c \in program.registered

\* A defect: the entry is copied as the base class.
SerializedAsBase(c) == Base

\* The class of the copy of an entry that SerializeEntry makes.
SerializedAs(c) == DispatchTo(c, program.types)

\* An entry is pushed, unless cereal does not know its class and throws.
Push(c) ==
  /\ Len(stored) < MaxEntries
  /\ Known(SerializedAs(c))
  /\ stored' = Append(stored, SerializedAs(c))
  /\ pushed' = Append(pushed, [class |-> c, by |-> program])
  /\ UNCHANGED <<program, seen>>

\* DeSerializeAndProcessEntry reads an object of the class stored, unless cereal
\* does not know it and CerealDeSerializeException is thrown, and calls the processor.
Process(i) ==
  /\ Known(stored[i])
  /\ seen' = [j \in DOMAIN seen \union {i} |->
               IF j = i THEN DispatchTo(stored[i], program.types) ELSE seen[j]]
  /\ UNCHANGED <<program, stored, pushed>>

\* Another version of the program is started on the same storage.
Upgrade(p) ==
  /\ p # program
  /\ program' = p
  /\ seen' = <<>>
  /\ UNCHANGED <<stored, pushed>>

SerNext ==
  \/ \E c \in Classes : Push(c)
  \/ \E i \in DOMAIN stored : Process(i)
  \/ \E p \in Programs : Upgrade(p)

SerSpec == SerInit /\ [][SerNext]_serVars
-----------------------------------------------------------------------------
(***************************************************************************)
(* Correctness.                                                            *)
(***************************************************************************)

\* The types; and what is stored can be read for as long as versions register what
\* the one that pushed it did.
SerTypeOK ==
  /\ program \in Programs
  /\ Len(stored) <= MaxEntries /\ Len(pushed) = Len(stored)
  /\ \A i \in DOMAIN stored :
       /\ stored[i] \in Classes
       /\ pushed[i] \in [class : Classes, by : Programs]
       /\ pushed[i].by.registered \subseteq program.registered =>
            stored[i] = Base \/ stored[i] \in program.registered
  /\ DOMAIN seen \subseteq DOMAIN stored

\* An entry that is pushed and read by the same version is processed as the class
\* the dispatcher finds for it: the copy that was cut off is found to be of the
\* class it was cut off to.
ReadAsDispatched ==
  \A i \in DOMAIN seen :
    pushed[i].by = program => seen[i] = DispatchTo(pushed[i].class, program.types)

\* A version that lists a class, and no class before one derived from it.
Faithful(c, p) ==
  /\ c = Base \/ \E i \in DOMAIN p.types : p.types[i] = c
  /\ \A i, j \in DOMAIN p.types : i < j => <<p.types[j], p.types[i]>> \notin IsA

\* Nothing is cut off an entry when both the version that pushed it and the one
\* that reads it list its class, derived classes first, whatever else they list.
NothingCutOff ==
  \A i \in DOMAIN seen :
    Faithful(pushed[i].class, pushed[i].by) /\ Faithful(pushed[i].class, program)
      => seen[i] = pushed[i].class
-----------------------------------------------------------------------------
(***************************************************************************)
(* The inductive invariant: each entry is stored as the class the version  *)
(* that pushed it dispatched it to, and seen as this version dispatches    *)
(* that.                                                                   *)
(***************************************************************************)
History ==
  /\ \A i \in DOMAIN stored :
       /\ stored[i] = DispatchTo(pushed[i].class, pushed[i].by.types)
       /\ stored[i] = Base \/ stored[i] \in pushed[i].by.registered
  /\ \A i \in DOMAIN seen : seen[i] = DispatchTo(stored[i], program.types)

SerInv ==
  /\ stored \in Seq(Classes)
  /\ pushed \in Seq([class : Classes, by : Programs])
  /\ SerTypeOK
  /\ History
=============================================================================
