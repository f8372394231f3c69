------------------------------ MODULE KeySchema ------------------------------
(***************************************************************************)
(* The keys of the streams as strings in the one storage they share.       *)
(*                                                                         *)
(* A string is a sequence of characters, a character its code.  Numbers    *)
(* are written in Base, 10 in the program.  What depends on the schema is  *)
(* that a listener's iterator, which runs over an interval of strings,     *)
(* meets the entries of its stream, no others, and in the order of their   *)
(* keys.                                                                   *)
(***************************************************************************)
EXTENDS OrderKey, Numerals, FiniteSets

CONSTANTS
  Names,     \* the names of the streams
  Base,      \* the base numbers are written in
  MaxKeys    \* bound: how many keys the storage holds

\* A name is a C++ identifier: digits, letters and the underscore.
IdentifierCharacters == (48 .. 57) \union (65 .. 90) \union {95} \union (97 .. 122)

ASSUME KeySchemaAssumption ==
  /\ Names \subseteq Seq(IdentifierCharacters)
  /\ Base \in 2 .. 10
  /\ MaxKeys \in Nat

VARIABLES
  storage,   \* the storage: a function from the strings that are keys to values
  heads,     \* the streams' heads in memory: a function from names to order keys
  entries    \* history: the order keys of each stream's entries

schemaVars == <<storage, heads, entries>>

ZeroCharacter == 48

\* ConfigValues cv("s", "d", ':')
stream_meta_prefix == <<115>>
stream_data_prefix == <<100>>
delimiter == 58

\* The values of the data do not matter, being neither empty nor a key.
EntryValue == <<0>>
-----------------------------------------------------------------------------
(***************************************************************************)
(* FixedSizeSerializer.                                                    *)
(***************************************************************************)

\* numeric_limits<T>::digits10 + 1: one more than the digits that always fit.
SizeInBytes(max) ==
  1 + CHOOSE d \in 0 .. max : Largest(Base)[d] <= max /\ max < Largest(Base)[d + 1]

\* A defect: numbers are not padded with zeros.
PackUnpadded(x, size) ==
  LET length == CHOOSE n \in 1 .. size :
                  x <= Largest(Base)[n] /\ (n = 1 \/ x > Largest(Base)[n - 1])
  IN [i \in 1 .. length |-> ZeroCharacter + Digits(Base, x, length)[i]]

PackToString(x, size) ==
  LET digits == Digits(Base, x, size) IN [i \in 1 .. size |-> ZeroCharacter + digits[i]]

\* istream >> x, of a string of digits.
UnpackFromString(s) == NumberOf(Base, [i \in 1 .. Len(s) |-> s[i] - ZeroCharacter])

PrimarySize == SizeInBytes(MaxPrimary)

SecondarySize == SizeInBytes(SecondaryModulus - 1)
-----------------------------------------------------------------------------
(***************************************************************************)
(* ConfigValues and OrderKey.                                              *)
(***************************************************************************)
HeadStorageKey(name) == stream_meta_prefix \o <<delimiter>> \o name

\* A defect: the name is not delimited from what follows.
DataPrefixUndelimited(name) == stream_data_prefix \o <<delimiter>> \o name

GetStreamDataPrefix(name) == stream_data_prefix \o <<delimiter>> \o name \o <<delimiter>>

EndDataStorageKey(name) ==
  stream_data_prefix \o <<delimiter>> \o name \o <<delimiter + 1>>

ComposeStorageKey(name, k) ==
  GetStreamDataPrefix(name)
    \o PackToString(k.primary, PrimarySize)
    \o PackToString(k.secondary, SecondarySize)

\* The length is checked, the prefix is not.
WellFormed(name, s) ==
  Len(s) = Len(GetStreamDataPrefix(name)) + PrimarySize + SecondarySize

\* A defect: the offset of the secondary key forgets the prefix.
DecomposeOffByPrefix(name, s) ==
  LET from == Len(GetStreamDataPrefix(name))
  IN [primary   |-> UnpackFromString(SubSeq(s, from + 1, from + PrimarySize)),
      secondary |-> UnpackFromString(SubSeq(s, PrimarySize + 1, PrimarySize + SecondarySize))]

DecomposeStorageKey(name, s) ==
  LET from == Len(GetStreamDataPrefix(name))
  IN [primary   |-> UnpackFromString(SubSeq(s, from + 1, from + PrimarySize)),
      secondary |-> UnpackFromString(SubSeq(s, from + PrimarySize + 1, Len(s)))]
-----------------------------------------------------------------------------
(***************************************************************************)
(* The storage orders its keys bytewise, as Before does.                   *)
(***************************************************************************)
\* The keys an iterator from s to t shows.
Interval(s, t) == {u \in DOMAIN storage : ~Before(u, s) /\ Before(u, t)}
-----------------------------------------------------------------------------
\* What belongs to keys or names, with that of k, put there or changed to v.
Nothing == [k \in {} |-> k]

Put(map, k, v) == [x \in DOMAIN map \union {k} |-> IF x = k THEN v ELSE map[x]]

SInit ==
  /\ storage = Nothing
  /\ heads = Nothing
  /\ entries = [name \in Names |-> {}]

\* StreamManagerParams::Apply creates a stream, at any head.
CreateStream(name, k) ==
  /\ HeadStorageKey(name) \notin DOMAIN storage
  /\ storage' = Put(storage, HeadStorageKey(name), ComposeStorageKey(name, k))
  /\ heads' = Put(heads, name, k)
  /\ UNCHANGED entries

\* PushHead replaces the stream's head by the new one, in the storage and in memory.
PushHead(name, p) ==
  /\ name \in DOMAIN heads
  /\ ~(p < heads[name].primary)
  /\ LET head == NewHead(heads[name], p)
     IN /\ heads' = Put(heads, name, head)
        /\ storage' = Put(storage, HeadStorageKey(name), ComposeStorageKey(name, head))
  /\ UNCHANGED entries

\* A defect: the entry is stored under the head of the push before.
PushUnderOldHead(name, p) ==
  /\ name \in DOMAIN heads
  /\ ~(p < heads[name].primary)
  /\ Cardinality(DOMAIN storage) < MaxKeys
  /\ LET head == NewHead(heads[name], p)
         key == ComposeStorageKey(name, heads[name])
     IN /\ key \notin DOMAIN storage
        /\ heads' = Put(heads, name, head)
        /\ storage' = Put(Put(storage, key, EntryValue),
                          HeadStorageKey(name), ComposeStorageKey(name, head))
        /\ entries' = [entries EXCEPT ![name] = @ \union {heads[name]}]

\* Push also stores an entry under the new head.  It throws if there is one, which
\* leaves the head moved, as after PushHead.
Push(name, p) ==
  /\ name \in DOMAIN heads
  /\ ~(p < heads[name].primary)
  /\ Cardinality(DOMAIN storage) < MaxKeys
  /\ LET head == NewHead(heads[name], p)
         key == ComposeStorageKey(name, head)
     IN /\ key \notin DOMAIN storage
        /\ heads' = Put(heads, name, head)
        /\ storage' = Put(Put(storage, key, EntryValue), HeadStorageKey(name), key)
        /\ entries' = [entries EXCEPT ![name] = @ \union {head}]

\* A new process constructs the streams, which read their heads.
Restart ==
  /\ \A name \in DOMAIN heads : WellFormed(name, storage[HeadStorageKey(name)])
  /\ heads' = [name \in DOMAIN heads |->
                 DecomposeStorageKey(name, storage[HeadStorageKey(name)])]
  /\ UNCHANGED <<storage, entries>>

SNext ==
  \/ \E name \in Names, k \in Key : CreateStream(name, k)
  \/ \E name \in Names, p \in Primary : PushHead(name, p) \/ Push(name, p)
  \/ Restart

SSpec == SInit /\ [][SNext]_schemaVars
-----------------------------------------------------------------------------
(***************************************************************************)
(* Correctness.                                                            *)
(***************************************************************************)

\* The interval a listener iterates over, from any key to the end of the stream's
\* data, holds the entries of its stream from that key on, and nothing of the
\* other streams, one's name being a prefix of the other's or not, or of the heads.
IntervalIsTheStream ==
  \A name \in Names, k \in Key :
    Interval(ComposeStorageKey(name, k), EndDataStorageKey(name))
      = {ComposeStorageKey(name, j) : j \in {i \in entries[name] : k \preceq i}}

\* The storage orders the entries of a stream as their order keys: the comparison
\* of strings in HasDataUnguarded is the comparison of keys.
StringsOrderedAsKeys ==
  \A name \in Names : \A j \in entries[name], k \in Key :
    Before(ComposeStorageKey(name, j), ComposeStorageKey(name, k)) <=> j \prec k

\* A restart reads the head that was written.
HeadReadBack ==
  \A name \in DOMAIN heads :
    LET value == storage[HeadStorageKey(name)]
    IN WellFormed(name, value) /\ DecomposeStorageKey(name, value) = heads[name]

\* The streams as the storage has them, read from its strings alone.
StreamsInStorage ==
  [name \in {n \in Names : HeadStorageKey(n) \in DOMAIN storage} |->
     [head |-> DecomposeStorageKey(name, storage[HeadStorageKey(name)]),
      data |-> {k \in Key : ComposeStorageKey(name, k) \in DOMAIN storage}]]

Store == INSTANCE StreamStore WITH streams <- StreamsInStorage

\* Streams that share a storage do not disturb one another: what is pushed to one
\* is found in its strings, and what is found in those of the others stays.
ImplementsStore == Store!Spec
-----------------------------------------------------------------------------
(***************************************************************************)
(* The inductive invariant: what the storage holds are the heads that      *)
(* memory has and the entries that were pushed, under the keys made of     *)
(* them.                                                                   *)
(***************************************************************************)
SchemaTypeOK ==
  /\ DOMAIN heads \subseteq Names /\ heads \in [DOMAIN heads -> Key]
  /\ entries \in [Names -> SUBSET Key]

Entries == {e \in Names \X Key : e[2] \in entries[e[1]]}

StoredIsWritten ==
  /\ DOMAIN storage = {HeadStorageKey(name) : name \in DOMAIN heads}
                        \union {ComposeStorageKey(e[1], e[2]) : e \in Entries}
  /\ \A name \in DOMAIN heads :
       storage[HeadStorageKey(name)] = ComposeStorageKey(name, heads[name])

EntriesHaveStream == \A name \in Names : entries[name] # {} => name \in DOMAIN heads

SchemaInv == SchemaTypeOK /\ StoredIsWritten /\ EntriesHaveStream
=============================================================================
