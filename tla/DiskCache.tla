------------------------------ MODULE DiskCache ------------------------------
(***************************************************************************)
(* The cache in ~/.cache/slopguard that all processes of a user share: one *)
(* file per key, written to a temporary file and renamed over the old one. *)
(* Entries are stamped with the wall clock, which can be set back.  Here   *)
(* an entry has the age the clock shows, negative when its stamp lies in   *)
(* the future.                                                             *)
(***************************************************************************)
EXTENDS Integers

CONSTANTS
  Writers,     \* who writes, one entry at a time
  Keys,
  Damaged,     \* the keys of the files another version, or a disk error, damaged
  Ttl,         \* the time to live of the entries, in ticks
  MaxMishaps,  \* bound: clock corrections, failed writes and deaths
  NoEntry

ASSUME CacheOK == Damaged \subseteq Keys /\ Ttl \in Nat /\ MaxMishaps \in Nat

VARIABLES
  file,    \* per key: its entry
  temp,    \* per writer: its temporary file
  mishaps,
  setback  \* by how much the clock has been set back in all

cache == <<file, temp, mishaps, setback>>

Unreadable == [damaged |-> TRUE]

\* Past OldAge an entry stays expired wherever the clock goes.
OldAge == Ttl + MaxMishaps + 1

Entries(answers) == [says : answers, shown : -MaxMishaps .. OldAge]

CacheTypeOK(answers) ==
  /\ file \in [Keys -> Entries(answers) \cup {NoEntry, Unreadable}]
  /\ temp \in [Writers -> Entries(answers) \cup {NoEntry, Unreadable}]
  /\ mishaps \in 0 .. MaxMishaps
  /\ setback \in 0 .. mishaps

CacheInit ==
  /\ file = [k \in Keys |-> IF k \in Damaged THEN Unreadable ELSE NoEntry]
  /\ temp = [w \in Writers |-> NoEntry]
  /\ mishaps = 0 /\ setback = 0

Mishap == mishaps < MaxMishaps /\ mishaps' = mishaps + 1

\* _is_expired: a stamp from the future is as good as expired.
Expired(e) == e.shown < 0 \/ e.shown > Ttl

\* get, get_blob: anything that is not a valid entry in its time is a miss.
Hit(k) == file[k] \notin {NoEntry, Unreadable} /\ ~Expired(file[k])

\* mkstemp: until all of the entry is in it, what the file holds is none.
CreateTemp(w) ==
  /\ temp[w] = NoEntry
  /\ temp' = [temp EXCEPT ![w] = Unreadable]
  /\ UNCHANGED <<file, mishaps, setback>>

\* A bug: the file is not flushed before it is renamed.
MutWriteTemp(w, says) == UNCHANGED cache

\* write, flush and fsync, all of them done.  The stamp is older than the file: the
\* clock may have been set back since.
WriteTemp(w, says) ==
  /\ \E d \in 0 .. setback : temp' = [temp EXCEPT ![w] = [says |-> says, shown |-> -d]]
  /\ UNCHANGED <<file, mishaps, setback>>

\* os.replace, whatever the temporary file holds.
Replace(w, k) ==
  /\ file' = [file EXCEPT ![k] = temp[w]]
  /\ temp' = [temp EXCEPT ![w] = NoEntry]
  /\ UNCHANGED <<mishaps, setback>>

\* A bug: the temporary file of a failed write stays.
MutUnlinked(w) == temp

Unlinked(w) == [temp EXCEPT ![w] = NoEntry]

\* The disk is full, or the directory cannot be written, at any of these steps: the
\* scan goes on.
WriteFails(w) ==
  /\ Mishap
  /\ temp' = Unlinked(w)
  /\ UNCHANGED <<file, setback>>

Shift(e, d) ==
  IF e \in {NoEntry, Unreadable} THEN e
  ELSE [e EXCEPT !.shown = IF @ + d > OldAge THEN OldAge ELSE @ + d]

ClockMoves(d) ==
  /\ file' = [k \in Keys |-> Shift(file[k], d)]
  /\ temp' = [w \in Writers |-> Shift(temp[w], d)]

EntriesAge == ClockMoves(1) /\ UNCHANGED <<mishaps, setback>>

SetClockBack == Mishap /\ ClockMoves(-1) /\ setback' = setback + 1
----------------------------------------------------------------------------

(***************************************************************************)
(* A file that can be read, or is not there, never becomes one that cannot *)
(* be read, at whatever point of its write a writer fails or dies and      *)
(* whichever others overlap.  (_atomic_write: "el archivo final queda      *)
(* intacto (nunca a medias)")                                              *)
(***************************************************************************)
NeverHalfWritten ==
  [][\A k \in Keys : file'[k] = Unreadable => file[k] = Unreadable]_file
=============================================================================
