----------------------------- MODULE PrefixCache -----------------------------
(***************************************************************************)
(* The prefix cache on disk (prefix_cache.rs) and the prefill that consults*)
(* it (cpu_backend.rs), in processes that share a directory of one model.  *)
(* A process runs one prefill at a time (GenericCpuBackend), or two whose  *)
(* index is one behind a mutex (ConcurrentBackend).                        *)
(*                                                                         *)
(* A file is named by the hash of the tokens it is for: here by the tokens *)
(* (hashes do not collide).  It is a header and then an entry per token;   *)
(* what was never written reads as Zeros.  A process that has a temporary  *)
(* file open goes on writing to it wherever it has been renamed to.        *)
(***************************************************************************)
EXTENDS KvCache

CONSTANTS
    Procs,          \* what runs prefills: a process each, or its threads
    Prompts,        \* the token sequences that are prefilled
    SystemLen,      \* opts.system_prefix_len, 0 for none
    MinPrefixLen, CheckpointInterval,
    MaxSize,        \* max_size_bytes, in entries
    ChunkSize,      \* prefill_chunk_size, 0 for none
    CacheModels,    \* the models that are checked
    MaxPrefills     \* bound: prefills of one process, of all its threads

ASSUME PrefixAssumption ==
    /\ \A t \in Prompts : t \in Seq(Nat \ {0}) /\ t # <<>>
    /\ {SystemLen, MaxSize, ChunkSize, MaxPrefills} \subseteq Nat
    /\ {MinPrefixLen, CheckpointInterval} \subseteq Nat \ {0}
    /\ CacheModels \subseteq Models

VARIABLES
    model,
    dir,        \* prefix_*.kvcache: the files there are, and what is in them
    tmp,        \* prefix_*.tmp: the same
    concurrent, \* one process with a ConcurrentBackend, or a process for each
    proc,       \* the prefills
    cache,      \* the index of a process: the PrefixCache it has
    raced       \* (history) the names two processes were writing at once

vars == <<model, concurrent, dir, tmp, proc, cache, raced>>

Header == [tok |-> 0, pos |-> 1, sound |-> FALSE]
Zeros == [tok |-> 0, pos |-> 0, sound |-> FALSE]

Exists(d, name) == name \in DOMAIN d
Put(d, name, file) == [n \in DOMAIN d \cup {name} |-> IF n = name THEN file ELSE d[n]]
Unlink(d, names) == Restrict(d, DOMAIN d \ names)

\* The prefixes a prompt is saved under: the system's, and the prompt cut to a
\* multiple of the interval.
System(tokens) == IF 0 < SystemLen /\ SystemLen < Len(tokens)
                  THEN <<SubSeq(tokens, 1, SystemLen)>> ELSE <<>>
Checkpoint(tokens) ==
    LET save_len == (Len(tokens) \div CheckpointInterval) * CheckpointInterval
    IN IF save_len < MinPrefixLen THEN <<>> ELSE <<SubSeq(tokens, 1, save_len)>>

NoName == <<>>
Idle == [stage |-> "ready", tokens |-> <<>>, hit |-> NoName,
         kv |-> Empty, todo |-> <<>>, fd |-> "none", written |-> 0]
Off == [on |-> FALSE, index |-> <<>>, clock |-> 0]

\* The process p is, or is a thread of.
Owner(p) == IF concurrent THEN "threads" ELSE p
Owners == {Owner(p) : p \in Procs}
IndexOf(p) == cache[Owner(p)].index
Clock(p) == cache[Owner(p)].clock

\* The mutex is held for a whole save: from its File::create to its return.
Locked(p) == \E q \in Procs \ {p} :
                 Owner(q) = Owner(p) /\ proc[q].stage \in {"write", "rename", "stat"}

Init == /\ model \in CacheModels /\ concurrent \in BOOLEAN
        /\ dir = Restrict(<<>>, {}) /\ tmp = dir
        /\ proc = [p \in Procs |-> Idle]
        /\ cache = [c \in Owners |-> Off]
        /\ raced = {}

---------------------------------------------------------------------------
(* The index *)

\* The index has the longest first, and of the same length those it had first.
Insert(index, e) ==
    LET n == Max({0} \cup {i \in DOMAIN index : Len(index[i].name) >= Len(e.name)})
    IN InsertAt(index, n + 1, e)
\* What is at these places, sorted.
Longest(index, places) ==
    LET sorted[i \in 0 .. Len(index)] ==
            IF i = 0 THEN <<>>
            ELSE IF i \in places THEN Insert(sorted[i - 1], index[i]) ELSE sorted[i - 1]
    IN sorted[Len(index)]
Entry(name, size, last) == [name |-> name, size |-> size, last_access |-> last]

\* new() scans the directory.
Start(c) ==
    /\ ~cache[c].on
    /\ \E s \in SetToSeqs(DOMAIN dir) :
           LET files == [i \in DOMAIN s |-> Entry(s[i], Len(dir[s[i]]), 0)]
           IN cache' = [cache EXCEPT ![c] =
                  [Off EXCEPT !.on = TRUE, !.index = Longest(files, DOMAIN files)]]
    /\ UNCHANGED <<model, concurrent, dir, tmp, proc, raced>>

\* The entries that match the prompt are tried in the order of the index, and
\* marked as used, until one has a file.
Lookup(p) ==
    /\ proc[p].stage = "ready" /\ cache[Owner(p)].on /\ ~Locked(p) /\ Clock(p) < MaxPrefills
    /\ \E tokens \in Prompts :
           LET index == IndexOf(p)
               clock == Clock(p) + 1
               matches == {i \in DOMAIN index : /\ Len(tokens) >= MinPrefixLen
                                               /\ IsPrefix(index[i].name, tokens)}
               found == {i \in matches : Exists(dir, index[i].name)}
               tried == {i \in matches : \A j \in found : i <= j}
           IN /\ cache' = [cache EXCEPT ![Owner(p)].clock = clock,
                     ![Owner(p)].index = [i \in DOMAIN index |->
                         IF i \in tried THEN [index[i] EXCEPT !.last_access = clock] ELSE index[i]]]
              /\ \E hit \in IF found = {} THEN {NoName} ELSE {index[i].name : i \in found \cap tried} :
                     proc' = [proc EXCEPT ![p].tokens = tokens, ![p].stage = "load", ![p].hit = hit]
    /\ UNCHANGED <<model, concurrent, dir, tmp, raced>>

---------------------------------------------------------------------------
(* Prefill *)

\* A file that is gone, short or without its header is not loaded.
Loads(name, file) == name # NoName /\ Len(file) > Len(name) /\ file[1] = Header
\* Only a cache in BF16 has its layers filled.
Loaded(name, file) ==
    LET entries == SubSeq(file, 2, Len(name) + 1)
    IN [Empty EXCEPT !.flat = entries, !.layer = IF model.bf16 THEN entries ELSE <<>>,
                     !.seq_len = Len(name), !.text_pos = IF model.mrope THEN Len(name) ELSE 0]

\* Prefill from nothing goes in chunks.
Chunks(tokens) ==
    IF ChunkSize = 0 \/ model.mrope THEN <<tokens>>
    ELSE [i \in 1 .. (Len(tokens) + ChunkSize - 1) \div ChunkSize |->
              SubSeq(tokens, (i - 1) * ChunkSize + 1, Min({i * ChunkSize, Len(tokens)}))]
Prefilled(tokens) ==
    LET chunks == Chunks(tokens)
        after[i \in 0 .. Len(chunks)] ==
            IF i = 0 THEN Empty ELSE Feed(model, after[i - 1], chunks[i], TRUE)
    IN after[Len(chunks)]

\* MUTANT: an exact hit does not give up its last token.
Resumed_NoTrim(c, tokens) ==
    Feed(model, c, SubSeq(tokens, Min({c.seq_len + 1, Len(tokens)}), Len(tokens)), TRUE)
\* After an exact hit the last token is prefilled again, for its logits.
Resumed(c, tokens) ==
    LET from == Min({c.seq_len, Len(tokens) - 1})
    IN Feed(model, TruncateKv(c, from), SubSeq(tokens, from + 1, Len(tokens)), TRUE)

\* What was not found is saved, the system's prefix first.
ToSave(tokens) == System(tokens) \o Checkpoint(tokens)

\* A file that cannot be loaded is as good as none: the cache is made afresh.
LoadAndPrefill(p) ==
    LET tokens == proc[p].tokens
        name == proc[p].hit
        hit == name # NoName /\ Exists(dir, name) /\ Loads(name, dir[name])
    IN /\ proc[p].stage = "load"
       /\ proc' = [proc EXCEPT ![p].stage = "save",
              ![p].kv = IF hit THEN Resumed(Loaded(name, dir[name]), tokens) ELSE Prefilled(tokens),
              ![p].todo = IF hit THEN <<>> ELSE ToSave(tokens)]
       /\ UNCHANGED <<model, concurrent, dir, tmp, cache, raced>>

Prefill(p) == ~concurrent /\ LoadAndPrefill(p)

\* The mutex was given back after the lookup, and is taken again to load.
ConcurrentPrefill(p) ==
    /\ concurrent
    /\ proc[p].hit # NoName => ~Locked(p)
    /\ LoadAndPrefill(p)

---------------------------------------------------------------------------
(* Saving *)

Saving(p) == Head(proc[p].todo)

\* The end of one save, in success or error.
Saved(p) == [proc[p] EXCEPT !.stage = "save", !.todo = Tail(@), !.fd = "none", !.written = 0]

PrefillDone(p) ==
    /\ proc[p].stage = "save" /\ proc[p].todo = <<>>
    /\ proc' = [proc EXCEPT ![p].stage = "ready", ![p].kv = Empty, ![p].tokens = <<>>,
                            ![p].hit = NoName]
    /\ UNCHANGED <<model, concurrent, dir, tmp, cache, raced>>

MaySave(p) == proc[p].stage = "save" /\ proc[p].todo # <<>> /\ ~Locked(p)
Known(p) == Saving(p) \in {e.name : e \in ToSet(IndexOf(p))}

Skip(p) ==
    /\ MaySave(p) /\ Known(p)
    /\ proc' = [proc EXCEPT ![p] = Saved(p)]
    /\ UNCHANGED <<model, concurrent, dir, tmp, cache, raced>>

\* MUTANT: the file is written under its own name.
Create_InPlace(p) ==
    /\ MaySave(p) /\ ~Known(p)
    /\ dir' = Put(dir, Saving(p), <<>>)
    /\ proc' = [proc EXCEPT ![p].stage = "write", ![p].fd = "dir"]
    /\ UNCHANGED <<model, concurrent, tmp, cache, raced>>
\* File::create truncates a temporary file that is there, whoever writes to it.
Create(p) ==
    /\ MaySave(p) /\ ~Known(p)
    /\ tmp' = Put(tmp, Saving(p), <<>>)
    /\ proc' = [proc EXCEPT ![p].stage = "write", ![p].fd = "tmp"]
    /\ raced' = IF \E q \in Procs \ {p} : proc[q].fd = "tmp" /\ Saving(q) = Saving(p)
                THEN raced \cup {Saving(p)} ELSE raced
    /\ UNCHANGED <<model, concurrent, dir, cache>>

\* What is saved: the flat copy if it is long enough, zeros otherwise.
Contents(p) ==
    LET n == Len(Saving(p))
        flat == proc[p].kv.flat
    IN <<Header>> \o (IF Len(flat) >= n THEN SubSeq(flat, 1, n) ELSE [i \in 1 .. n |-> Zeros])

\* The buffer is written at the place its writer has reached, in two parts.
WriteAt(file, from, part) ==
    [i \in 1 .. Max({Len(file), from + Len(part)}) |->
        CASE i \in from + 1 .. from + Len(part) -> part[i - from]
          [] i <= Len(file) -> file[i]
          [] OTHER -> Zeros]

Half(p) == 1 + Len(Saving(p)) \div 2
Write(p) ==
    LET from == proc[p].written
        upto == IF from = 0 THEN Half(p) ELSE Len(Saving(p)) + 1
        New(file) == WriteAt(file, from, SubSeq(Contents(p), from + 1, upto))
    IN /\ proc[p].stage = "write"
       /\ tmp' = IF proc[p].fd = "tmp" THEN [tmp EXCEPT ![Saving(p)] = New(@)] ELSE tmp
       /\ dir' = IF proc[p].fd = "dir" THEN [dir EXCEPT ![Saving(p)] = New(@)] ELSE dir
       /\ proc' = [proc EXCEPT ![p].written = upto,
                               ![p].stage = IF upto = Len(Saving(p)) + 1 THEN "rename" ELSE "write"]
       /\ UNCHANGED <<model, concurrent, cache, raced>>

\* Any call of a save may fail; what it has done so far remains.
SaveFails(p) ==
    /\ MaySave(p) \/ proc[p].stage \in {"write", "rename", "stat"}
    /\ proc' = [proc EXCEPT ![p] = Saved(p)]
    /\ UNCHANGED <<model, concurrent, dir, tmp, cache, raced>>

\* Where an open file is, once its name has been renamed or removed.
Moved(ps, name, where) ==
    [q \in Procs |-> IF ps[q].fd \in DOMAIN where /\ Saving(q) = name
                     THEN [ps[q] EXCEPT !.fd = where[@]] ELSE ps[q]]

Rename(p) ==
    LET name == Saving(p)
        closed == [proc EXCEPT ![p].stage = "stat", ![p].fd = "none"]
    IN /\ proc[p].stage = "rename" /\ Exists(tmp, name)
       /\ dir' = Put(dir, name, tmp[name])
       /\ tmp' = Unlink(tmp, {name})
       /\ proc' = Moved(closed, name, [tmp |-> "dir", dir |-> "gone"])
       /\ UNCHANGED <<model, concurrent, cache, raced>>

\* How much the files at these places take.
Size(index, places) == Cardinality(UNION {{i} \X (1 .. index[i].size) : i \in places})
\* The files that make room: in the order of their last use, until those that are left
\* are within the limit.  One that cannot be removed, because it is gone, makes none.
Evicted(index) ==
    LET there == {i \in DOMAIN index : Exists(dir, index[i].name)}
        IsBefore(j, i) == \/ index[j].last_access < index[i].last_access
                          \/ index[j].last_access = index[i].last_access /\ j < i
        Left(i) == {j \in DOMAIN index : j \in there => ~IsBefore(j, i)}
    IN {index[i].name : i \in {j \in there : Size(index, Left(j)) > MaxSize}}

\* MUTANT: the size of the new file is forgotten.
Index_Sizeless(p) ==
    LET name == Saving(p)
        index == Append(IndexOf(p), Entry(name, 0, Clock(p)))
    IN Longest(index, DOMAIN index)
\* MUTANT: the new entry stays at the end.
Index_Unsorted(p) ==
    LET name == Saving(p)
    IN Append(IndexOf(p), Entry(name, Len(dir[name]), Clock(p)))
\* The index with the new file.
Index(p) ==
    LET name == Saving(p)
        index == Append(IndexOf(p), Entry(name, Len(dir[name]), Clock(p)))
    IN Longest(index, DOMAIN index)

Enter(p) ==
    LET index == Index(p)
        gone == Evicted(index)
        stay == {i \in DOMAIN index : Exists(dir, index[i].name) /\ index[i].name \notin gone}
        ps == [proc EXCEPT ![p] = Saved(p)]
    IN /\ proc[p].stage = "stat" /\ Exists(dir, Saving(p))
       /\ dir' = Unlink(dir, gone)
       /\ cache' = [cache EXCEPT ![Owner(p)].index = IF gone = {} THEN index ELSE Longest(index, stay)]
       /\ proc' = [q \in Procs |-> IF q # p /\ ps[q].fd = "dir" /\ Saving(q) \in gone
                                   THEN [ps[q] EXCEPT !.fd = "gone"] ELSE ps[q]]
       /\ UNCHANGED <<model, concurrent, tmp, raced>>

\* A process ends, or is killed, anywhere, and its threads with it.
Crash(c) ==
    /\ cache[c].on
    /\ cache' = [cache EXCEPT ![c] = Off]
    /\ proc' = [p \in Procs |-> IF Owner(p) = c THEN Idle ELSE proc[p]]
    /\ UNCHANGED <<model, concurrent, dir, tmp, raced>>

Next == \/ \E p \in Procs :
               \/ Lookup(p) \/ Prefill(p) \/ ConcurrentPrefill(p) \/ PrefillDone(p)
               \/ Skip(p) \/ Create(p) \/ Write(p) \/ SaveFails(p) \/ Rename(p) \/ Enter(p)
        \/ \E c \in Owners : Start(c) \/ Crash(c)

Spec == Init /\ [][Next]_vars

---------------------------------------------------------------------------
(* Properties *)

\* What the file of a prefix should hold.
Whole(name) == <<Header>> \o Prefilled(name).flat

\* "Atomic rename": a crash, an error or another process's eviction never leaves
\* part of a prefix under its name, unless two processes were saving it at once.
Published == model.bf16 => \A n \in DOMAIN dir \ raced : dir[n] = Whole(n)

\* "Loaded instead of recomputing": the cache after a prefill is the same after a
\* hit, an exact hit, a file that vanished in between or a miss, for dense models
\* with a cache in BF16 and files that were not raced.
RecomputedIfDense ==
    model.bf16 /\ model.recurrent = "none" =>
        \A p \in Procs : proc[p].stage = "save" /\ proc[p].hit \notin raced =>
            proc[p].kv = Feed(model, Empty, proc[p].tokens, TRUE)

\* A hit is the longest prefix of the prompt that the process knows and finds.
LongestHit ==
    [][\A p \in Procs : proc[p].stage = "ready" /\ proc'[p].hit # NoName =>
           \A e \in ToSet(IndexOf(p)) :
               Exists(dir, e.name) /\ IsPrefix(e.name, proc'[p].tokens)
               => Len(e.name) <= Len(proc'[p].hit)]_vars

\* A save leaves the files the process knows within the limit, whatever another
\* process has removed in the meantime (the size of a raced file was taken early).
WithinMaxSize ==
    [][\A p \in Procs : proc[p].stage = "stat" /\ proc'[p].stage = "save" /\ cache' # cache =>
           LET known == {e.name : e \in ToSet(IndexOf(p)')} \cap (DOMAIN dir' \ raced)
           IN Cardinality(UNION {{n} \X DOMAIN dir'[n] : n \in known}) <= MaxSize]_vars
=============================================================================
