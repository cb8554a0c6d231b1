---------------------------- MODULE StreamProofs ----------------------------
(***************************************************************************)
(* The bytes of a file: the theorems about module Stream, for connections  *)
(* that do not overlap.                                                    *)
(***************************************************************************)
EXTENDS Stream, TLAPS

-----------------------------------------------------------------------------
(* Sequences.                                                              *)

LEMMA SeqOf ==
  ASSUME NEW S, NEW n \in Nat, NEW f \in [1 .. n -> S]
  PROVE  f \in Seq(S) /\ Len(f) = n
  OBVIOUS

LEMMA SeqDomain ==
  ASSUME NEW S, NEW s \in Seq(S)
  PROVE  Len(s) \in Nat /\ DOMAIN s = 1 .. Len(s) /\ \A i \in DOMAIN s : s[i] \in S /\ i \in Nat
  OBVIOUS

LEMMA AppendElements ==
  ASSUME NEW S, NEW s \in Seq(S), NEW x \in S
  PROVE  /\ Append(s, x) \in Seq(S)
         /\ Len(s) \in Nat /\ DOMAIN s = 1 .. Len(s)
         /\ DOMAIN Append(s, x) = 1 .. Len(s) + 1 /\ Len(Append(s, x)) = Len(s) + 1
         /\ \A i \in 1 .. Len(s) : Append(s, x)[i] = s[i]
         /\ Append(s, x)[Len(s) + 1] = x
  OBVIOUS

LEMMA TailElements ==
  ASSUME NEW S, NEW s \in Seq(S), s # <<>>
  PROVE  /\ Len(s) \in Nat /\ Len(s) >= 1 /\ DOMAIN s = 1 .. Len(s)
         /\ Head(s) = s[1] /\ Head(s) \in S
         /\ Tail(s) \in Seq(S) /\ Len(Tail(s)) = Len(s) - 1
         /\ DOMAIN Tail(s) = 1 .. Len(s) - 1
         /\ \A i \in 1 .. Len(s) - 1 : Tail(s)[i] = s[i + 1]
  OBVIOUS

LEMMA ConcatOne ==
  ASSUME NEW S, NEW s \in Seq(S), NEW x \in S
  PROVE  s \o <<x>> = Append(s, x)
  OBVIOUS

LEMMA MinMax ==
  \A a, b \in Int : /\ Min({a, b}) = IF a <= b THEN a ELSE b
                    /\ Max({a, b}) = IF a >= b THEN a ELSE b
  <1> SUFFICES ASSUME NEW a \in Int, NEW b \in Int
               PROVE  /\ Min({a, b}) = IF a <= b THEN a ELSE b
                      /\ Max({a, b}) = IF a >= b THEN a ELSE b
    OBVIOUS
  <1>1. (\E x \in {a, b} : \A y \in {a, b} : x <= y) /\ (\E x \in {a, b} : \A y \in {a, b} : x >= y)
    OBVIOUS
  <1>2. Min({a, b}) \in {a, b} /\ \A y \in {a, b} : Min({a, b}) <= y
    BY <1>1 DEF Min
  <1>3. Max({a, b}) \in {a, b} /\ \A y \in {a, b} : Max({a, b}) >= y
    BY <1>1 DEF Max
  <1> QED
    BY <1>2, <1>3

-----------------------------------------------------------------------------
(* The inductive invariant.                                                *)

Block   == Int \X Int
Kinds   == {"Done", "Error", "Reject", "Cancel", "Close", "ReqChsum", "ReportChsum", "Start", "Chunk"}
Message == [k : Kinds, n : Nat, d : Seq(Block)]
Source  == [mtime : Nat, len : Nat]
Uploads == [pc : {"none", "open", "read", "end"}, pos : Nat, meta : Source]
Jobs    == [pc : JobPc, len : Nat, csum : Seq(Block), offset : Nat, received : Nat, fd : {NoIno} \cup Conns]

TypeInv ==
  /\ ver \in Versions /\ size \in Nat \ {0}
  /\ src \in Source
  /\ sstat \in {"Alive"} \cup Ended
  /\ cl \in [Conns -> {"off", "run", "end", "closed"}]
  /\ upload \in [Conns -> Uploads]
  /\ sums \in [Conns -> SUBSET [limit : Nat, seen : Source]]
  /\ toC \in [Conns -> Seq(Message)]
  /\ toS \in [Conns -> Seq(Message)]
  /\ rstat \in {"Idle", "InFlight"} \cup Ended
  /\ closed \in BOOLEAN
  /\ conn \in Conns \cup {NoConn}
  /\ sv \in [Conns -> {"off", "run", "drain", "ok", "fin", "err", "end"}]
  /\ DOMAIN cell = Conns
  /\ held \in [Conns -> BOOLEAN]
  /\ aborted \in [Conns -> BOOLEAN]
  /\ job \in [Conns -> Jobs]
  /\ chunks \in [Conns -> Seq(Seq(Block))]
  /\ reports \in [Conns -> Seq(Message)]
  /\ tmp \in Conns \cup {NoIno}
  /\ ino \in [Conns -> Seq(Block)]
  /\ \A d \in dest : d.ino \in Conns
  /\ crashes \in 0 .. MaxCrashes

\* Connections: one is served at a time, and what belongs to one that is not open yet
\* is blank.
Blank(c) ==
  /\ cl[c] = "off" /\ job[c] = NoJob /\ upload[c] = NoUpload
  /\ toC[c] = <<>> /\ toS[c] = <<>> /\ chunks[c] = <<>>

ConnInv ==
  /\ \A c \in Conns : sv[c] = "off" => Blank(c)
  /\ \A c \in Conns : cl[c] = "off" => sv[c] = "off"
  /\ \A c, d \in Conns : d < c /\ sv[c] # "off" => cl[d] = "end" /\ sv[d] = "end"
  /\ conn # NoConn => sv[conn] \notin {"off", "fin", "end"}
  /\ \A c \in Conns : sv[c] \in {"off", "fin", "end"} => job[c].pc \notin Abortable
  /\ \A c \in Conns : rstat = "Idle" => job[c].pc = "none"

\* The inodes: one that is at its destination has no name any more and no descriptor
\* that could write to it, and a job knows the length of the one it writes to.
Early    == {"none", "load", "partial", "full", "start"}
Begun(c) == job[c].pc \notin Early

FileAt(c) ==
  /\ job[c].received <= size
  /\ job[c].pc \in Early => job[c].received = 0
  /\ job[c].pc \in {"none", "load", "partial", "full"} => job[c].offset = 0
  /\ job[c].pc \in {"partial", "full"} =>
       job[c].len <= size /\ (tmp # NoIno => Len(ino[tmp]) = job[c].len)
  /\ job[c].pc = "start" =>
       job[c].offset <= size /\ (job[c].offset # 0 /\ tmp # NoIno => Len(ino[tmp]) = job[c].offset)
  /\ job[c].pc = "recv" =>
       /\ job[c].fd \in Conns /\ Begun(job[c].fd) /\ tmp \in {NoIno, job[c].fd}
       /\ Len(ino[job[c].fd]) = job[c].received
       /\ \A d \in dest : d.ino # job[c].fd
  /\ job[c].pc \in {"check", "place"} /\ tmp # NoIno => Len(ino[tmp]) = size
  /\ job[c].pc = "place" /\ ver # "v2" => cell[c] # NoSum /\ (tmp # NoIno => ino[tmp] = cell[c])

FileInv ==
  /\ \A c \in Conns : FileAt(c)
  /\ tmp # NoIno => Begun(tmp)
  /\ \A d \in dest : /\ Begun(d.ino) /\ d.ino # tmp
                     /\ Len(ino[d.ino]) = size /\ ino[d.ino] = d.csum

\* The blocks on their way, as long as the sender's file was not touched.  A chain is a
\* sequence of pieces of the file, each from where the one before it ends: from block
\* a + 1 to block b.
IsData(d, p)   == \A i \in DOMAIN d : d[i] = <<0, p + i>>
Chain(s, a, b) ==
  \E p \in [1 .. Len(s) + 1 -> Nat] :
    /\ p[1] = a /\ p[Len(s) + 1] = b
    /\ \A i \in 1 .. Len(s) : IsData(s[i], p[i]) /\ p[i + 1] = p[i] + Len(s[i])

Data(m)          == IF m.k = "Chunk" THEN m.d ELSE <<>>
Payload(s)       == [i \in 1 .. Len(s) |-> Data(s[i])]
NoChunk(s)       == \A i \in DOMAIN s : s[i].k # "Chunk"
NoStart(s)       == \A i \in DOMAIN s : s[i].k # "Start"
OnlyStart(s, e)  == \A i \in DOMAIN s : s[i].k = "Start" =>
                      s[i].n = e /\ \A j \in DOMAIN s : s[j].k = "Start" => j = i

ZeroStart(s)     == \A i \in DOMAIN s : s[i].k = "Start" => s[i].n = 0

\* The upload goes on, or is asked to, from block e + 1.
Fed(c, e) == /\ upload[c].pc \in {"open", "read"} => upload[c].pos = e /\ NoStart(toC[c])
             /\ OnlyStart(toC[c], e)

Quiet(c) == job[c].pc \in Early =>
              /\ upload[c].pc = "none" /\ NoStart(toC[c])
              /\ NoChunk(toS[c]) /\ chunks[c] = <<>>

FromZero(c) == ver = "v2" => /\ job[c].pc \notin {"partial", "full"}
                             /\ job[c].pc \in Early => job[c].offset = 0
                             /\ ZeroStart(toC[c])

Flow(c) == job[c].pc = "recv" =>
             \E m \in Nat : /\ Chain(chunks[c], job[c].received, m)
                            /\ held[c] /\ sv[c] = "run" =>
                                 \E e \in Nat : Chain(Payload(toS[c]), m, e) /\ Fed(c, e)

PipeAt(c) == Quiet(c) /\ FromZero(c) /\ Flow(c)

PipeInv == src.mtime = 0 => \A c \in Conns : IsData(ino[c], 0) /\ PipeAt(c)

\* The sender's file: what was offered, or what a modification made of it.
Offered == size \in Sizes /\ src \in [mtime : 0 .. MaxMods, len : Sizes \cup NewLens]

StreamInv == Overlap = FALSE /\ TypeInv /\ ConnInv /\ FileInv /\ PipeInv

-----------------------------------------------------------------------------
(* Types.                                                                  *)

LEMMA Numbers ==
  /\ Conns \subseteq Nat \ {0} /\ NoIno \notin Conns /\ NoConn \notin Conns
  /\ MaxConns \in Conns
  /\ \A c, d \in Conns : c = d \/ c < d \/ d < c
  BY StreamAssumption DEF Conns, NoIno, NoConn

LEMMA Constructors ==
  /\ NoUpload \in Uploads /\ NoJob \in Jobs /\ JobEnd \in Jobs
  /\ NoUpload.pc = "none" /\ NoUpload.pos = 0
  /\ NoJob.pc = "none" /\ NoJob.received = 0 /\ NoJob.offset = 0
  /\ JobEnd.pc = "end" /\ JobEnd.received = 0
  <1>1. NoUpload \in Uploads /\ NoUpload.pc = "none" /\ NoUpload.pos = 0
    BY DEF NoUpload, Uploads, Source
  <1>2. NoJob \in Jobs
    BY DEF NoJob, Jobs, JobPc
  <1>3. NoJob.pc = "none" /\ NoJob.received = 0 /\ NoJob.offset = 0
    BY DEF NoJob
  <1>4. JobEnd \in Jobs
    BY <1>2 DEF JobEnd, Jobs, JobPc
  <1>5. JobEnd.pc = "end" /\ JobEnd.received = 0
    BY DEF JobEnd, NoJob
  <1> QED
    BY <1>1, <1>2, <1>3, <1>4, <1>5

LEMMA Messages ==
  ASSUME NEW k \in Kinds, NEW n \in Nat, NEW d \in Seq(Block)
  PROVE  /\ Msg(k, n, d) \in Message /\ Note(k) \in Message
         /\ Msg(k, n, d).k = k /\ Msg(k, n, d).n = n /\ Msg(k, n, d).d = d /\ Note(k).k = k
  BY DEF Msg, Note, Message

LEMMA RejectMessage ==
  RejectMsg \in Message /\ RejectMsg.k \in {"Reject", "Cancel"}
  <1>1. "Reject" \in Kinds /\ "Cancel" \in Kinds
    BY DEF Kinds
  <1>2. Note("Reject") \in Message /\ Note("Cancel") \in Message
    BY <1>1 DEF Note, Msg, Message
  <1>3. Note("Reject").k = "Reject" /\ Note("Cancel").k = "Cancel"
    BY DEF Note, Msg
  <1> QED
    BY <1>2, <1>3 DEF RejectMsg

LEMMA BlocksTyped ==
  ASSUME NEW v \in Nat, NEW n \in Nat
  PROVE  Blocks(v, n) \in Seq(Block) /\ Len(Blocks(v, n)) = n
  <1>1. Blocks(v, n) \in [1 .. n -> Block]
    BY DEF Blocks, Block
  <1> QED
    BY <1>1, SeqOf

LEMMA ChecksumsTyped ==
  ASSUME TypeInv, NEW t \in [limit : Nat, seen : Source]
  PROVE  \A b \in Checksums(t) : b \in Seq(Block)
  <1>1. src \in Source /\ t.limit \in Nat /\ t.seen \in Source
    BY DEF TypeInv
  <1>2. src.mtime \in Nat /\ src.len \in Nat /\ t.seen.mtime \in Nat /\ t.seen.len \in Nat
    BY <1>1 DEF Source
  <1>3. Min({t.limit, src.len}) \in Nat /\ Min({t.limit, t.seen.len}) \in Nat
    BY <1>1, <1>2, MinMax
  <1>4. Blocks(src.mtime, Min({t.limit, src.len})) \in Seq(Block)
    BY <1>2, <1>3, BlocksTyped
  <1>5. ASSUME NEW k \in 0 .. Min({t.limit, t.seen.len})
        PROVE  [i \in 1 .. Max({k, Min({t.limit, src.len})}) |->
                  <<IF i <= k THEN t.seen.mtime ELSE src.mtime, i>>] \in Seq(Block)
    <2> DEFINE n == Max({k, Min({t.limit, src.len})})
               f == [i \in 1 .. n |-> <<IF i <= k THEN t.seen.mtime ELSE src.mtime, i>>]
    <2>1. n \in Nat
      <3>1. k \in Nat
        BY <1>3
      <3>2. k \in Int /\ Min({t.limit, src.len}) \in Int
        BY <1>3, <3>1
      <3>3. n = IF k >= Min({t.limit, src.len}) THEN k ELSE Min({t.limit, src.len})
        BY <3>2, MinMax, Zenon
      <3> QED
        BY <1>3, <3>1, <3>3
    <2> HIDE DEF n
    <2>2. f \in [1 .. n -> Block]
      BY <1>2, <2>1 DEF Block
    <2> HIDE DEF f
    <2>3. f \in Seq(Block)
      BY <2>1, <2>2, SeqOf
    <2> QED
      BY <2>3 DEF f, n
  <1> QED
    BY <1>4, <1>5 DEF Checksums

\* What is written: a chunk at the end of what is there.
LEMMA WrittenTyped ==
  ASSUME NEW old \in Seq(Block), NEW data \in Seq(Block), NEW a \in BOOLEAN
  PROVE  /\ Written(old, Len(old), data, a) \in Seq(Block)
         /\ Len(Written(old, Len(old), data, a)) = Len(old) + Len(data)
         /\ \A i \in 1 .. Len(old) + Len(data) :
              Written(old, Len(old), data, a)[i] = IF i <= Len(old) THEN old[i] ELSE data[i - Len(old)]
  <1>1. CASE a
    <2>1. Written(old, Len(old), data, a) = old \o data
      BY <1>1 DEF Written
    <2> QED
      BY <2>1
  <1>2. CASE ~a
    <2> DEFINE n == Len(old) + Len(data)
               f == [i \in 1 .. n |-> IF i <= Len(old) THEN old[i] ELSE data[i - Len(old)]]
    <2>0. n \in Nat /\ Len(old) \in Nat /\ Len(data) \in Nat /\ n >= Len(old)
      OBVIOUS
    <2>1. n \in Nat /\ Len(old) \in Nat /\ Len(data) \in Nat /\ Max({Len(old), n}) = n
      <3> HIDE DEF n
      <3>0. Len(old) \in Int /\ n \in Int
        BY <2>0
      <3>1. Max({Len(old), n}) = IF Len(old) >= n THEN Len(old) ELSE n
        BY <3>0, MinMax, Zenon
      <3> QED
        BY <2>0, <3>1
    <2>2. Written(old, Len(old), data, a) =
            [i \in 1 .. n |-> IF i > Len(old) /\ i <= n THEN data[i - Len(old)]
                              ELSE IF i <= Len(old) THEN old[i] ELSE <<-1, 0>>]
      BY <1>2, <2>1 DEF Written
    <2>3. Written(old, Len(old), data, a) = f
      BY <2>1, <2>2
    <2>4. \A i \in 1 .. n : f[i] \in Block
      BY <2>1
    <2>5. f \in [1 .. n -> Block]
      BY <2>4
    <2> HIDE DEF f
    <2>6. f \in Seq(Block) /\ Len(f) = n
      BY <2>1, <2>5, SeqOf
    <2> QED
      BY <2>3, <2>6 DEF f
  <1> QED
    BY <1>1, <1>2

\* The wire.
LEMMA SendCTyped ==
  ASSUME TypeInv, NEW c \in Conns, NEW m \in Message, SendC(c, <<m>>)
  PROVE  toC' \in [Conns -> Seq(Message)]
  <1>1. toC[c] \o <<m>> \in Seq(Message)
    BY DEF TypeInv
  <1>2. toC' = toC \/ toC' = [toC EXCEPT ![c] = toC[c] \o <<m>>]
    BY DEF SendC, TypeInv
  <1>3. \E s \in Seq(Message) : toC' = toC \/ toC' = [toC EXCEPT ![c] = s]
    BY <1>1, <1>2, Zenon
  <1> QED
    BY <1>3 DEF TypeInv

LEMMA SendSTyped ==
  ASSUME TypeInv, NEW c \in Conns, NEW m \in Message, SendS(c, <<m>>)
  PROVE  toS' \in [Conns -> Seq(Message)]
  <1>1. toS[c] \o <<m>> \in Seq(Message)
    BY DEF TypeInv
  <1>2. toS' = toS \/ toS' = [toS EXCEPT ![c] = toS[c] \o <<m>>]
    BY DEF SendS, TypeInv
  <1>3. \E s \in Seq(Message) : toS' = toS \/ toS' = [toS EXCEPT ![c] = s]
    BY <1>1, <1>2, Zenon
  <1> QED
    BY <1>3 DEF TypeInv

LEMMA TakeCTyped ==
  ASSUME TypeInv, NEW c \in Conns, toC[c] # <<>>
  PROVE  /\ Head(toC[c]) \in Message
         /\ TakeC(c) => toC' \in [Conns -> Seq(Message)]
  <1>1. toC[c] \in Seq(Message) /\ toC \in [Conns -> Seq(Message)]
    BY DEF TypeInv
  <1>2. Head(toC[c]) \in Message /\ Tail(toC[c]) \in Seq(Message)
    BY <1>1, TailElements
  <1>3. TakeC(c) => toC' = [toC EXCEPT ![c] = Tail(toC[c])]
    BY <1>1 DEF TakeC
  <1>4. TakeC(c) => \E s \in Seq(Message) : toC' = [toC EXCEPT ![c] = s]
    BY <1>2, <1>3, Zenon
  <1> QED
    BY <1>1, <1>2, <1>4

LEMMA TakeSTyped ==
  ASSUME TypeInv, NEW c \in Conns, toS[c] # <<>>
  PROVE  /\ Head(toS[c]) \in Message
         /\ TakeS(c) => toS' \in [Conns -> Seq(Message)]
  <1>1. toS[c] \in Seq(Message) /\ toS \in [Conns -> Seq(Message)]
    BY DEF TypeInv
  <1>2. Head(toS[c]) \in Message /\ Tail(toS[c]) \in Seq(Message)
    BY <1>1, TailElements
  <1>3. TakeS(c) => toS' = [toS EXCEPT ![c] = Tail(toS[c])]
    BY <1>1 DEF TakeS
  <1>4. TakeS(c) => \E s \in Seq(Message) : toS' = [toS EXCEPT ![c] = s]
    BY <1>2, <1>3, Zenon
  <1> QED
    BY <1>1, <1>2, <1>4

LEMMA NoteTyped == \A k \in Kinds : Note(k) \in Message /\ Note(k).k = k
  BY DEF Note, Msg, Message

LEMMA PendingTyped ==
  /\ PendingC \in Seq(Message) /\ \A i \in DOMAIN PendingC : PendingC[i].k \notin {"Start", "Chunk"}
  /\ PendingS \in Seq(Message) /\ \A i \in DOMAIN PendingS : PendingS[i].k # "Chunk"
  <1> DEFINE D == Note("Done")
             E == Note("Error")
  <1>1. D \in Message /\ D.k = "Done" /\ E \in Message /\ E.k = "Error"
    BY NoteTyped DEF Kinds
  <1>2. RejectMsg \in Message /\ RejectMsg.k \in {"Reject", "Cancel"}
    BY RejectMessage
  <1>3. PendingC \in {<<D>>, <<E>>, <<RejectMsg>>, <<>>} /\ PendingS \in {<<E>>, <<RejectMsg>>, <<>>}
    BY DEF PendingC, PendingS
  <1> HIDE DEF D, E
  <1>4. ASSUME NEW m \in Message, m.k \notin {"Start", "Chunk"}
        PROVE  <<m>> \in Seq(Message) /\ \A i \in DOMAIN <<m>> : <<m>>[i].k \notin {"Start", "Chunk"}
    BY <1>4
  <1>5. <<>> \in Seq(Message) /\ \A i \in DOMAIN <<>> : <<>>[i].k \notin {"Start", "Chunk"}
    OBVIOUS
  <1>6. D.k \notin {"Start", "Chunk"} /\ E.k \notin {"Start", "Chunk"} /\ RejectMsg.k \notin {"Start", "Chunk"}
    BY <1>1, <1>2
  <1>7. \A s \in {<<D>>, <<E>>, <<RejectMsg>>, <<>>} :
          s \in Seq(Message) /\ \A i \in DOMAIN s : s[i].k \notin {"Start", "Chunk"}
    BY <1>1, <1>2, <1>4, <1>5, <1>6, Zenon
  <1>8. PendingS \in {<<D>>, <<E>>, <<RejectMsg>>, <<>>}
    BY <1>3
  <1> QED
    BY <1>3, <1>7, <1>8

\* The jobs.
LEMMA JobToTyped ==
  ASSUME TypeInv, NEW c \in Conns, NEW s \in JobPc, JobTo(c, s)
  PROVE  job' \in [Conns -> Jobs] /\ aborted' \in [Conns -> BOOLEAN]
  <1>1. \A r \in Jobs : [r EXCEPT !.pc = s] \in Jobs
    BY DEF Jobs
  <1>2. job' = [job EXCEPT ![c] = [job[c] EXCEPT !.pc = s]]
    BY DEF JobTo, TypeInv
  <1>3. job' \in [Conns -> Jobs]
    BY <1>1, <1>2 DEF TypeInv
  <1>4. aborted' \in [Conns -> BOOLEAN]
    BY DEF JobTo, TypeInv
  <1> QED
    BY <1>3, <1>4

LEMMA JobEndsTyped ==
  ASSUME TypeInv, NEW c \in Conns, JobEnds(c)
  PROVE  /\ job' \in [Conns -> Jobs] /\ aborted' \in [Conns -> BOOLEAN]
         /\ chunks' \in [Conns -> Seq(Seq(Block))] /\ reports' \in [Conns -> Seq(Message)]
  <1>1. job' \in [Conns -> Jobs]
    BY Constructors DEF JobEnds, TypeInv
  <1>2. aborted' \in [Conns -> BOOLEAN]
    BY DEF JobEnds, TypeInv
  <1>3. <<>> \in Seq(Seq(Block)) /\ <<>> \in Seq(Message)
    OBVIOUS
  <1>4. chunks' \in [Conns -> Seq(Seq(Block))] /\ reports' \in [Conns -> Seq(Message)]
    BY <1>3 DEF JobEnds, TypeInv
  <1> QED
    BY <1>1, <1>2, <1>4

LEMMA StopTaskTyped ==
  ASSUME TypeInv, NEW c \in Conns, StopTask(c)
  PROVE  held' \in [Conns -> BOOLEAN] /\ aborted' \in [Conns -> BOOLEAN]
  BY DEF StopTask, TypeInv

LEMMA ClientEndsTyped ==
  ASSUME TypeInv, NEW c \in Conns, NEW how \in {"end", "closed"}, ClientEnds(c, how)
  PROVE  /\ cl' \in [Conns -> {"off", "run", "end", "closed"}]
         /\ upload' \in [Conns -> Uploads]
         /\ sums' \in [Conns -> SUBSET [limit : Nat, seen : Source]]
         /\ toC' \in [Conns -> Seq(Message)]
  <1>1. cl' \in [Conns -> {"off", "run", "end", "closed"}]
    BY DEF ClientEnds, TypeInv
  <1>2. upload' \in [Conns -> Uploads]
    BY Constructors DEF ClientEnds, TypeInv
  <1>3. sums' \in [Conns -> SUBSET [limit : Nat, seen : Source]]
    <2>1. {} \in SUBSET [limit : Nat, seen : Source]
      OBVIOUS
    <2> QED
      BY <2>1, Zenon DEF ClientEnds, TypeInv
  <1>4. toC' \in [Conns -> Seq(Message)]
    <2>1. <<>> \in Seq(Message)
      OBVIOUS
    <2>2. \E s \in Seq(Message) : toC' = [toC EXCEPT ![c] = s]
      BY <2>1, Zenon DEF ClientEnds
    <2> QED
      BY <2>2 DEF TypeInv
  <1> QED
    BY <1>1, <1>2, <1>3, <1>4

LEMMA TypeInit == Init => TypeInv
  <1> SUFFICES ASSUME Init PROVE TypeInv
    OBVIOUS
  <1>1. size \in Nat \ {0} /\ src \in Source
    BY StreamAssumption DEF Init, Source
  <1>2. upload \in [Conns -> Uploads] /\ job \in [Conns -> Jobs]
    BY Constructors DEF Init
  <1>3. /\ toC \in [Conns -> Seq(Message)] /\ toS \in [Conns -> Seq(Message)]
        /\ chunks \in [Conns -> Seq(Seq(Block))] /\ reports \in [Conns -> Seq(Message)]
        /\ ino \in [Conns -> Seq(Block)]
    BY DEF Init
  <1>4. crashes \in 0 .. MaxCrashes
    BY StreamAssumption DEF Init
  <1>5. closed \in BOOLEAN /\ held \in [Conns -> BOOLEAN] /\ aborted \in [Conns -> BOOLEAN]
    BY DEF Init
  <1> QED
    BY <1>1, <1>2, <1>3, <1>4, <1>5 DEF Init, TypeInv

LEMMA ReadableIs ==
  ASSUME TypeInv, NEW c \in Conns
  PROVE  /\ Readable(c) \in Nat
         /\ upload[c].pos <= src.len => upload[c].pos + Readable(c) <= src.len
  <1>1. upload[c].pos \in Nat /\ src.len \in Nat
    BY DEF TypeInv, Uploads, Source
  <1> DEFINE m == Max({0, src.len - upload[c].pos})
  <1>0. 0 \in Int /\ src.len - upload[c].pos \in Int
    BY <1>1
  <1>2. m = IF 0 >= src.len - upload[c].pos THEN 0 ELSE src.len - upload[c].pos
    BY <1>0, MinMax, Zenon
  <1>3. m \in Nat
    BY <1>1, <1>2
  <1> HIDE DEF m
  <1>4. Min({CHUNK_SIZE, m}) = IF CHUNK_SIZE <= m THEN CHUNK_SIZE ELSE m
    BY <1>3, MinMax DEF CHUNK_SIZE
  <1>5. Readable(c) = Min({CHUNK_SIZE, m})
    BY DEF Readable, m
  <1> QED
    BY <1>1, <1>2, <1>3, <1>4, <1>5 DEF CHUNK_SIZE

LEMMA TypeStep == TypeInv /\ FileInv /\ [Next]_vars => TypeInv'
  <1> SUFFICES ASSUME TypeInv, FileInv, [Next]_vars PROVE TypeInv'
    OBVIOUS
  <1> USE DEF fixed, sender, client, wire, receiver, server, task, disk
  <1>1. CASE ApiDownload
    <2>1. job' \in [Conns -> Jobs]
      <3>1. \A r \in Jobs : [r EXCEPT !.pc = "load"] \in Jobs
        BY DEF Jobs, JobPc
      <3>2. job' = job \/ (conn \in Conns /\ job' = [job EXCEPT ![conn] = [job[conn] EXCEPT !.pc = "load"]])
        BY <1>1 DEF ApiDownload, Live, TypeInv
      <3>3. \A x \in Conns : job[x] \in Jobs
        BY DEF TypeInv
      <3>4. job' = job \/ \E x \in Conns, r \in Jobs : job' = [job EXCEPT ![x] = r]
        BY <3>1, <3>2, <3>3, Zenon
      <3>5. CASE job' = job
        BY <3>5 DEF TypeInv
      <3>6. CASE \E x \in Conns, r \in Jobs : job' = [job EXCEPT ![x] = r]
        BY <3>6 DEF TypeInv
      <3> QED
        BY <3>4, <3>5, <3>6
    <2>2. held' \in [Conns -> BOOLEAN]
      BY <1>1 DEF ApiDownload, TypeInv
    <2> QED
      BY <1>1, <2>1, <2>2 DEF ApiDownload, TypeInv
  <1>2. CASE Modify
    <2>1. src' \in Source
      BY <1>2, StreamAssumption DEF Modify, TypeInv, Source
    <2> QED
      BY <1>2, <2>1 DEF Modify, TypeInv
  <1>3. CASE ApiSenderReject
    <2>1. upload' \in [Conns -> Uploads]
      BY <1>3, Constructors DEF ApiSenderReject, TypeInv
    <2>2. toS' \in [Conns -> Seq(Message)]
      BY <1>3, RejectMessage DEF ApiSenderReject, TypeInv
    <2> QED
      BY <1>3, <2>1, <2>2 DEF ApiSenderReject, TypeInv, Ended
  <1>4. CASE ApiReject
    <2>1. toC' \in [Conns -> Seq(Message)] /\ held' \in [Conns -> BOOLEAN] /\ aborted' \in [Conns -> BOOLEAN]
      <3>1. CASE Live
        <4>1. SendC(conn, <<RejectMsg>>) /\ StopTask(conn) /\ conn \in Conns
          BY <1>4, <3>1 DEF ApiReject, Live, TypeInv
        <4> QED
          BY <4>1, RejectMessage, SendCTyped, StopTaskTyped
      <3>2. CASE ~Live
        BY <1>4, <3>2 DEF ApiReject, TypeInv
      <3> QED
        BY <3>1, <3>2
    <2> QED
      BY <1>4, <2>1 DEF ApiReject, TypeInv, Ended, RemoveTemp
  <1>5. CASE ApiCancel
    <2>1. toC' \in [Conns -> Seq(Message)]
      <3>1. CASE Live
        <4>1. SendC(conn, <<Note("Close")>>) /\ Note("Close") \in Message /\ conn \in Conns
          BY <1>5, <3>1, NoteTyped DEF ApiCancel, Kinds, Live, TypeInv
        <4> QED
          BY <4>1, SendCTyped
      <3>2. CASE ~Live
        BY <1>5, <3>2 DEF ApiCancel, TypeInv
      <3> QED
        BY <3>1, <3>2
    <2>2. held' \in [Conns -> BOOLEAN] /\ closed' \in BOOLEAN
      BY <1>5 DEF ApiCancel, TypeInv
    <2>3. sv' \in [Conns -> {"off", "run", "drain", "ok", "fin", "err", "end"}]
      BY <1>5 DEF ApiCancel, TypeInv
    <2> QED
      BY <1>5, <2>1, <2>2, <2>3 DEF ApiCancel, TypeInv
  <1>6. CASE Crash
    <2>1. job' \in [Conns -> Jobs]
      BY <1>6, Constructors DEF Crash, TypeInv
    <2>2. crashes' \in 0 .. MaxCrashes
      BY <1>6, StreamAssumption DEF Crash, TypeInv
    <2>3. sv' \in [Conns -> {"off", "run", "drain", "ok", "fin", "err", "end"}]
      BY <1>6 DEF Crash, TypeInv
    <2>4. /\ toS' \in [Conns -> Seq(Message)] /\ chunks' \in [Conns -> Seq(Seq(Block))]
          /\ reports' \in [Conns -> Seq(Message)]
      BY <1>6 DEF Crash
    <2>5. held' \in [Conns -> BOOLEAN] /\ aborted' \in [Conns -> BOOLEAN]
      BY <1>6 DEF Crash
    <2> QED
      BY <1>6, <2>1, <2>2, <2>3, <2>4, <2>5 DEF Crash, TypeInv
  <1>7. CASE SaveChecksum
    BY <1>7 DEF SaveChecksum, TypeInv
  <1>8. ASSUME NEW c \in Conns, Connect(c) PROVE TypeInv'
    <2>1. job' \in [Conns -> Jobs]
      <3>1. \A r \in Jobs : [r EXCEPT !.pc = "load"] \in Jobs
        BY DEF Jobs, JobPc
      <3>2. job' = job \/ job' = [job EXCEPT ![c] = [job[c] EXCEPT !.pc = "load"]]
        BY <1>8 DEF Connect, TypeInv
      <3>3. job[c] \in Jobs
        BY DEF TypeInv
      <3>4. job' = job \/ \E r \in Jobs : job' = [job EXCEPT ![c] = r]
        BY <3>1, <3>2, <3>3, Zenon
      <3> QED
        BY <3>4 DEF TypeInv
    <2>2. toS' \in [Conns -> Seq(Message)]
      BY <1>8, PendingTyped DEF Connect, TypeInv
    <2>3. toC' \in [Conns -> Seq(Message)] /\ DOMAIN cell' = Conns
      <3>1. Msg("ReqChsum", size, <<>>) \in Message
        BY DEF Msg, Message, Kinds, TypeInv
      <3>2. Append(PendingC, Msg("ReqChsum", size, <<>>)) \in Seq(Message)
        BY <3>1, PendingTyped
      <3>3. toC' = toC \/ toC' = [toC EXCEPT ![c] = PendingC]
            \/ toC' = [toC EXCEPT ![c] = Append(PendingC, Msg("ReqChsum", size, <<>>))]
        BY <1>8 DEF Connect, UpgradeV2, UpgradeV4
      <3>4. DOMAIN cell' = Conns
        BY <1>8 DEF Connect, UpgradeV2, UpgradeV4, TypeInv
      <3>5. PendingC \in Seq(Message)
        BY PendingTyped
      <3>6. toC' = toC \/ \E s \in Seq(Message) : toC' = [toC EXCEPT ![c] = s]
        BY <3>2, <3>3, <3>5, Zenon
      <3>7. CASE toC' = toC
        BY <3>4, <3>7 DEF TypeInv
      <3>8. CASE \E s \in Seq(Message) : toC' = [toC EXCEPT ![c] = s]
        BY <3>4, <3>8 DEF TypeInv
      <3> QED
        BY <3>6, <3>7, <3>8
    <2>4. held' \in [Conns -> BOOLEAN]
      <3>1. (rstat = "InFlight") \in BOOLEAN
        OBVIOUS
      <3> QED
        BY <1>8, <3>1 DEF Connect, TypeInv
    <2>5. /\ cl' \in [Conns -> {"off", "run", "end", "closed"}]
          /\ sv' \in [Conns -> {"off", "run", "drain", "ok", "fin", "err", "end"}]
      BY <1>8 DEF Connect, TypeInv
    <2> QED
      BY <1>8, <2>1, <2>2, <2>3, <2>4, <2>5 DEF Connect, TypeInv
  <1>9. ASSUME NEW c \in Conns, ConnectClosed(c) PROVE TypeInv'
    <2>1. toC' \in [Conns -> Seq(Message)]
      <3>1. Note("Close") \in Message
        BY NoteTyped DEF Kinds
      <3> QED
        BY <1>9, <3>1 DEF ConnectClosed, TypeInv
    <2>2. /\ cl' \in [Conns -> {"off", "run", "end", "closed"}]
          /\ sv' \in [Conns -> {"off", "run", "drain", "ok", "fin", "err", "end"}]
      BY <1>9 DEF ConnectClosed, TypeInv
    <2> QED
      BY <1>9, <2>1, <2>2 DEF ConnectClosed, TypeInv
  <1>10. ASSUME NEW c \in Conns, RecvReqChsum(c) PROVE TypeInv'
    <2>1. toC' \in [Conns -> Seq(Message)] /\ Head(toC[c]) \in Message
      BY <1>10, TakeCTyped DEF RecvReqChsum, GotC
    <2>2. [limit |-> Head(toC[c]).n, seen |-> src] \in [limit : Nat, seen : Source]
      BY <2>1 DEF Message, TypeInv
    <2>3. sums' \in [Conns -> SUBSET [limit : Nat, seen : Source]]
      BY <1>10, <2>2 DEF RecvReqChsum, TypeInv
    <2> QED
      BY <1>10, <2>1, <2>3 DEF RecvReqChsum, TypeInv
  <1>11. ASSUME NEW c \in Conns, ReportChsum(c) PROVE TypeInv'
    <2>1. PICK t \in sums[c] :
            /\ sums' = [sums EXCEPT ![c] = @ \ {t}]
            /\ IF sstat = "Alive"
               THEN \E b \in Checksums(t) : SendS(c, <<Msg("ReportChsum", t.limit, b)>>)
               ELSE SendS(c, <<Note("Error")>>)
      BY <1>11 DEF ReportChsum
    <2>2. t \in [limit : Nat, seen : Source] /\ sums' \in [Conns -> SUBSET [limit : Nat, seen : Source]]
      BY <2>1 DEF TypeInv
    <2>3. \A b \in Checksums(t) : Msg("ReportChsum", t.limit, b) \in Message
      BY <2>2, ChecksumsTyped DEF Msg, Message, Kinds
    <2>4. Note("Error") \in Message
      BY NoteTyped DEF Kinds
    <2>5. toS' \in [Conns -> Seq(Message)]
      BY <2>1, <2>3, <2>4, SendSTyped, ZenonT(60)
    <2> QED
      BY <1>11, <2>2, <2>5, SMTT(60) DEF ReportChsum, TypeInv
  <1>12. ASSUME NEW c \in Conns, RecvStart(c) PROVE TypeInv'
    <2>1. toC' \in [Conns -> Seq(Message)] /\ Head(toC[c]) \in Message
      BY <1>12, TakeCTyped DEF RecvStart, GotC
    <2>9. Note("Error") \in Message
      BY NoteTyped DEF Kinds
    <2>2. Head(toC[c]).n \in Nat
      BY <2>1 DEF Message
    <2>3. \A p \in Nat : [NoUpload EXCEPT !.pc = "open", !.pos = p] \in Uploads
      BY Constructors DEF Uploads
    <2>4. [NoUpload EXCEPT !.pc = "open"] \in Uploads
      BY Constructors DEF Uploads
    <2>5. upload' \in [Conns -> Uploads]
      BY <1>12, <2>2, <2>3, <2>4 DEF RecvStart, OnDownload, OnStart, TypeInv
    <2>6. toS' = toS \/ SendS(c, <<Note("Error")>>)
      BY <1>12 DEF RecvStart, OnDownload, OnStart
    <2>7. toS' \in [Conns -> Seq(Message)]
      BY <2>6, <2>9, SendSTyped DEF TypeInv
    <2> QED
      BY <1>12, <2>1, <2>5, <2>7 DEF RecvStart, TypeInv
  <1>13. ASSUME NEW c \in Conns, UploadOpen(c) PROVE TypeInv'
    <2>1. upload' \in [Conns -> Uploads]
      <3>1. upload[c] \in Uploads /\ src \in Source
        BY DEF TypeInv
      <3>2. [upload[c] EXCEPT !.pc = "read", !.meta = src] \in Uploads
        BY <3>1 DEF Uploads
      <3>3. upload' = [upload EXCEPT ![c] = [upload[c] EXCEPT !.pc = "read", !.meta = src]]
        BY <1>13 DEF UploadOpen, TypeInv
      <3> QED
        BY <3>2, <3>3 DEF TypeInv
    <2> QED
      BY <1>13, <2>1 DEF UploadOpen, TypeInv
  <1>14. ASSUME NEW c \in Conns, UploadChunk(c) PROVE TypeInv'
    <2> DEFINE n == Readable(c)
               d == [i \in 1 .. n |-> <<src.mtime, upload[c].pos + i>>]
    <2>1. n \in Nat /\ upload[c].pos \in Nat /\ src.mtime \in Nat
      BY ReadableIs DEF TypeInv, Uploads, Source
    <2>2. /\ SendS(c, <<Msg("Chunk", n, d)>>)
          /\ upload' = [upload EXCEPT ![c].pos = @ + n]
      BY <1>14 DEF UploadChunk
    <2> HIDE DEF n
    <2>3. d \in [1 .. n -> Block]
      BY <2>1 DEF Block
    <2> HIDE DEF d
    <2>4. d \in Seq(Block)
      BY <2>1, <2>3, SeqOf
    <2>5. Msg("Chunk", n, d) \in Message
      BY <2>1, <2>4 DEF Msg, Message, Kinds
    <2>6. toS' \in [Conns -> Seq(Message)]
      BY <2>2, <2>5, SendSTyped
    <2>7. upload' \in [Conns -> Uploads]
      <3>0. upload[c] \in Uploads /\ upload[c].pos + n \in Nat
        <4>1. upload[c] \in Uploads
          BY DEF TypeInv
        <4>2. upload[c].pos + n \in Nat
          BY <2>1
        <4> QED
          BY <4>1, <4>2
      <3>1. [upload[c] EXCEPT !.pos = upload[c].pos + n] \in Uploads
        BY <3>0 DEF Uploads
      <3>2. upload' = [upload EXCEPT ![c] = [upload[c] EXCEPT !.pos = upload[c].pos + n]]
        BY <2>2 DEF TypeInv
      <3> QED
        BY <3>1, <3>2 DEF TypeInv
    <2> QED
      BY <1>14, <2>6, <2>7 DEF UploadChunk, TypeInv
  <1>15. ASSUME NEW c \in Conns, UploadDone(c) PROVE TypeInv'
    <2>1. upload' \in [Conns -> Uploads]
      <3>1. upload[c] \in Uploads /\ src \in Source
        BY DEF TypeInv
      <3>2. [upload[c] EXCEPT !.pc = "end"] \in Uploads
        BY <3>1 DEF Uploads
      <3>3. upload' = [upload EXCEPT ![c] = [upload[c] EXCEPT !.pc = "end"]]
        BY <1>15 DEF UploadDone, TypeInv
      <3> QED
        BY <3>2, <3>3 DEF TypeInv
    <2> QED
      BY <1>15, <2>1 DEF UploadDone, TypeInv
  <1>16. ASSUME NEW c \in Conns, UploadFail(c) PROVE TypeInv'
    <2>1. upload' \in [Conns -> Uploads]
      <3>1. upload[c] \in Uploads /\ src \in Source
        BY DEF TypeInv
      <3>2. [upload[c] EXCEPT !.pc = "end"] \in Uploads
        BY <3>1 DEF Uploads
      <3>3. upload' = [upload EXCEPT ![c] = [upload[c] EXCEPT !.pc = "end"]]
        BY <1>16 DEF UploadFail, TypeInv
      <3> QED
        BY <3>2, <3>3 DEF TypeInv
    <2>9. Note("Error") \in Message
      BY NoteTyped DEF Kinds
    <2>2. toS' \in [Conns -> Seq(Message)]
      BY <1>16, <2>9, SendSTyped DEF UploadFail
    <2> QED
      BY <1>16, <2>1, <2>2 DEF UploadFail, TypeInv, Ended
  <1>17. ASSUME NEW c \in Conns, RecvVerdict(c) PROVE TypeInv'
    <2>1. toC' \in [Conns -> Seq(Message)] /\ Head(toC[c]) \in Message
      BY <1>17, TakeCTyped DEF RecvVerdict, GotC
    <2>2. upload' \in [Conns -> Uploads]
      BY <1>17, Constructors DEF RecvVerdict, TypeInv
    <2>3. sstat' \in {"Alive"} \cup Ended
      BY <1>17 DEF RecvVerdict, TypeInv, VerdictOf, Ended
    <2> QED
      BY <1>17, <2>1, <2>2, <2>3 DEF RecvVerdict, TypeInv
  <1>18. ASSUME NEW c \in Conns, RecvCancelC(c) PROVE TypeInv'
    <2>1. toC' \in [Conns -> Seq(Message)] /\ Head(toC[c]) \in Message
      BY <1>18, TakeCTyped DEF RecvCancelC, GotC
    <2>2. upload' \in [Conns -> Uploads]
      BY <1>18, Constructors DEF RecvCancelC, TypeInv
    <2> QED
      BY <1>18, <2>1, <2>2 DEF RecvCancelC, TypeInv
  <1>19. ASSUME NEW c \in Conns, RecvClose(c) PROVE TypeInv'
    BY <1>19, ClientEndsTyped DEF RecvClose, TypeInv
  <1>20. ASSUME NEW c \in Conns, ClientBreak(c) PROVE TypeInv'
    BY <1>20, ClientEndsTyped DEF ClientBreak, TypeInv
  <1>21. ASSUME NEW c \in Conns, RecvChunk(c) PROVE TypeInv'
    <2>1. toS' \in [Conns -> Seq(Message)] /\ Head(toS[c]) \in Message
      BY <1>21, TakeSTyped DEF RecvChunk, GotS
    <2>9. Note("Error") \in Message
      BY NoteTyped DEF Kinds
    <2>2. Head(toS[c]).d \in Seq(Block)
      BY <2>1 DEF Message
    <2>3. chunks' \in [Conns -> Seq(Seq(Block))]
      <3>1. Append(chunks[c], Head(toS[c]).d) \in Seq(Seq(Block))
        BY <2>2 DEF TypeInv
      <3>2. chunks' = chunks \/ chunks' = [chunks EXCEPT ![c] = Append(chunks[c], Head(toS[c]).d)]
        BY <1>21 DEF RecvChunk, TypeInv
      <3> QED
        BY <3>1, <3>2 DEF TypeInv
    <2>4. toC' \in [Conns -> Seq(Message)]
      BY <1>21, <2>9, SendCTyped DEF RecvChunk, TypeInv
    <2> QED
      BY <1>21, <2>1, <2>3, <2>4 DEF RecvChunk, TypeInv
  <1>22. ASSUME NEW c \in Conns, RecvReportChsum(c) PROVE TypeInv'
    <2>1. toS' \in [Conns -> Seq(Message)] /\ Head(toS[c]) \in Message
      BY <1>22, TakeSTyped DEF RecvReportChsum, GotS
    <2>2. reports' \in [Conns -> Seq(Message)]
      <3>1. Append(reports[c], Head(toS[c])) \in Seq(Message)
        BY <2>1 DEF TypeInv
      <3>2. reports' = reports \/ reports' = [reports EXCEPT ![c] = Append(reports[c], Head(toS[c]))]
        BY <1>22 DEF RecvReportChsum, TypeInv
      <3>3. reports' = reports \/ \E s \in Seq(Message) : reports' = [reports EXCEPT ![c] = s]
        BY <3>1, <3>2, Zenon
      <3> QED
        BY <3>3 DEF TypeInv
    <2>3. DOMAIN cell' = Conns
      BY <1>22 DEF RecvReportChsum, TypeInv
    <2> QED
      BY <1>22, <2>1, <2>2, <2>3 DEF RecvReportChsum, TypeInv
  <1>23. ASSUME NEW c \in Conns, RecvError(c) PROVE TypeInv'
    <2>1. toS' \in [Conns -> Seq(Message)] /\ Head(toS[c]) \in Message
      BY <1>23, TakeSTyped DEF RecvError, GotS
    <2>2. held' \in [Conns -> BOOLEAN] /\ aborted' \in [Conns -> BOOLEAN]
      BY <1>23, StopTaskTyped DEF RecvError
    <2> QED
      BY <1>23, <2>1, <2>2 DEF RecvError, TypeInv, Ended, RemoveTemp
  <1>24. ASSUME NEW c \in Conns, RecvReject(c) PROVE TypeInv'
    <2>1. toS' \in [Conns -> Seq(Message)] /\ Head(toS[c]) \in Message
      BY <1>24, TakeSTyped DEF RecvReject, GotS
    <2>2. held' \in [Conns -> BOOLEAN] /\ aborted' \in [Conns -> BOOLEAN]
      BY <1>24, StopTaskTyped DEF RecvReject
    <2> QED
      BY <1>24, <2>1, <2>2 DEF RecvReject, TypeInv, Ended, RemoveTemp
  <1>25. ASSUME NEW c \in Conns, RecvCancel(c) PROVE TypeInv'
    <2>1. toS' \in [Conns -> Seq(Message)] /\ Head(toS[c]) \in Message
      BY <1>25, TakeSTyped DEF RecvCancel, GotS
    <2>2. held' \in [Conns -> BOOLEAN] /\ aborted' \in [Conns -> BOOLEAN]
      BY <1>25, StopTaskTyped DEF RecvCancel
    <2> QED
      BY <1>25, <2>1, <2>2 DEF RecvCancel, TypeInv, Ended, RemoveTemp
  <1>26. ASSUME NEW c \in Conns, JobInit(c) PROVE TypeInv'
    <2>1. job' \in [Conns -> Jobs]
      <3>1. \A r \in Jobs : [r EXCEPT !.pc = "start"] \in Jobs
        BY DEF Jobs, JobPc
      <3>2. \A r \in Jobs, b \in Seq(Block), p \in JobPc :
              [r EXCEPT !.len = Len(b), !.csum = b, !.pc = p] \in Jobs
        <4> SUFFICES ASSUME NEW r \in Jobs, NEW b \in Seq(Block), NEW p \in JobPc
                     PROVE  [r EXCEPT !.len = Len(b), !.csum = b, !.pc = p] \in Jobs
          OBVIOUS
        <4>1. Len(b) \in Nat
          OBVIOUS
        <4> QED
          BY <4>1 DEF Jobs
      <3>3. \/ job' = [job EXCEPT ![c] = [job[c] EXCEPT !.pc = "start"]]
            \/ /\ tmp # NoIno
               /\ \E p \in {"partial", "full", "start"} :
                    job' = [job EXCEPT ![c] = [job[c] EXCEPT !.len = Len(ino[tmp]), !.csum = ino[tmp], !.pc = p]]
        BY <1>26 DEF JobInit, InitV2, InitV4, TypeInv
      <3>4. {"partial", "full", "start"} \subseteq JobPc
        BY DEF JobPc
      <3>5. tmp # NoIno => ino[tmp] \in Seq(Block)
        BY DEF TypeInv
      <3>6. job[c] \in Jobs
        BY DEF TypeInv
      <3>7. \E r \in Jobs : job' = [job EXCEPT ![c] = r]
        BY <3>1, <3>2, <3>3, <3>4, <3>5, <3>6, Zenon
      <3> QED
        BY <3>7 DEF TypeInv
    <2>2. toC' \in [Conns -> Seq(Message)]
      <3>1. toC' = toC \/ (tmp # NoIno /\ SendC(c, <<Msg("ReqChsum", Len(ino[tmp]), <<>>)>>))
        BY <1>26 DEF JobInit, InitV2, InitV4
      <3>2. tmp # NoIno => Msg("ReqChsum", Len(ino[tmp]), <<>>) \in Message
        BY DEF Msg, Message, Kinds, TypeInv
      <3> QED
        BY <3>1, <3>2, SendCTyped DEF TypeInv
    <2> QED
      BY <1>26, <2>1, <2>2 DEF JobInit, TypeInv
  <1>27. ASSUME NEW c \in Conns, JobPartial(c) PROVE TypeInv'
    <2>1. job' \in [Conns -> Jobs]
      <3>1. \A r \in Jobs, o \in Nat : [r EXCEPT !.pc = "start", !.offset = o] \in Jobs
        BY DEF Jobs, JobPc
      <3>2. \E o \in {job[c].len, 0} : job' = [job EXCEPT ![c] = [job[c] EXCEPT !.pc = "start", !.offset = o]]
        BY <1>27 DEF JobPartial, TypeInv
      <3>3. job[c] \in Jobs /\ {job[c].len, 0} \subseteq Nat
        BY DEF TypeInv, Jobs
      <3>4. \E r \in Jobs : job' = [job EXCEPT ![c] = r]
        BY <3>1, <3>2, <3>3, Zenon
      <3> QED
        BY <3>4 DEF TypeInv
    <2>2. reports' \in [Conns -> Seq(Message)]
      BY <1>27 DEF JobPartial, TypeInv
    <2> QED
      BY <1>27, <2>1, <2>2 DEF JobPartial, TypeInv
  <1>28. ASSUME NEW c \in Conns, JobFull(c) PROVE TypeInv'
    <2>1. job' \in [Conns -> Jobs]
      <3>1. \A r \in Jobs, o \in Nat : [r EXCEPT !.pc = "start", !.offset = o] \in Jobs
        BY DEF Jobs, JobPc
      <3>2. \E o \in {job[c].len, 0} : job' = [job EXCEPT ![c] = [job[c] EXCEPT !.pc = "start", !.offset = o]]
        BY <1>28 DEF JobFull, TypeInv
      <3>3. job[c] \in Jobs /\ {job[c].len, 0} \subseteq Nat
        BY DEF TypeInv, Jobs
      <3>4. \E r \in Jobs : job' = [job EXCEPT ![c] = r]
        BY <3>1, <3>2, <3>3, Zenon
      <3> QED
        BY <3>4 DEF TypeInv
    <2> QED
      BY <1>28, <2>1 DEF JobFull, TypeInv
  <1>29. ASSUME NEW c \in Conns, JobStart(c) PROVE TypeInv'
    <2>0. job[c] \in Jobs /\ job[c].offset \in Nat
      BY DEF TypeInv, Jobs
    <2>1. toC' \in [Conns -> Seq(Message)]
      <3>1. Msg("Start", job[c].offset, <<>>) \in Message
        BY <2>0 DEF Msg, Message, Kinds
      <3>2. toC' = toC \/ SendC(c, <<Msg("Start", job[c].offset, <<>>)>>)
        BY <1>29 DEF JobStart
      <3> QED
        BY <3>1, <3>2, SendCTyped DEF TypeInv
    <2>2. CASE job[c].offset = 0
      <3> DEFINE i == IF tmp = NoIno THEN c ELSE tmp
      <3>0. tmp' = i /\ ino' = [ino EXCEPT ![i] = <<>>] /\ aborted' = aborted
        BY <1>29, <2>2 DEF JobStart
      <3>5. job' = [job EXCEPT ![c].pc = "recv", ![c].fd = i]
        BY <1>29, <2>2 DEF JobStart
      <3>6. i \in Conns
        BY DEF TypeInv
      <3> HIDE DEF i
      <3>1. job' = [job EXCEPT ![c] = [job[c] EXCEPT !.pc = "recv", !.fd = i]]
        BY <3>5 DEF TypeInv
      <3>2. \A r \in Jobs : [r EXCEPT !.pc = "recv", !.fd = i] \in Jobs
        BY <3>6 DEF Jobs, JobPc
      <3>3. ino' \in [Conns -> Seq(Block)]
        BY <3>0, <3>6 DEF TypeInv
      <3>4. job' \in [Conns -> Jobs]
        BY <2>0, <3>1, <3>2 DEF TypeInv
      <3> QED
        BY <1>29, <2>1, <3>0, <3>6, <3>3, <3>4 DEF JobStart, TypeInv
    <2>3. CASE job[c].offset # 0 /\ tmp = NoIno
      <3>1. JobTo(c, "bad") /\ tmp' = tmp /\ ino' = ino
        BY <1>29, <2>3 DEF JobStart
      <3>2. job' \in [Conns -> Jobs] /\ aborted' \in [Conns -> BOOLEAN]
        BY <3>1, JobToTyped DEF JobPc
      <3> QED
        BY <1>29, <2>1, <3>1, <3>2 DEF JobStart, TypeInv
    <2>4. CASE job[c].offset # 0 /\ tmp # NoIno
      <3>1. /\ job' = [job EXCEPT ![c] = [job[c] EXCEPT !.pc = "recv", !.fd = tmp, !.received = job[c].offset]]
            /\ aborted' = aborted /\ tmp' = tmp /\ ino' = ino
        BY <1>29, <2>4 DEF JobStart, TypeInv
      <3>2. \A r \in Jobs, o \in Nat : [r EXCEPT !.pc = "recv", !.fd = tmp, !.received = o] \in Jobs
        BY DEF Jobs, JobPc, TypeInv
      <3>3. job' \in [Conns -> Jobs]
        BY <2>0, <3>1, <3>2 DEF TypeInv
      <3> QED
        BY <1>29, <2>1, <3>1, <3>3 DEF JobStart, TypeInv
    <2> QED
      BY <2>2, <2>3, <2>4
  <1>30. ASSUME NEW c \in Conns, JobChunk(c) PROVE TypeInv'
    <2> DEFINE d == Head(chunks[c])
    <2>1. d \in Seq(Block) /\ chunks' \in [Conns -> Seq(Seq(Block))]
      BY <1>30 DEF JobChunk, TypeInv
    <2> HIDE DEF d
    <2>2. job[c] \in Jobs /\ job[c].received \in Nat /\ Len(d) \in Nat /\ job[c].received + Len(d) \in Nat
      <3>1. job[c] \in Jobs /\ job[c].received \in Nat
        BY DEF TypeInv, Jobs
      <3>2. Len(d) \in Nat
        BY <2>1
      <3> QED
        BY <3>1, <3>2
    <2>3. CASE job[c].received + Len(d) > size
      <3>1. RemoveTemp /\ JobTo(c, "bad") /\ ino' = ino
        BY <1>30, <2>3 DEF JobChunk, d
      <3>2. job' \in [Conns -> Jobs] /\ aborted' \in [Conns -> BOOLEAN]
        BY <3>1, JobToTyped DEF JobPc
      <3> QED
        BY <1>30, <2>1, <3>1, <3>2 DEF JobChunk, TypeInv, RemoveTemp
    <2>4. CASE ~(job[c].received + Len(d) > size)
      <3>1. /\ ino' = [ino EXCEPT ![job[c].fd] = Written(@, job[c].received, d, job[c].offset > 0)]
            /\ job' = [job EXCEPT ![c] = [job[c] EXCEPT !.received = job[c].received + Len(d)]]
            /\ tmp' = tmp /\ aborted' = aborted
        BY <1>30, <2>4 DEF JobChunk, TypeInv, d
      <3>2. \A r \in Jobs, n \in Nat : [r EXCEPT !.received = n] \in Jobs
        BY DEF Jobs
      <3>3. job' \in [Conns -> Jobs]
        <4>1. \E x \in Jobs : job' = [job EXCEPT ![c] = x]
          BY <2>2, <3>1, <3>2, Zenon
        <4> QED
          BY <4>1 DEF TypeInv
      <3>4. ino' \in [Conns -> Seq(Block)]
        <4>1. job[c].fd \in Conns /\ Len(ino[job[c].fd]) = job[c].received /\ ino[job[c].fd] \in Seq(Block)
          BY <1>30 DEF JobChunk, JobAt, FileInv, FileAt, TypeInv
        <4>2. (job[c].offset > 0) \in BOOLEAN
          BY DEF TypeInv, Jobs
        <4>3. Written(ino[job[c].fd], job[c].received, d, job[c].offset > 0) \in Seq(Block)
          BY <2>1, <4>1, <4>2, WrittenTyped
        <4> QED
          BY <3>1, <4>1, <4>3 DEF TypeInv
      <3> QED
        BY <1>30, <2>1, <3>1, <3>3, <3>4 DEF JobChunk, TypeInv
    <2> QED
      BY <2>3, <2>4
  <1>31. ASSUME NEW c \in Conns, JobReceived(c) PROVE TypeInv'
    BY <1>31, JobToTyped DEF JobReceived, TypeInv, JobPc
  <1>32. ASSUME NEW c \in Conns, JobValidate(c) PROVE TypeInv'
    <2>1. \E s \in JobPc : JobTo(c, s)
      BY <1>32 DEF JobValidate, JobPc
    <2>2. tmp' \in {tmp, NoIno}
      BY <1>32 DEF JobValidate, RemoveTemp
    <2> QED
      BY <1>32, <2>1, <2>2, JobToTyped DEF JobValidate, TypeInv
  <1>33. ASSUME NEW c \in Conns, JobPlace(c) PROVE TypeInv'
    <2>1. \E s \in JobPc : JobTo(c, s)
      BY <1>33 DEF JobPlace, JobPc
    <2>2. tmp' \in {tmp, NoIno}
      BY <1>33 DEF JobPlace
    <2>3. \A d \in dest' : d.ino \in Conns
      BY <1>33 DEF JobPlace, TypeInv
    <2> QED
      BY <1>33, <2>1, <2>2, <2>3, JobToTyped DEF JobPlace, TypeInv
  <1>34. ASSUME NEW c \in Conns, JobPost(c) PROVE TypeInv'
    <2>1. toC' \in [Conns -> Seq(Message)]
      <3>1. Note("Error") \in Message /\ Note("Done") \in Message
        BY NoteTyped DEF Kinds
      <3>2. toC' = toC \/ SendC(c, <<Note("Error")>>) \/ SendC(c, <<Note("Done")>>)
        BY <1>34 DEF JobPost
      <3> QED
        BY <3>1, <3>2, SendCTyped DEF TypeInv
    <2>2. rstat' \in {"Idle", "InFlight"} \cup Ended
      BY <1>34 DEF JobPost, TypeInv, Ended
    <2> QED
      BY <1>34, <2>1, <2>2, JobEndsTyped DEF JobPost, TypeInv
  <1>35. ASSUME NEW c \in Conns, JobCanceled(c) PROVE TypeInv'
    BY <1>35, JobEndsTyped DEF JobCanceled, TypeInv
  <1>36. ASSUME NEW c \in Conns, Drained(c) PROVE TypeInv'
    <2>1. toS' \in [Conns -> Seq(Message)]
      BY <1>36 DEF Drained, Leave, TypeInv
    <2>2. aborted' \in [Conns -> BOOLEAN]
      BY <1>36 DEF Drained, Leave, TypeInv
    <2>3. sv' \in [Conns -> {"off", "run", "drain", "ok", "fin", "err", "end"}]
      BY <1>36 DEF Drained, Leave, TypeInv
    <2> QED
      BY <1>36, <2>1, <2>2, <2>3 DEF Drained, TypeInv
  <1>37. ASSUME NEW c \in Conns, Finalize(c) PROVE TypeInv'
    <2>1. tmp' \in {tmp, NoIno}
      BY <1>37 DEF Finalize, FinalizeSuccessV2, FinalizeSuccessV4, RemoveTemp
    <2>2. sv' \in [Conns -> {"off", "run", "drain", "ok", "fin", "err", "end"}]
      BY <1>37 DEF Finalize, TypeInv
    <2>3. held' \in [Conns -> BOOLEAN]
      BY <1>37 DEF Finalize, TypeInv
    <2> QED
      BY <1>37, <2>1, <2>2, <2>3 DEF Finalize, TypeInv
  <1>38. ASSUME NEW c \in Conns, ServerBreak(c) PROVE TypeInv'
    <2>1. toS' \in [Conns -> Seq(Message)]
      BY <1>38 DEF ServerBreak, Leave, TypeInv
    <2>2. aborted' \in [Conns -> BOOLEAN]
      BY <1>38 DEF ServerBreak, Leave, TypeInv
    <2>3. sv' \in [Conns -> {"off", "run", "drain", "ok", "fin", "err", "end"}]
      BY <1>38 DEF ServerBreak, Leave, TypeInv
    <2> QED
      BY <1>38, <2>1, <2>2, <2>3 DEF ServerBreak, TypeInv
  <1>39. CASE UNCHANGED vars
    BY <1>39 DEF vars, TypeInv
  <1> QED
    BY <1>1, <1>2, <1>3, <1>4, <1>5, <1>6, <1>7, <1>8, <1>9, <1>10, <1>11, <1>12,
       <1>13, <1>14, <1>15, <1>16, <1>17, <1>18, <1>19, <1>20, <1>21, <1>22, <1>23, <1>24,
       <1>25, <1>26, <1>27, <1>28, <1>29, <1>30, <1>31, <1>32, <1>33, <1>34, <1>35, <1>36,
       <1>37, <1>38, <1>39
       DEF Next, Environment, Running

-----------------------------------------------------------------------------
(* Connections.                                                            *)

\* A step of one connection.
Local(c) ==
  \A x \in Conns \ {c} :
    /\ cl'[x] = cl[x] /\ sv'[x] = sv[x] /\ job'[x] = job[x] /\ upload'[x] = upload[x]
    /\ toC'[x] = toC[x] /\ toS'[x] = toS[x] /\ chunks'[x] = chunks[x] /\ held'[x] = held[x]

\* It moves the connection forward, and starts no job where there is no loop.
Forward(c) ==
  /\ sv[c] # "off" /\ sv'[c] # "off" /\ (sv[c] = "end" => sv'[c] = "end")
  /\ cl'[c] = cl[c] \/ (cl[c] = "run" /\ cl'[c] # "off")
  /\ conn' \in {conn, NoConn} /\ (conn' = c => sv'[c] \notin {"fin", "end"})
  /\ job'[c].pc \in Abortable => sv'[c] \notin {"fin", "end"}
  /\ rstat' = "Idle" => rstat = "Idle" /\ job'[c].pc = "none"

LEMMA ConnKept ==
  ASSUME ConnInv, NEW c \in Conns, Local(c), Forward(c), conn \in Conns \cup {NoConn}
  PROVE  ConnInv'
  <1>1. ASSUME NEW x \in Conns, sv'[x] = "off" PROVE Blank(x)'
    <2>1. x # c /\ sv[x] = "off"
      BY <1>1 DEF Local, Forward
    <2> QED
      BY <2>1 DEF ConnInv, Local, Blank
  <1>2. ASSUME NEW x \in Conns, cl'[x] = "off" PROVE sv'[x] = "off"
    BY <1>2 DEF ConnInv, Local, Forward
  <1>3. ASSUME NEW x \in Conns, NEW y \in Conns, y < x, sv'[x] # "off"
        PROVE  cl'[y] = "end" /\ sv'[y] = "end"
    <2>1. sv[x] # "off"
      BY <1>3 DEF Local, Forward
    <2>2. cl[y] = "end" /\ sv[y] = "end"
      BY <1>3, <2>1 DEF ConnInv
    <2> QED
      BY <2>2 DEF Local, Forward
  <1>4. conn' # NoConn => sv'[conn'] \notin {"off", "fin", "end"}
    BY DEF ConnInv, Local, Forward
  <1>5. ASSUME NEW x \in Conns, sv'[x] \in {"off", "fin", "end"} PROVE job'[x].pc \notin Abortable
    BY <1>5 DEF ConnInv, Local, Forward
  <1>6. ASSUME NEW x \in Conns, rstat' = "Idle" PROVE job'[x].pc = "none"
    BY <1>6 DEF ConnInv, Local, Forward
  <1> QED
    BY <1>1, <1>2, <1>3, <1>4, <1>5, <1>6 DEF ConnInv

LEMMA ConnSame ==
  ASSUME ConnInv, UNCHANGED <<cl, sv, job, upload, toC, toS, chunks, conn>>, rstat' = "Idle" => rstat = "Idle"
  PROVE  ConnInv'
  BY DEF ConnInv, Blank

LEMMA OneJob ==
  ASSUME ConnInv, NEW c \in Conns, NEW d \in Conns, job[c].pc \in Abortable, job[d].pc \in Abortable
  PROVE  c = d
  <1>1. sv[c] \notin {"off", "fin", "end"} /\ sv[d] \notin {"off", "fin", "end"}
    BY DEF ConnInv
  <1>2. ~(c < d) /\ ~(d < c)
    BY <1>1 DEF ConnInv
  <1> QED
    BY <1>2, Numbers

\* A connection with something of its own is open.
LEMMA Open ==
  ASSUME TypeInv, ConnInv, NEW c \in Conns
  PROVE  /\ cl[c] # "off" => sv[c] # "off"
         /\ job[c].pc # "none" => sv[c] # "off" /\ rstat # "Idle"
         /\ upload[c].pc # "none" => sv[c] # "off"
         /\ job[c].pc \in Abortable => sv[c] \notin {"off", "fin", "end"}
         /\ (conn = c /\ conn # NoConn) => sv[c] \notin {"off", "fin", "end"}
  BY Constructors DEF ConnInv, Blank

\* A step that the loop of the server has no part in.
LEMMA ForwardSame ==
  ASSUME ConnInv, NEW c \in Conns, UNCHANGED <<sv, job, conn, rstat>>, sv[c] # "off",
         cl'[c] = cl[c] \/ (cl[c] = "run" /\ cl'[c] # "off")
  PROVE  Forward(c)
  BY Numbers DEF ConnInv, Forward

LEMMA ConnInit == Init => ConnInv
  BY Constructors DEF Init, ConnInv, Blank, Abortable

\* Which actions are steps of one connection.
LEMMA LocalSteps ==
  ASSUME TypeInv, NEW c \in Conns
  PROVE  /\ Connect(c) => Local(c)
         /\ ConnectClosed(c) => Local(c)
         /\ RecvReqChsum(c) => Local(c)
         /\ ReportChsum(c) => Local(c)
         /\ RecvStart(c) => Local(c)
         /\ UploadOpen(c) => Local(c)
         /\ UploadChunk(c) => Local(c)
         /\ UploadDone(c) => Local(c)
         /\ UploadFail(c) => Local(c)
         /\ RecvVerdict(c) => Local(c)
         /\ RecvCancelC(c) => Local(c)
         /\ RecvClose(c) => Local(c)
         /\ ClientBreak(c) => Local(c)
         /\ RecvChunk(c) => Local(c)
         /\ RecvReportChsum(c) => Local(c)
         /\ RecvError(c) => Local(c)
         /\ RecvReject(c) => Local(c)
         /\ RecvCancel(c) => Local(c)
         /\ JobInit(c) => Local(c)
         /\ JobPartial(c) => Local(c)
         /\ JobFull(c) => Local(c)
         /\ JobStart(c) => Local(c)
         /\ JobChunk(c) => Local(c)
         /\ JobReceived(c) => Local(c)
         /\ JobValidate(c) => Local(c)
         /\ JobPlace(c) => Local(c)
         /\ JobPost(c) => Local(c)
         /\ JobCanceled(c) => Local(c)
         /\ Drained(c) => Local(c)
         /\ Finalize(c) => Local(c)
         /\ ServerBreak(c) => Local(c)
  <1> USE DEF fixed, sender, client, wire, receiver, server, task, disk
  <1>1. ASSUME Connect(c) PROVE Local(c)
    BY <1>1 DEF Connect, Local, TypeInv, UpgradeV2, UpgradeV4
  <1>2. ASSUME ConnectClosed(c) PROVE Local(c)
    BY <1>2 DEF ConnectClosed, Local, TypeInv, UpgradeV2, UpgradeV4
  <1>3. ASSUME RecvReqChsum(c) PROVE Local(c)
    BY <1>3 DEF RecvReqChsum, Local, TypeInv, GotC, TakeC
  <1>4. ASSUME ReportChsum(c) PROVE Local(c)
    <2>1. UNCHANGED <<cl, sv, job, upload, toC, chunks, held>>
      BY <1>4 DEF ReportChsum
    <2>2. \E ms : SendS(c, ms)
      BY <1>4 DEF ReportChsum
    <2>3. \A x \in Conns \ {c} : toS'[x] = toS[x]
      BY <2>2 DEF SendS, TypeInv
    <2> QED
      BY <2>1, <2>3 DEF Local
  <1>5. ASSUME RecvStart(c) PROVE Local(c)
    BY <1>5 DEF RecvStart, Local, TypeInv, GotC, TakeC, OnStart, OnDownload, SendS
  <1>6. ASSUME UploadOpen(c) PROVE Local(c)
    BY <1>6 DEF UploadOpen, Local, TypeInv
  <1>7. ASSUME UploadChunk(c) PROVE Local(c)
    BY <1>7 DEF UploadChunk, Local, TypeInv, SendS
  <1>8. ASSUME UploadDone(c) PROVE Local(c)
    BY <1>8 DEF UploadDone, Local, TypeInv
  <1>9. ASSUME UploadFail(c) PROVE Local(c)
    BY <1>9 DEF UploadFail, Local, TypeInv, SendS
  <1>10. ASSUME RecvVerdict(c) PROVE Local(c)
    BY <1>10 DEF RecvVerdict, Local, TypeInv, GotC, TakeC
  <1>11. ASSUME RecvCancelC(c) PROVE Local(c)
    BY <1>11 DEF RecvCancelC, Local, TypeInv, GotC, TakeC
  <1>12. ASSUME RecvClose(c) PROVE Local(c)
    BY <1>12 DEF RecvClose, Local, TypeInv, GotC, ClientEnds
  <1>13. ASSUME ClientBreak(c) PROVE Local(c)
    BY <1>13 DEF ClientBreak, Local, TypeInv, ClientEnds
  <1>14. ASSUME RecvChunk(c) PROVE Local(c)
    BY <1>14 DEF RecvChunk, Local, TypeInv, GotS, TakeS, SendC
  <1>15. ASSUME RecvReportChsum(c) PROVE Local(c)
    BY <1>15 DEF RecvReportChsum, Local, TypeInv, GotS, TakeS
  <1>16. ASSUME RecvError(c) PROVE Local(c)
    BY <1>16 DEF RecvError, Local, TypeInv, GotS, TakeS, StopTask
  <1>17. ASSUME RecvReject(c) PROVE Local(c)
    BY <1>17 DEF RecvReject, Local, TypeInv, GotS, TakeS, StopTask
  <1>18. ASSUME RecvCancel(c) PROVE Local(c)
    BY <1>18 DEF RecvCancel, Local, TypeInv, GotS, TakeS, StopTask
  <1>19. ASSUME JobInit(c) PROVE Local(c)
    BY <1>19 DEF JobInit, Local, TypeInv, JobAt, InitV2, InitV4, SendC
  <1>20. ASSUME JobPartial(c) PROVE Local(c)
    BY <1>20 DEF JobPartial, Local, TypeInv, JobAt
  <1>21. ASSUME JobFull(c) PROVE Local(c)
    BY <1>21 DEF JobFull, Local, TypeInv, JobAt
  <1>22. ASSUME JobStart(c) PROVE Local(c)
    BY <1>22 DEF JobStart, Local, TypeInv, JobAt, JobTo, SendC
  <1>23. ASSUME JobChunk(c) PROVE Local(c)
    BY <1>23 DEF JobChunk, Local, TypeInv, JobAt, JobTo
  <1>24. ASSUME JobReceived(c) PROVE Local(c)
    BY <1>24 DEF JobReceived, Local, TypeInv, JobAt, JobTo
  <1>25. ASSUME JobValidate(c) PROVE Local(c)
    BY <1>25 DEF JobValidate, Local, TypeInv, JobAt, JobTo
  <1>26. ASSUME JobPlace(c) PROVE Local(c)
    BY <1>26 DEF JobPlace, Local, TypeInv, JobAt, JobTo
  <1>27. ASSUME JobPost(c) PROVE Local(c)
    BY <1>27 DEF JobPost, Local, TypeInv, JobEnds, SendC
  <1>28. ASSUME JobCanceled(c) PROVE Local(c)
    BY <1>28 DEF JobCanceled, Local, TypeInv, JobAt, JobEnds
  <1>29. ASSUME Drained(c) PROVE Local(c)
    BY <1>29 DEF Drained, Local, TypeInv, Leave
  <1>30. ASSUME Finalize(c) PROVE Local(c)
    BY <1>30 DEF Finalize, Local, TypeInv
  <1>31. ASSUME ServerBreak(c) PROVE Local(c)
    BY <1>31 DEF ServerBreak, Local, TypeInv, Leave
  <1> QED
    BY <1>1, <1>2, <1>3, <1>4, <1>5, <1>6, <1>7, <1>8, <1>9, <1>10, <1>11, <1>12,
       <1>13, <1>14, <1>15, <1>16, <1>17, <1>18, <1>19, <1>20, <1>21, <1>22, <1>23, <1>24,
       <1>25, <1>26, <1>27, <1>28, <1>29, <1>30, <1>31

LEMMA ConnStep == TypeInv /\ ConnInv /\ Overlap = FALSE /\ [Next]_vars => ConnInv'
  <1> SUFFICES ASSUME TypeInv, ConnInv, Overlap = FALSE, [Next]_vars PROVE ConnInv'
    OBVIOUS
  <1> USE DEF fixed, sender, client, wire, receiver, server, task, disk
  <1>1. CASE ApiDownload
    <2>1. CASE Live
      <3>1. conn \in Conns /\ sv[conn] = "run"
        BY <2>1 DEF Live, TypeInv
      <3>2. Local(conn)
        BY <1>1, <2>1, <3>1 DEF ApiDownload, Local, TypeInv, Live
      <3>3. Forward(conn)
        BY <1>1, <2>1, <3>1 DEF ApiDownload, Forward, TypeInv, Live
      <3> QED
        BY <3>1, <3>2, <3>3, ConnKept
    <2>2. CASE ~Live
      BY <1>1, <2>2, ConnSame DEF ApiDownload
    <2> QED
      BY <2>1, <2>2
  <1>2. CASE Modify
    BY <1>2, ConnSame DEF Modify
  <1>3. CASE ApiSenderReject
    <2>1. ASSUME NEW x \in Conns, sv[x] = "off" PROVE Blank(x)'
      <3>1. cl[x] = "off" /\ Blank(x)
        BY <2>1 DEF ConnInv, Blank
      <3> QED
        BY <1>3, <3>1 DEF ApiSenderReject, Blank
    <2> QED
      BY <1>3, <2>1 DEF ApiSenderReject, ConnInv
  <1>4. CASE ApiReject
    <2>1. CASE Live
      <3>1. conn \in Conns /\ sv[conn] = "run"
        BY <2>1 DEF Live, TypeInv
      <3>2. Local(conn)
        BY <1>4, <2>1, <3>1 DEF ApiReject, Local, TypeInv, SendC, StopTask
      <3>3. Forward(conn)
        BY <1>4, <2>1, <3>1 DEF ApiReject, Forward, TypeInv, SendC, StopTask
      <3> QED
        BY <3>1, <3>2, <3>3, ConnKept
    <2>2. CASE ~Live
      BY <1>4, <2>2, ConnSame DEF ApiReject
    <2> QED
      BY <2>1, <2>2
  <1>5. CASE ApiCancel
    <2>1. CASE Live
      <3>1. conn \in Conns /\ sv[conn] = "run"
        BY <2>1 DEF Live, TypeInv
      <3>2. Local(conn)
        BY <1>5, <2>1, <3>1 DEF ApiCancel, Local, TypeInv, SendC
      <3>3. sv'[conn] = "drain" /\ UNCHANGED <<cl, conn, job, rstat>>
        BY <1>5, <2>1, <3>1 DEF ApiCancel, TypeInv
      <3>4. rstat = "Idle" => job[conn].pc = "none"
        BY <3>1 DEF ConnInv
      <3>5. Forward(conn)
        BY <3>1, <3>3, <3>4 DEF Forward
      <3> QED
        BY <3>1, <3>2, <3>5, ConnKept DEF TypeInv
    <2>2. CASE ~Live
      BY <1>5, <2>2, ConnSame DEF ApiCancel
    <2> QED
      BY <2>1, <2>2
  <1>6. CASE Crash
    <2>1. /\ \A x \in Conns : sv'[x] = IF sv[x] \in {"off", "fin"} THEN sv[x] ELSE "end"
          /\ \A x \in Conns : job'[x] = IF job[x].pc = "none" THEN NoJob ELSE JobEnd
          /\ \A x \in Conns : toS'[x] = <<>> /\ chunks'[x] = <<>>
          /\ cl' = cl /\ upload' = upload /\ toC' = toC /\ conn' = NoConn /\ rstat' = rstat
      BY <1>6 DEF Crash
    <2>2. ASSUME NEW x \in Conns, sv'[x] = "off" PROVE Blank(x)'
      <3>1. Blank(x)
        BY <2>1, <2>2 DEF ConnInv
      <3> QED
        BY <2>1, <3>1, Constructors DEF Blank
    <2>3. \A x \in Conns : job'[x].pc \notin Abortable /\ (job[x].pc = "none" => job'[x].pc = "none")
      BY <2>1, Constructors DEF Abortable
    <2>4. \A x, y \in Conns : y < x /\ sv'[x] # "off" => cl'[y] = "end" /\ sv'[y] = "end"
      BY <2>1 DEF ConnInv
    <2> QED
      BY <2>1, <2>2, <2>3, <2>4 DEF ConnInv
  <1>7. CASE SaveChecksum
    BY <1>7, ConnSame DEF SaveChecksum
  <1>8. ASSUME NEW c \in Conns, Connect(c) PROVE ConnInv'
    <2>1. /\ cl[c] = "off" /\ sv'[c] = "run" /\ cl'[c] = "run"
          /\ \A x \in Conns \ {c} : cl'[x] = cl[x] /\ sv'[x] = sv[x]
          /\ \A x \in Conns : x < c => cl[x] = "end" /\ sv[x] = "end"
      BY <1>8 DEF Connect, Fresh, TypeInv
    <2>2. Local(c)
      BY <1>8, LocalSteps
    <2>3. ASSUME NEW x \in Conns, sv'[x] = "off" PROVE Blank(x)'
      <3>1. x # c /\ Blank(x)
        BY <2>1, <2>3 DEF ConnInv
      <3> QED
        BY <2>2, <3>1 DEF Local, Blank
    <2>4. ASSUME NEW x \in Conns, NEW y \in Conns, y < x, sv'[x] # "off"
          PROVE  cl'[y] = "end" /\ sv'[y] = "end"
      <3>1. CASE x = c
        BY <2>1, <2>4, <3>1, Numbers
      <3>2. CASE x # c
        BY <2>1, <2>4, <3>2 DEF ConnInv
      <3> QED
        BY <3>1, <3>2
    <2>5. conn' # NoConn => sv'[conn'] \notin {"off", "fin", "end"}
      BY <1>8, <2>1 DEF Connect, ConnInv, TypeInv
    <2>6. ASSUME NEW x \in Conns, sv'[x] \in {"off", "fin", "end"} PROVE job'[x].pc \notin Abortable
      BY <2>1, <2>2, <2>6 DEF ConnInv, Local
    <2>7. ASSUME NEW x \in Conns, rstat' = "Idle" PROVE job'[x].pc = "none"
      BY <1>8, <2>7 DEF Connect, ConnInv
    <2>8. \A x \in Conns : cl'[x] = "off" => sv'[x] = "off"
      BY <2>1 DEF ConnInv
    <2> QED
      BY <2>3, <2>4, <2>5, <2>6, <2>7, <2>8 DEF ConnInv
  <1>9. ASSUME NEW c \in Conns, ConnectClosed(c) PROVE ConnInv'
    <2>1. /\ cl[c] = "off" /\ sv'[c] = "drain" /\ cl'[c] = "run"
          /\ \A x \in Conns \ {c} : cl'[x] = cl[x] /\ sv'[x] = sv[x]
          /\ \A x \in Conns : x < c => cl[x] = "end" /\ sv[x] = "end"
      BY <1>9 DEF ConnectClosed, Fresh, TypeInv
    <2>2. Local(c)
      BY <1>9, LocalSteps
    <2>3. ASSUME NEW x \in Conns, sv'[x] = "off" PROVE Blank(x)'
      <3>1. x # c /\ Blank(x)
        BY <2>1, <2>3 DEF ConnInv
      <3> QED
        BY <2>2, <3>1 DEF Local, Blank
    <2>4. ASSUME NEW x \in Conns, NEW y \in Conns, y < x, sv'[x] # "off"
          PROVE  cl'[y] = "end" /\ sv'[y] = "end"
      <3>1. CASE x = c
        BY <2>1, <2>4, <3>1, Numbers
      <3>2. CASE x # c
        BY <2>1, <2>4, <3>2 DEF ConnInv
      <3> QED
        BY <3>1, <3>2
    <2>5. conn' # NoConn => sv'[conn'] \notin {"off", "fin", "end"}
      BY <1>9, <2>1 DEF ConnectClosed, ConnInv, TypeInv
    <2>6. ASSUME NEW x \in Conns, sv'[x] \in {"off", "fin", "end"} PROVE job'[x].pc \notin Abortable
      BY <2>1, <2>2, <2>6 DEF ConnInv, Local
    <2>7. ASSUME NEW x \in Conns, rstat' = "Idle" PROVE job'[x].pc = "none"
      BY <1>9, <2>7 DEF ConnectClosed, ConnInv
    <2>8. \A x \in Conns : cl'[x] = "off" => sv'[x] = "off"
      BY <2>1 DEF ConnInv
    <2> QED
      BY <2>3, <2>4, <2>5, <2>6, <2>7, <2>8 DEF ConnInv
  <1>10. ASSUME NEW c \in Conns, RecvReqChsum(c) PROVE ConnInv'
    <2>1. Local(c)
      BY <1>10, LocalSteps
    <2>2. sv[c] # "off" /\ UNCHANGED <<sv, job, conn, rstat>>
      BY <1>10, Open DEF RecvReqChsum, GotC
    <2>3. cl'[c] = cl[c] \/ (cl[c] = "run" /\ cl'[c] # "off")
      BY <1>10 DEF RecvReqChsum, TypeInv, GotC, TakeC
    <2> QED
      BY <2>1, <2>2, <2>3, ForwardSame, ConnKept DEF TypeInv
  <1>11. ASSUME NEW c \in Conns, ReportChsum(c) PROVE ConnInv'
    <2>1. CASE sv[c] # "off"
      <3>1. UNCHANGED <<cl, sv, job, upload, toC, chunks, held, conn, rstat>>
        BY <1>11 DEF ReportChsum
      <3>3. Local(c)
        BY <1>11, LocalSteps
      <3> QED
        BY <2>1, <3>1, <3>3, ForwardSame, ConnKept DEF TypeInv
    <2>2. CASE sv[c] = "off"
      BY <1>11, <2>2, ConnSame DEF ReportChsum, SendS
    <2> QED
      BY <2>1, <2>2
  <1>12. ASSUME NEW c \in Conns, RecvStart(c) PROVE ConnInv'
    <2>1. Local(c)
      BY <1>12, LocalSteps
    <2>2. sv[c] # "off" /\ UNCHANGED <<sv, job, conn, rstat>>
      BY <1>12, Open DEF RecvStart, GotC
    <2>3. cl'[c] = cl[c] \/ (cl[c] = "run" /\ cl'[c] # "off")
      BY <1>12 DEF RecvStart, TypeInv, GotC, TakeC, OnStart, OnDownload, SendS
    <2> QED
      BY <2>1, <2>2, <2>3, ForwardSame, ConnKept DEF TypeInv
  <1>13. ASSUME NEW c \in Conns, UploadOpen(c) PROVE ConnInv'
    <2>1. Local(c)
      BY <1>13, LocalSteps
    <2>2. sv[c] # "off" /\ UNCHANGED <<sv, job, conn, rstat>>
      BY <1>13, Open DEF UploadOpen
    <2>3. cl'[c] = cl[c] \/ (cl[c] = "run" /\ cl'[c] # "off")
      BY <1>13 DEF UploadOpen, TypeInv
    <2> QED
      BY <2>1, <2>2, <2>3, ForwardSame, ConnKept DEF TypeInv
  <1>14. ASSUME NEW c \in Conns, UploadChunk(c) PROVE ConnInv'
    <2>1. Local(c)
      BY <1>14, LocalSteps
    <2>2. sv[c] # "off" /\ UNCHANGED <<sv, job, conn, rstat>>
      BY <1>14, Open DEF UploadChunk
    <2>3. cl'[c] = cl[c] \/ (cl[c] = "run" /\ cl'[c] # "off")
      BY <1>14 DEF UploadChunk, TypeInv, SendS
    <2> QED
      BY <2>1, <2>2, <2>3, ForwardSame, ConnKept DEF TypeInv
  <1>15. ASSUME NEW c \in Conns, UploadDone(c) PROVE ConnInv'
    <2>1. Local(c)
      BY <1>15, LocalSteps
    <2>2. sv[c] # "off" /\ UNCHANGED <<sv, job, conn, rstat>>
      BY <1>15, Open DEF UploadDone
    <2>3. cl'[c] = cl[c] \/ (cl[c] = "run" /\ cl'[c] # "off")
      BY <1>15 DEF UploadDone, TypeInv
    <2> QED
      BY <2>1, <2>2, <2>3, ForwardSame, ConnKept DEF TypeInv
  <1>16. ASSUME NEW c \in Conns, UploadFail(c) PROVE ConnInv'
    <2>1. Local(c)
      BY <1>16, LocalSteps
    <2>2. sv[c] # "off" /\ UNCHANGED <<sv, job, conn, rstat>>
      BY <1>16, Open DEF UploadFail
    <2>3. cl'[c] = cl[c] \/ (cl[c] = "run" /\ cl'[c] # "off")
      BY <1>16 DEF UploadFail, TypeInv, SendS
    <2> QED
      BY <2>1, <2>2, <2>3, ForwardSame, ConnKept DEF TypeInv
  <1>17. ASSUME NEW c \in Conns, RecvVerdict(c) PROVE ConnInv'
    <2>1. Local(c)
      BY <1>17, LocalSteps
    <2>2. sv[c] # "off" /\ UNCHANGED <<sv, job, conn, rstat>>
      BY <1>17, Open DEF RecvVerdict, GotC
    <2>3. cl'[c] = cl[c] \/ (cl[c] = "run" /\ cl'[c] # "off")
      BY <1>17 DEF RecvVerdict, TypeInv, GotC, TakeC
    <2> QED
      BY <2>1, <2>2, <2>3, ForwardSame, ConnKept DEF TypeInv
  <1>18. ASSUME NEW c \in Conns, RecvCancelC(c) PROVE ConnInv'
    <2>1. Local(c)
      BY <1>18, LocalSteps
    <2>2. sv[c] # "off" /\ UNCHANGED <<sv, job, conn, rstat>>
      BY <1>18, Open DEF RecvCancelC, GotC
    <2>3. cl'[c] = cl[c] \/ (cl[c] = "run" /\ cl'[c] # "off")
      BY <1>18 DEF RecvCancelC, TypeInv, GotC, TakeC
    <2> QED
      BY <2>1, <2>2, <2>3, ForwardSame, ConnKept DEF TypeInv
  <1>19. ASSUME NEW c \in Conns, RecvClose(c) PROVE ConnInv'
    <2>1. Local(c)
      BY <1>19, LocalSteps
    <2>2. sv[c] # "off" /\ UNCHANGED <<sv, job, conn, rstat>>
      BY <1>19, Open DEF RecvClose, GotC
    <2>3. cl'[c] = cl[c] \/ (cl[c] = "run" /\ cl'[c] # "off")
      BY <1>19 DEF RecvClose, TypeInv, GotC, ClientEnds
    <2> QED
      BY <2>1, <2>2, <2>3, ForwardSame, ConnKept DEF TypeInv
  <1>20. ASSUME NEW c \in Conns, ClientBreak(c) PROVE ConnInv'
    <2>1. Local(c)
      BY <1>20, LocalSteps
    <2>2. sv[c] # "off" /\ UNCHANGED <<sv, job, conn, rstat>>
      BY <1>20, Open DEF ClientBreak
    <2>3. cl'[c] = cl[c] \/ (cl[c] = "run" /\ cl'[c] # "off")
      BY <1>20 DEF ClientBreak, TypeInv, ClientEnds
    <2> QED
      BY <2>1, <2>2, <2>3, ForwardSame, ConnKept DEF TypeInv
  <1>21. ASSUME NEW c \in Conns, RecvChunk(c) PROVE ConnInv'
    <2>1. Local(c)
      BY <1>21, LocalSteps
    <2>2. Forward(c)
      BY <1>21, Open, Constructors DEF RecvChunk, Forward, TypeInv, GotS, TakeS, SendC
    <2> QED
      BY <2>1, <2>2, ConnKept DEF TypeInv
  <1>22. ASSUME NEW c \in Conns, RecvReportChsum(c) PROVE ConnInv'
    <2>1. Local(c)
      BY <1>22, LocalSteps
    <2>2. Forward(c)
      BY <1>22, Open, Constructors DEF RecvReportChsum, Forward, TypeInv, GotS, TakeS
    <2> QED
      BY <2>1, <2>2, ConnKept DEF TypeInv
  <1>23. ASSUME NEW c \in Conns, RecvError(c) PROVE ConnInv'
    <2>1. Local(c)
      BY <1>23, LocalSteps
    <2>2. Forward(c)
      BY <1>23, Open, Constructors DEF RecvError, Forward, TypeInv, GotS, TakeS, StopTask
    <2> QED
      BY <2>1, <2>2, ConnKept DEF TypeInv
  <1>24. ASSUME NEW c \in Conns, RecvReject(c) PROVE ConnInv'
    <2>1. Local(c)
      BY <1>24, LocalSteps
    <2>2. Forward(c)
      BY <1>24, Open, Constructors DEF RecvReject, Forward, TypeInv, GotS, TakeS, StopTask
    <2> QED
      BY <2>1, <2>2, ConnKept DEF TypeInv
  <1>25. ASSUME NEW c \in Conns, RecvCancel(c) PROVE ConnInv'
    <2>1. Local(c)
      BY <1>25, LocalSteps
    <2>2. Forward(c)
      BY <1>25, Open, Constructors DEF RecvCancel, Forward, TypeInv, GotS, TakeS, StopTask
    <2> QED
      BY <2>1, <2>2, ConnKept DEF TypeInv
  <1>26. ASSUME NEW c \in Conns, JobInit(c) PROVE ConnInv'
    <2>1. Local(c)
      BY <1>26, LocalSteps
    <2>2. Forward(c)
      BY <1>26, Open, Constructors DEF JobInit, Forward, TypeInv, JobAt, InitV2, InitV4, SendC, Abortable, JobEnd, NoJob, JobPc, Jobs
    <2> QED
      BY <2>1, <2>2, ConnKept DEF TypeInv
  <1>27. ASSUME NEW c \in Conns, JobPartial(c) PROVE ConnInv'
    <2>1. Local(c)
      BY <1>27, LocalSteps
    <2>2. Forward(c)
      BY <1>27, Open, Constructors DEF JobPartial, Forward, TypeInv, JobAt, Abortable, JobEnd, NoJob, JobPc, Jobs
    <2> QED
      BY <2>1, <2>2, ConnKept DEF TypeInv
  <1>28. ASSUME NEW c \in Conns, JobFull(c) PROVE ConnInv'
    <2>1. Local(c)
      BY <1>28, LocalSteps
    <2>2. Forward(c)
      BY <1>28, Open, Constructors DEF JobFull, Forward, TypeInv, JobAt, Abortable, JobEnd, NoJob, JobPc, Jobs
    <2> QED
      BY <2>1, <2>2, ConnKept DEF TypeInv
  <1>29. ASSUME NEW c \in Conns, JobStart(c) PROVE ConnInv'
    <2>1. Local(c)
      BY <1>29, LocalSteps
    <2>2. Forward(c)
      BY <1>29, Open, Constructors DEF JobStart, Forward, TypeInv, JobAt, JobTo, SendC, Abortable, JobEnd, NoJob, JobPc, Jobs
    <2> QED
      BY <2>1, <2>2, ConnKept DEF TypeInv
  <1>30. ASSUME NEW c \in Conns, JobChunk(c) PROVE ConnInv'
    <2>1. Local(c)
      BY <1>30, LocalSteps
    <2>2. Forward(c)
      BY <1>30, Open, Constructors DEF JobChunk, Forward, TypeInv, JobAt, JobTo, Abortable, JobEnd, NoJob, JobPc, Jobs
    <2> QED
      BY <2>1, <2>2, ConnKept DEF TypeInv
  <1>31. ASSUME NEW c \in Conns, JobReceived(c) PROVE ConnInv'
    <2>1. Local(c)
      BY <1>31, LocalSteps
    <2>2. Forward(c)
      BY <1>31, Open, Constructors DEF JobReceived, Forward, TypeInv, JobAt, JobTo, Abortable, JobEnd, NoJob, JobPc, Jobs
    <2> QED
      BY <2>1, <2>2, ConnKept DEF TypeInv
  <1>32. ASSUME NEW c \in Conns, JobValidate(c) PROVE ConnInv'
    <2>1. Local(c)
      BY <1>32, LocalSteps
    <2>2. Forward(c)
      BY <1>32, Open, Constructors DEF JobValidate, Forward, TypeInv, JobAt, JobTo, Abortable, JobEnd, NoJob, JobPc, Jobs
    <2> QED
      BY <2>1, <2>2, ConnKept DEF TypeInv
  <1>33. ASSUME NEW c \in Conns, JobPlace(c) PROVE ConnInv'
    <2>1. Local(c)
      BY <1>33, LocalSteps
    <2>2. Forward(c)
      BY <1>33, Open, Constructors DEF JobPlace, Forward, TypeInv, JobAt, JobTo, Abortable, JobEnd, NoJob, JobPc, Jobs
    <2> QED
      BY <2>1, <2>2, ConnKept DEF TypeInv
  <1>34. ASSUME NEW c \in Conns, JobPost(c) PROVE ConnInv'
    <2>1. Local(c)
      BY <1>34, LocalSteps
    <2>2. job[c].pc # "none" /\ sv[c] # "off" /\ rstat # "Idle"
      BY <1>34, Open DEF JobPost, JobAt
    <2>3. rstat' # "Idle"
      BY <1>34, <2>2 DEF JobPost
    <2>4. job'[c].pc = "end" /\ cl' = cl /\ sv' = sv /\ conn' = conn
      BY <1>34, Constructors DEF JobPost, JobEnds, TypeInv
    <2>5. conn = c => sv[c] \notin {"fin", "end"}
      BY Open, Numbers
    <2>6. Forward(c)
      BY <2>2, <2>3, <2>4, <2>5 DEF Forward, Abortable
    <2> QED
      BY <2>1, <2>6, ConnKept DEF TypeInv
  <1>35. ASSUME NEW c \in Conns, JobCanceled(c) PROVE ConnInv'
    <2>1. Local(c)
      BY <1>35, LocalSteps
    <2>2. Forward(c)
      BY <1>35, Open, Constructors DEF JobCanceled, Forward, TypeInv, JobAt, JobEnds, Abortable, JobEnd, NoJob, JobPc, Jobs
    <2> QED
      BY <2>1, <2>2, ConnKept DEF TypeInv
  <1>36. ASSUME NEW c \in Conns, Drained(c) PROVE ConnInv'
    <2>1. Local(c)
      BY <1>36, LocalSteps
    <2>2. Forward(c)
      BY <1>36, Open, Constructors DEF Drained, Forward, TypeInv, Leave
    <2> QED
      BY <2>1, <2>2, ConnKept DEF TypeInv
  <1>37. ASSUME NEW c \in Conns, Finalize(c) PROVE ConnInv'
    <2>1. Local(c)
      BY <1>37, LocalSteps
    <2>2. /\ sv[c] \in {"ok", "err"} /\ sv'[c] \in {"fin", "end"} /\ job' = job /\ cl' = cl /\ rstat' = rstat
          /\ job[c].pc \notin Abortable
      BY <1>37 DEF Finalize, TypeInv
    <2>3. conn' \in {conn, NoConn} /\ conn' # c
      BY <1>37, Numbers DEF Finalize
    <2>4. rstat = "Idle" => job[c].pc = "none"
      BY DEF ConnInv
    <2>5. Forward(c)
      BY <2>2, <2>3, <2>4 DEF Forward
    <2> QED
      BY <2>1, <2>5, ConnKept DEF TypeInv
  <1>38. ASSUME NEW c \in Conns, ServerBreak(c) PROVE ConnInv'
    <2>1. Local(c)
      BY <1>38, LocalSteps
    <2>2. Forward(c)
      BY <1>38, Open, Constructors DEF ServerBreak, Forward, TypeInv, Leave
    <2> QED
      BY <2>1, <2>2, ConnKept DEF TypeInv
  <1>39. CASE UNCHANGED vars
    BY <1>39 DEF vars, ConnInv, Blank
  <1> QED
    BY <1>1, <1>2, <1>3, <1>4, <1>5, <1>6, <1>7, <1>8, <1>9, <1>10, <1>11, <1>12,
       <1>13, <1>14, <1>15, <1>16, <1>17, <1>18, <1>19, <1>20, <1>21, <1>22, <1>23, <1>24,
       <1>25, <1>26, <1>27, <1>28, <1>29, <1>30, <1>31, <1>32, <1>33, <1>34, <1>35, <1>36,
       <1>37, <1>38, <1>39
       DEF Next, Environment, Running

-----------------------------------------------------------------------------
(* Files.                                                                  *)

\* Nothing is written, and a job stays where it is.
LEMMA FileKept ==
  ASSUME TypeInv, FileInv, UNCHANGED <<job, ino, dest, ver, size>>, tmp' \in {tmp, NoIno},
         \A x \in Conns : cell[x] # NoSum => cell'[x] = cell[x]
  PROVE  FileInv'
  <1>1. ASSUME NEW x \in Conns PROVE FileAt(x)'
    <2>1. FileAt(x)
      BY DEF FileInv
    <2> QED
      BY <2>1 DEF FileAt, Begun
  <1>2. tmp' # NoIno => Begun(tmp)'
    BY DEF FileInv, Begun
  <1>3. ASSUME NEW d \in dest
        PROVE  /\ Begun(d.ino)' /\ d.ino # tmp'
               /\ Len(ino'[d.ino]) = size' /\ ino'[d.ino] = d.csum
    <2>1. d.ino # NoIno
      BY Numbers DEF TypeInv
    <2> QED
      BY <2>1 DEF FileInv, Begun
  <1> QED
    BY <1>1, <1>2, <1>3 DEF FileInv

\* Nothing is written, and the job of c goes on.
LEMMA FileMoved ==
  ASSUME FileInv, NEW c \in Conns, UNCHANGED <<ino, dest, ver, size>>, tmp' \in {tmp, NoIno},
         \A x \in Conns : cell[x] # NoSum => cell'[x] = cell[x],
         \A x \in Conns \ {c} : job'[x] = job[x], Begun(c) => Begun(c)', FileAt(c)',
         tmp \in Conns \cup {NoIno}, \A d \in dest : d.ino \in Conns
  PROVE  FileInv'
  <1>0. \A x \in Conns : Begun(x) => Begun(x)'
    BY DEF Begun
  <1>1. ASSUME NEW x \in Conns \ {c} PROVE FileAt(x)'
    <2>1. FileAt(x)
      BY DEF FileInv
    <2> QED
      BY <1>0, <2>1 DEF FileAt
  <1>2. tmp' # NoIno => Begun(tmp)'
    BY <1>0 DEF FileInv, Begun
  <1>3. ASSUME NEW d \in dest
        PROVE  /\ Begun(d.ino)' /\ d.ino # tmp'
               /\ Len(ino'[d.ino]) = size' /\ ino'[d.ino] = d.csum
    BY <1>0, Numbers DEF FileInv
  <1> QED
    BY <1>1, <1>2, <1>3 DEF FileInv

\* A job that is not under way needs nothing of the files.
LEMMA AtRest ==
  ASSUME NEW x \in Conns, FileAt(x), job[x].pc \notin Abortable, job'[x] = job[x], size' = size
  PROVE  FileAt(x)'
  BY DEF FileAt, Abortable

\* A connection is opened, with a cell of its own.
LEMMA FileOpened ==
  ASSUME FileInv, NEW c \in Conns, UNCHANGED <<ino, dest, ver, size>>, tmp' \in {tmp, NoIno},
         job[c] = NoJob, \A x \in Conns \ {c} : cell'[x] = cell[x] /\ job'[x] = job[x], FileAt(c)',
         tmp \in Conns \cup {NoIno}, \A d \in dest : d.ino \in Conns
  PROVE  FileInv'
  <1>1. ~Begun(c)
    BY Constructors DEF Begun, Early
  <1>2. \A x \in Conns : Begun(x) => x # c /\ Begun(x)'
    BY <1>1 DEF Begun
  <1>3. ASSUME NEW x \in Conns \ {c} PROVE FileAt(x)'
    <2>1. FileAt(x)
      BY DEF FileInv
    <2> QED
      BY <1>2, <2>1 DEF FileAt
  <1>4. tmp' # NoIno => Begun(tmp)'
    BY <1>2 DEF FileInv, Begun
  <1>5. ASSUME NEW d \in dest
        PROVE  /\ Begun(d.ino)' /\ d.ino # tmp'
               /\ Len(ino'[d.ino]) = size' /\ ino'[d.ino] = d.csum
    BY <1>2, Numbers DEF FileInv
  <1> QED
    BY <1>3, <1>4, <1>5 DEF FileInv

LEMMA FileInit == Init => FileInv
  <1> SUFFICES ASSUME Init PROVE FileInv
    OBVIOUS
  <1>1. \A x \in Conns : job[x] = NoJob
    BY DEF Init
  <1>2. \A x \in Conns : FileAt(x)
    <2>1. size \in Nat
      BY TypeInit DEF TypeInv
    <2> QED
      BY <1>1, <2>1, Constructors DEF FileAt
  <1> QED
    BY <1>2 DEF Init, FileInv

LEMMA FileStep == TypeInv /\ TypeInv' /\ ConnInv /\ FileInv /\ [Next]_vars => FileInv'
  <1> SUFFICES ASSUME TypeInv, TypeInv', ConnInv, FileInv, [Next]_vars PROVE FileInv'
    OBVIOUS
  <1> USE DEF fixed, sender, client, wire, receiver, server, task, disk
  <1>1. CASE ApiDownload
    <2>1. CASE Live
      <3>1. PICK c \in Conns : c = conn
        BY <2>1 DEF Live, TypeInv
      <3>2. job[c].pc = "none" /\ UNCHANGED <<ino, dest, ver, size, cell, tmp>>
        BY <1>1 DEF ApiDownload, ConnInv
      <3>3. job'[c] = [job[c] EXCEPT !.pc = "load"] /\ \A x \in Conns \ {c} : job'[x] = job[x]
        BY <1>1, <2>1, <3>1 DEF ApiDownload, TypeInv
      <3>4. job[c] \in Jobs /\ job[c].received = 0 /\ job[c].offset = 0
        BY <3>2 DEF FileInv, FileAt, Early, TypeInv
      <3>5. job'[c].pc = "load" /\ job'[c].received = 0 /\ job'[c].offset = 0
        BY <3>3, <3>4 DEF Jobs
      <3>6. FileAt(c)'
        <4>1. size \in Nat
          BY DEF TypeInv
        <4> QED
          BY <3>2, <3>5, <4>1 DEF FileAt
      <3>7. ~Begun(c)
        BY <3>2 DEF Begun, Early
      <3>8. (tmp \in Conns \cup {NoIno}) /\ \A d \in dest : d.ino \in Conns
        BY DEF TypeInv
      <3> QED
        BY <3>2, <3>3, <3>6, <3>7, <3>8, FileMoved
    <2>2. CASE ~Live
      BY <1>1, <2>2, FileKept DEF ApiDownload
    <2> QED
      BY <2>1, <2>2
  <1>2. CASE Modify
    <2>1. UNCHANGED <<job, ino, dest, ver, size, cell>> /\ tmp' \in {tmp, NoIno}
      BY <1>2 DEF Modify
    <2> QED
      BY <2>1, FileKept
  <1>3. CASE ApiSenderReject
    <2>1. UNCHANGED <<job, ino, dest, ver, size, cell>> /\ tmp' \in {tmp, NoIno}
      BY <1>3 DEF ApiSenderReject
    <2> QED
      BY <2>1, FileKept
  <1>4. CASE ApiReject
    <2>1. UNCHANGED <<job, ino, dest, ver, size, cell>> /\ tmp' \in {tmp, NoIno}
      BY <1>4 DEF ApiReject, RemoveTemp
    <2> QED
      BY <2>1, FileKept
  <1>5. CASE ApiCancel
    <2>1. UNCHANGED <<job, ino, dest, ver, size, cell>> /\ tmp' \in {tmp, NoIno}
      BY <1>5 DEF ApiCancel
    <2> QED
      BY <2>1, FileKept
  <1>6. CASE Crash
    <2>1. /\ \A x \in Conns : job'[x] = IF job[x].pc = "none" THEN NoJob ELSE JobEnd
          /\ UNCHANGED <<tmp, ino, dest, ver, size>>
      BY <1>6 DEF Crash
    <2>2. ASSUME NEW x \in Conns PROVE FileAt(x)' /\ (Begun(x) => Begun(x)')
      <3>1. /\ job'[x].received = 0 /\ job'[x].pc \in {"none", "end"} /\ (job[x].pc # "none" => job'[x].pc = "end")
            /\ (job'[x].pc = "none" => job'[x].offset = 0)
        BY <2>1, Constructors
      <3>2. size \in Nat
        BY DEF TypeInv
      <3>3. FileAt(x)'
        BY <2>1, <3>1, <3>2 DEF FileAt
      <3>4. Begun(x) => Begun(x)'
        BY <3>1 DEF Begun, Early
      <3> QED
        BY <3>3, <3>4
    <2>3. tmp # NoIno => Begun(tmp)'
      BY <2>1, <2>2 DEF FileInv, TypeInv
    <2> QED
      BY <2>1, <2>2, <2>3 DEF FileInv, TypeInv, Begun
  <1>7. CASE SaveChecksum
    <2>1. UNCHANGED <<job, ino, dest, ver, size, cell>> /\ tmp' \in {tmp, NoIno}
      BY <1>7 DEF SaveChecksum
    <2> QED
      BY <2>1, FileKept
  <1>8. ASSUME NEW c \in Conns, Connect(c) PROVE FileInv'
    <2>1. /\ sv[c] = "off" /\ job[c] = NoJob
          /\ UNCHANGED <<ino, dest, ver, size>> /\ tmp' \in {tmp, NoIno}
      BY <1>8 DEF Connect, Fresh, ConnInv, Blank
    <2>2. \A x \in Conns : job[x].pc = "place" => x # c
      BY <2>1, Constructors
    <2>3. /\ \A x \in Conns \ {c} : cell'[x] = cell[x] /\ job'[x] = job[x]
          /\ job'[c].pc \in {"none", "load"} /\ job'[c].received = 0 /\ job'[c].offset = 0
      <3>1. \A x \in Conns \ {c} : cell'[x] = cell[x] /\ job'[x] = job[x]
        <4>1. \A x \in Conns \ {c} : job'[x] = job[x]
          BY <1>8 DEF Connect, TypeInv
        <4>2. cell' = cell \/ cell' = [cell EXCEPT ![c] = dbsum]
          BY <1>8 DEF Connect, UpgradeV2, UpgradeV4
        <4>3. \A x \in Conns \ {c} : cell'[x] = cell[x]
          BY <4>2 DEF TypeInv
        <4> QED
          BY <4>1, <4>3
      <3>2. job'[c] \in {NoJob, [NoJob EXCEPT !.pc = "load"]}
        BY <1>8, <2>1 DEF Connect, TypeInv
      <3>3. \A r \in {NoJob, [NoJob EXCEPT !.pc = "load"]} :
              r.pc \in {"none", "load"} /\ r.received = 0 /\ r.offset = 0
        BY DEF NoJob
      <3> QED
        BY <3>1, <3>2, <3>3
    <2>4. FileAt(c)'
      <3>1. size \in Nat
        BY DEF TypeInv
      <3> QED
        BY <2>1, <2>3, <3>1 DEF FileAt
    <2> QED
      BY <2>1, <2>2, <2>3, <2>4, FileOpened DEF TypeInv
  <1>9. ASSUME NEW c \in Conns, ConnectClosed(c) PROVE FileInv'
    <2>1. UNCHANGED <<job, ino, dest, ver, size, cell>> /\ tmp' \in {tmp, NoIno}
      BY <1>9 DEF ConnectClosed
    <2> QED
      BY <2>1, FileKept
  <1>10. ASSUME NEW c \in Conns, RecvReqChsum(c) PROVE FileInv'
    <2>1. UNCHANGED <<job, ino, dest, ver, size, cell>> /\ tmp' \in {tmp, NoIno}
      BY <1>10 DEF RecvReqChsum
    <2> QED
      BY <2>1, FileKept
  <1>11. ASSUME NEW c \in Conns, ReportChsum(c) PROVE FileInv'
    <2>1. UNCHANGED <<job, ino, dest, ver, size, cell>> /\ tmp' \in {tmp, NoIno}
      BY <1>11 DEF ReportChsum
    <2> QED
      BY <2>1, FileKept
  <1>12. ASSUME NEW c \in Conns, RecvStart(c) PROVE FileInv'
    <2>1. UNCHANGED <<job, ino, dest, ver, size, cell>> /\ tmp' \in {tmp, NoIno}
      BY <1>12 DEF RecvStart
    <2> QED
      BY <2>1, FileKept
  <1>13. ASSUME NEW c \in Conns, UploadOpen(c) PROVE FileInv'
    <2>1. UNCHANGED <<job, ino, dest, ver, size, cell>> /\ tmp' \in {tmp, NoIno}
      BY <1>13 DEF UploadOpen
    <2> QED
      BY <2>1, FileKept
  <1>14. ASSUME NEW c \in Conns, UploadChunk(c) PROVE FileInv'
    <2>1. UNCHANGED <<job, ino, dest, ver, size, cell>> /\ tmp' \in {tmp, NoIno}
      BY <1>14 DEF UploadChunk
    <2> QED
      BY <2>1, FileKept
  <1>15. ASSUME NEW c \in Conns, UploadDone(c) PROVE FileInv'
    <2>1. UNCHANGED <<job, ino, dest, ver, size, cell>> /\ tmp' \in {tmp, NoIno}
      BY <1>15 DEF UploadDone
    <2> QED
      BY <2>1, FileKept
  <1>16. ASSUME NEW c \in Conns, UploadFail(c) PROVE FileInv'
    <2>1. UNCHANGED <<job, ino, dest, ver, size, cell>> /\ tmp' \in {tmp, NoIno}
      BY <1>16 DEF UploadFail
    <2> QED
      BY <2>1, FileKept
  <1>17. ASSUME NEW c \in Conns, RecvVerdict(c) PROVE FileInv'
    <2>1. UNCHANGED <<job, ino, dest, ver, size, cell>> /\ tmp' \in {tmp, NoIno}
      BY <1>17 DEF RecvVerdict
    <2> QED
      BY <2>1, FileKept
  <1>18. ASSUME NEW c \in Conns, RecvCancelC(c) PROVE FileInv'
    <2>1. UNCHANGED <<job, ino, dest, ver, size, cell>> /\ tmp' \in {tmp, NoIno}
      BY <1>18 DEF RecvCancelC
    <2> QED
      BY <2>1, FileKept
  <1>19. ASSUME NEW c \in Conns, RecvClose(c) PROVE FileInv'
    <2>1. UNCHANGED <<job, ino, dest, ver, size, cell>> /\ tmp' \in {tmp, NoIno}
      BY <1>19 DEF RecvClose
    <2> QED
      BY <2>1, FileKept
  <1>20. ASSUME NEW c \in Conns, ClientBreak(c) PROVE FileInv'
    <2>1. UNCHANGED <<job, ino, dest, ver, size, cell>> /\ tmp' \in {tmp, NoIno}
      BY <1>20 DEF ClientBreak
    <2> QED
      BY <2>1, FileKept
  <1>21. ASSUME NEW c \in Conns, RecvChunk(c) PROVE FileInv'
    <2>1. UNCHANGED <<job, ino, dest, ver, size, cell>> /\ tmp' \in {tmp, NoIno}
      BY <1>21 DEF RecvChunk
    <2> QED
      BY <2>1, FileKept
  <1>22. ASSUME NEW c \in Conns, RecvReportChsum(c) PROVE FileInv'
    <2>1. UNCHANGED <<job, ino, dest, ver, size, tmp>>
      BY <1>22 DEF RecvReportChsum
    <2>2. \A x \in Conns : cell[x] # NoSum => cell'[x] = cell[x]
      BY <1>22 DEF RecvReportChsum, TypeInv
    <2> QED
      BY <2>1, <2>2, FileKept
  <1>23. ASSUME NEW c \in Conns, RecvError(c) PROVE FileInv'
    <2>1. UNCHANGED <<job, ino, dest, ver, size, cell>> /\ tmp' \in {tmp, NoIno}
      BY <1>23 DEF RecvError
    <2> QED
      BY <2>1, FileKept
  <1>24. ASSUME NEW c \in Conns, RecvReject(c) PROVE FileInv'
    <2>1. UNCHANGED <<job, ino, dest, ver, size, cell>> /\ tmp' \in {tmp, NoIno}
      BY <1>24 DEF RecvReject, RemoveTemp
    <2> QED
      BY <2>1, FileKept
  <1>25. ASSUME NEW c \in Conns, RecvCancel(c) PROVE FileInv'
    <2>1. UNCHANGED <<job, ino, dest, ver, size, cell>> /\ tmp' \in {tmp, NoIno}
      BY <1>25 DEF RecvCancel
    <2> QED
      BY <2>1, FileKept
  <1>26. ASSUME NEW c \in Conns, JobInit(c) PROVE FileInv'
    <2>1. UNCHANGED <<ino, dest, ver, size, cell>> /\ tmp' \in {tmp, NoIno}
      BY <1>26 DEF JobInit
    <2>2. \A x \in Conns \ {c} : job'[x] = job[x]
      BY <1>26 DEF JobInit, TypeInv, InitV2, InitV4
    <2>3. FileAt(c) /\ job[c] \in Jobs
      BY DEF FileInv, TypeInv
    <2>4. job[c].pc = "load" /\ job[c].offset = 0 /\ job[c].received = 0 /\ tmp' = tmp
      BY <1>26, <2>3 DEF JobInit, JobAt, FileAt, Early
    <2>5. /\ job'[c].offset = 0 /\ job'[c].received = 0
          /\ \/ job'[c].pc = "start"
             \/ /\ job'[c].pc \in {"partial", "full"} /\ tmp # NoIno
                /\ job'[c].len = Len(ino[tmp]) /\ Len(ino[tmp]) <= size
      <3>1. CASE ver = "v2" \/ tmp = NoIno
        <4>1. job'[c] = [job[c] EXCEPT !.pc = "start"]
          BY <1>26, <3>1 DEF JobInit, InitV2, InitV4, TypeInv
        <4> QED
          BY <2>3, <2>4, <4>1 DEF Jobs
      <3>2. CASE ver # "v2" /\ tmp # NoIno
        <4>1. ino[tmp] \in Seq(Block) /\ size \in Nat
          BY <3>2 DEF TypeInv
        <4>2. Len(ino[tmp]) \in Nat
          BY <4>1
        <4>3. job'[c] = [job[c] EXCEPT !.len = Len(ino[tmp]), !.csum = ino[tmp],
                                       !.pc = CASE Len(ino[tmp]) < size -> "partial"
                                                [] Len(ino[tmp]) = size -> "full"
                                                [] OTHER                -> "start"]
          BY <1>26, <3>2 DEF JobInit, InitV4, TypeInv
        <4> QED
          BY <2>3, <2>4, <3>2, <4>1, <4>2, <4>3 DEF Jobs
      <3> QED
        BY <3>1, <3>2
    <2>8. Begun(c) => Begun(c)'
      BY <2>4 DEF Begun, Early
    <2>9. FileAt(c)'
      <3>1. size \in Nat
        BY DEF TypeInv
      <3> QED
        BY <2>1, <2>4, <2>5, <3>1 DEF FileAt, Early
    <2> QED
      BY <2>1, <2>2, <2>8, <2>9, FileMoved DEF TypeInv
  <1>27. ASSUME NEW c \in Conns, JobPartial(c) PROVE FileInv'
    <2>1. UNCHANGED <<ino, dest, ver, size, cell>> /\ tmp' \in {tmp, NoIno}
      BY <1>27 DEF JobPartial
    <2>2. \A x \in Conns \ {c} : job'[x] = job[x]
      BY <1>27 DEF JobPartial, TypeInv
    <2>3. FileAt(c) /\ job[c] \in Jobs
      BY DEF FileInv, TypeInv
    <2>4. /\ job[c].pc = "partial" /\ job[c].offset = 0 /\ job[c].received = 0 /\ job[c].len <= size
          /\ tmp # NoIno => Len(ino[tmp]) = job[c].len
      BY <1>27, <2>3 DEF JobPartial, JobAt, FileAt, Early
    <2>5. job'[c].pc = "start" /\ job'[c].received = 0 /\ job'[c].offset \in {0, job[c].len} /\ tmp' = tmp
      BY <1>27, <2>3, <2>4 DEF JobPartial, TypeInv, Jobs
    <2>8. Begun(c) => Begun(c)'
      BY <2>4 DEF Begun, Early
    <2>9. FileAt(c)'
      <3>1. size \in Nat
        BY DEF TypeInv
      <3> QED
        BY <2>1, <2>4, <2>5, <3>1 DEF FileAt, Early
    <2> QED
      BY <2>1, <2>2, <2>8, <2>9, FileMoved DEF TypeInv
  <1>28. ASSUME NEW c \in Conns, JobFull(c) PROVE FileInv'
    <2>1. UNCHANGED <<ino, dest, ver, size, cell>> /\ tmp' \in {tmp, NoIno}
      BY <1>28 DEF JobFull
    <2>2. \A x \in Conns \ {c} : job'[x] = job[x]
      BY <1>28 DEF JobFull, TypeInv
    <2>3. FileAt(c) /\ job[c] \in Jobs
      BY DEF FileInv, TypeInv
    <2>4. /\ job[c].pc = "full" /\ job[c].offset = 0 /\ job[c].received = 0 /\ job[c].len <= size
          /\ tmp # NoIno => Len(ino[tmp]) = job[c].len
      BY <1>28, <2>3 DEF JobFull, JobAt, FileAt, Early
    <2>5. job'[c].pc = "start" /\ job'[c].received = 0 /\ job'[c].offset \in {0, job[c].len} /\ tmp' = tmp
      BY <1>28, <2>3, <2>4 DEF JobFull, TypeInv, Jobs
    <2>8. Begun(c) => Begun(c)'
      BY <2>4 DEF Begun, Early
    <2>9. FileAt(c)'
      <3>1. size \in Nat
        BY DEF TypeInv
      <3> QED
        BY <2>1, <2>4, <2>5, <3>1 DEF FileAt, Early
    <2> QED
      BY <2>1, <2>2, <2>8, <2>9, FileMoved DEF TypeInv
  <1>29. ASSUME NEW c \in Conns, JobStart(c) PROVE FileInv'
    <2>1. /\ job[c].pc = "start" /\ job[c].received = 0 /\ job[c].offset <= size /\ job[c].offset \in Nat
          /\ job[c].offset # 0 /\ tmp # NoIno => Len(ino[tmp]) = job[c].offset
          /\ job[c] \in Jobs /\ UNCHANGED <<ver, size, cell, dest>>
      BY <1>29 DEF JobStart, JobAt, FileInv, FileAt, Early, TypeInv, Jobs
    <2>2. ASSUME NEW x \in Conns \ {c} PROVE FileAt(x)' /\ job'[x] = job[x]
      <3>1. job[x].pc \notin Abortable
        BY <2>1, OneJob DEF Abortable
      <3>2. job'[x] = job[x] /\ size' = size
        BY <1>29 DEF JobStart, JobTo, TypeInv
      <3>3. FileAt(x)
        BY DEF FileInv
      <3> QED
        BY <3>1, <3>2, <3>3, AtRest
    <2>3. \A x \in Conns : Begun(x) => x # c /\ Begun(x)'
      BY <2>1, <2>2 DEF Begun, Early
    <2>4. CASE job[c].offset = 0
      <3>1. PICK i \in Conns : /\ i = IF tmp = NoIno THEN c ELSE tmp
                              /\ tmp' = i /\ ino' = [ino EXCEPT ![i] = <<>>]
                              /\ job' = [job EXCEPT ![c].pc = "recv", ![c].fd = i]
        BY <1>29, <2>4 DEF JobStart, TypeInv
      <3>2. job'[c].pc = "recv" /\ job'[c].fd = i /\ job'[c].received = 0
        BY <2>1, <3>1 DEF TypeInv, Jobs
      <3>3. ino'[i] = <<>> /\ \A x \in Conns \ {i} : ino'[x] = ino[x]
        BY <3>1 DEF TypeInv
      <3>4. Begun(i)'
        BY <2>3, <3>1, <3>2 DEF FileInv, Begun, Early
      <3>5. \A d \in dest : d.ino \in Conns /\ d.ino # i /\ Begun(d.ino)
        BY <2>3, <3>1 DEF FileInv, TypeInv
      <3>6. Len(ino'[i]) = 0
        BY <3>3
      <3>7. FileAt(c)'
        <4>1. size' \in Nat /\ dest' = dest /\ tmp' = i
          BY <2>1, <3>1 DEF TypeInv
        <4> QED
          BY <3>2, <3>4, <3>5, <3>6, <4>1 DEF FileAt, Begun
      <3>8. ASSUME NEW d \in dest
            PROVE  /\ Begun(d.ino)' /\ d.ino # tmp'
                   /\ Len(ino'[d.ino]) = size' /\ ino'[d.ino] = d.csum
        <4>1. Len(ino[d.ino]) = size /\ ino[d.ino] = d.csum
          BY DEF FileInv
        <4> QED
          BY <2>1, <2>3, <3>1, <3>3, <3>5, <4>1
      <3>9. tmp' # NoIno => Begun(tmp)'
        BY <3>1, <3>4 DEF Begun
      <3> QED
        BY <2>1, <2>2, <3>7, <3>8, <3>9 DEF FileInv
    <2>5. CASE job[c].offset # 0
      <3>1. ino' = ino /\ tmp' = tmp /\ \A x \in Conns \ {c} : job'[x] = job[x]
        BY <1>29, <2>2, <2>5 DEF JobStart
      <3>2. \/ job'[c].pc = "bad" /\ job'[c].received = 0
            \/ /\ tmp # NoIno /\ job'[c].pc = "recv" /\ job'[c].fd = tmp
               /\ job'[c].received = job[c].offset
        <4>1. \/ job'[c] = [job[c] EXCEPT !.pc = "bad"]
              \/ tmp # NoIno /\ job'[c] = [job[c] EXCEPT !.pc = "recv", !.fd = tmp, !.received = job[c].offset]
          BY <1>29, <2>5 DEF JobStart, JobTo, TypeInv
        <4> QED
          BY <2>1, <4>1 DEF Jobs
      <3>3. tmp # NoIno => tmp \in Conns /\ Begun(tmp)' /\ \A d \in dest : d.ino # tmp
        BY <2>3, <3>1 DEF FileInv, TypeInv, Begun
      <3>4. FileAt(c)'
        <4>1. CASE job'[c].pc = "bad" /\ job'[c].received = 0
          BY <2>1, <4>1 DEF FileAt, TypeInv
        <4>2. CASE tmp # NoIno /\ job'[c].pc = "recv" /\ job'[c].fd = tmp /\ job'[c].received = job[c].offset
          BY <2>1, <2>5, <3>1, <3>3, <4>2 DEF FileAt, Early, Begun
        <4> QED
          BY <3>2, <4>1, <4>2
      <3>5. Begun(c)'
        BY <3>2 DEF Begun, Early
      <3> QED
        BY <2>1, <3>1, <3>4, <3>5, FileMoved DEF TypeInv
    <2> QED
      BY <2>4, <2>5
  <1>30. ASSUME NEW c \in Conns, JobChunk(c) PROVE FileInv'
    <2>1. /\ job[c].pc = "recv" /\ job[c].fd \in Conns /\ Begun(job[c].fd) /\ tmp \in {NoIno, job[c].fd}
          /\ Len(ino[job[c].fd]) = job[c].received /\ ino[job[c].fd] \in Seq(Block)
          /\ \A d \in dest : d.ino # job[c].fd
          /\ job[c] \in Jobs /\ UNCHANGED <<ver, size, cell, dest>>
      BY <1>30 DEF JobChunk, JobAt, FileInv, FileAt, TypeInv
    <2>2. ASSUME NEW x \in Conns \ {c} PROVE FileAt(x)' /\ job'[x] = job[x]
      <3>1. job[x].pc \notin Abortable
        BY <2>1, OneJob DEF Abortable
      <3>2. job'[x] = job[x] /\ size' = size
        BY <1>30, SMTT(60) DEF JobChunk, JobTo, TypeInv
      <3>3. FileAt(x)
        BY DEF FileInv
      <3> QED
        BY <3>1, <3>2, <3>3, AtRest
    <2> DEFINE d == Head(chunks[c])
    <2>3. d \in Seq(Block)
      BY <1>30, TailElements DEF JobChunk, TypeInv
    <2>4. Len(d) \in Nat /\ job[c].received \in Nat /\ job[c].received <= size
      BY <2>1, <2>3 DEF Jobs, FileInv, FileAt
    <2>5. CASE job[c].received + Len(d) > size
      <3>1. ino' = ino /\ tmp' = NoIno
        BY <1>30, <2>5 DEF JobChunk, RemoveTemp
      <3>2. job'[c].pc = "bad" /\ job'[c].received = job[c].received
        BY <1>30, <2>1, <2>5 DEF JobChunk, JobTo, TypeInv, Jobs
      <3>3. FileAt(c)' /\ Begun(c)'
        BY <2>1, <2>4, <3>2 DEF FileAt, Begun, Early
      <3> QED
        BY <2>1, <2>2, <3>1, <3>3, FileMoved DEF TypeInv
    <2>6. CASE ~(job[c].received + Len(d) > size)
      <3> DEFINE w == Written(ino[job[c].fd], job[c].received, d, job[c].offset > 0)
      <3>1. tmp' = tmp /\ ino' = [ino EXCEPT ![job[c].fd] = w]
        BY <1>30, <2>6 DEF JobChunk
      <3>2. job'[c].pc = "recv" /\ job'[c].fd = job[c].fd /\ job'[c].received = job[c].received + Len(d)
        <4>1. job'[c] = [job[c] EXCEPT !.received = job[c].received + Len(d)]
          BY <1>30, <2>6 DEF JobChunk, TypeInv
        <4> HIDE DEF d
        <4> QED
          BY <2>1, <4>1 DEF Jobs
      <3>3. Len(w) = job[c].received + Len(d)
        <4>1. (job[c].offset > 0) \in BOOLEAN
          BY <2>1 DEF Jobs
        <4> QED
          BY <2>1, <2>3, <4>1, WrittenTyped, ZenonT(90)
      <3> HIDE DEF w, d
      <3>4. ino'[job[c].fd] = w /\ \A x \in Conns \ {job[c].fd} : ino'[x] = ino[x]
        BY <2>1, <3>1 DEF TypeInv
      <3>5. \A x \in Conns : Begun(x) => Begun(x)'
        BY <2>2, <3>2 DEF Begun, Early
      <3>6. FileAt(c)'
        <4>1. /\ job'[c].fd \in Conns /\ Begun(job[c].fd)' /\ tmp' \in {NoIno, job'[c].fd}
              /\ Len(ino'[job'[c].fd]) = job'[c].received /\ \A e \in dest' : e.ino # job'[c].fd
          BY <2>1, <3>1, <3>2, <3>3, <3>4, <3>5, SMTT(60) DEF Begun
        <4>2. job'[c].received <= size'
          <5>1. job[c].received \in Nat /\ Len(d) \in Nat /\ size \in Nat /\ size' = size
            BY <2>1, <2>4 DEF TypeInv, Jobs
          <5> QED
            BY <2>6, <3>2, <5>1
        <4> QED
          BY <3>2, <4>1, <4>2 DEF FileAt, Early
      <3>7. ASSUME NEW e \in dest
            PROVE  /\ Begun(e.ino)' /\ e.ino # tmp'
                   /\ Len(ino'[e.ino]) = size' /\ ino'[e.ino] = e.csum
        <4>1. e.ino \in Conns /\ Begun(e.ino) /\ e.ino # tmp /\ Len(ino[e.ino]) = size /\ ino[e.ino] = e.csum
          BY DEF FileInv, TypeInv
        <4> QED
          BY <2>1, <3>1, <3>4, <3>5, <4>1
      <3>8. tmp' # NoIno => Begun(tmp)'
        BY <2>1, <3>1, <3>5 DEF Begun
      <3> QED
        BY <2>1, <2>2, <3>6, <3>7, <3>8 DEF FileInv
    <2> QED
      BY <2>5, <2>6
  <1>31. ASSUME NEW c \in Conns, JobReceived(c) PROVE FileInv'
    <2>1. UNCHANGED <<ino, dest, ver, size, cell>> /\ tmp' \in {tmp, NoIno}
      BY <1>31 DEF JobReceived
    <2>2. \A x \in Conns \ {c} : job'[x] = job[x]
      BY <1>31 DEF JobReceived, TypeInv, JobTo
    <2>3. FileAt(c) /\ job[c] \in Jobs
      BY DEF FileInv, TypeInv
    <2>4. job[c].pc = "recv" /\ job[c].received = size /\ job[c].received <= size /\ tmp' = tmp
      BY <1>31, <2>3 DEF JobReceived, JobAt, FileAt
    <2>5. job'[c].pc = "check" /\ job'[c].received = size
      BY <1>31, <2>3, <2>4 DEF JobReceived, JobTo, TypeInv, Jobs
    <2>6. tmp # NoIno => Len(ino[tmp]) = size
      BY <2>3, <2>4 DEF FileAt
    <2>8. Begun(c) => Begun(c)'
      BY <2>5 DEF Begun, Early
    <2>9. FileAt(c)'
      BY <2>1, <2>4, <2>5, <2>6 DEF FileAt, Early
    <2> QED
      BY <2>1, <2>2, <2>8, <2>9, FileMoved DEF TypeInv
  <1>32. ASSUME NEW c \in Conns, JobValidate(c) PROVE FileInv'
    <2>1. UNCHANGED <<ino, dest, ver, size, cell>> /\ tmp' \in {tmp, NoIno}
      BY <1>32 DEF JobValidate, RemoveTemp
    <2>2. \A x \in Conns \ {c} : job'[x] = job[x]
      BY <1>32 DEF JobValidate, TypeInv, JobTo
    <2>3. FileAt(c) /\ job[c] \in Jobs
      BY DEF FileInv, TypeInv
    <2>4. job[c].pc = "check" /\ job[c].received <= size /\ (tmp # NoIno => Len(ino[tmp]) = size)
      BY <1>32, <2>3 DEF JobValidate, JobAt, FileAt
    <2>5. job'[c].received = job[c].received /\ job'[c].pc \in {"place", "bad"}
      <3>1. job'[c] = [job[c] EXCEPT !.pc = "place"] \/ job'[c] = [job[c] EXCEPT !.pc = "bad"]
        BY <1>32 DEF JobValidate, JobTo, TypeInv
      <3> QED
        BY <2>3, <3>1 DEF Jobs
    <2>6. job'[c].pc = "place" /\ ver # "v2" => tmp # NoIno /\ ino[tmp] = cell[c] /\ cell[c] # NoSum
      <3>1. CASE ver # "v2" /\ ~ValidV4(c)
        <4>1. job'[c] = [job[c] EXCEPT !.pc = "bad"]
          BY <1>32, <3>1 DEF JobValidate, JobTo, TypeInv
        <4> QED
          BY <2>3, <4>1 DEF Jobs
      <3>2. CASE ver # "v2" /\ ValidV4(c)
        BY <1>32, <3>2 DEF JobValidate, ValidV4
      <3> QED
        BY <3>1, <3>2
    <2>8. Begun(c) => Begun(c)'
      BY <2>5 DEF Begun, Early
    <2>9. FileAt(c)'
      BY <2>1, <2>4, <2>5, <2>6 DEF FileAt, Early
    <2> QED
      BY <2>1, <2>2, <2>8, <2>9, FileMoved DEF TypeInv
  <1>33. ASSUME NEW c \in Conns, JobPlace(c) PROVE FileInv'
    <2>1. /\ job[c].pc = "place" /\ job[c].received <= size /\ job[c] \in Jobs
          /\ tmp # NoIno => Len(ino[tmp]) = size
          /\ tmp # NoIno /\ ver # "v2" => ino[tmp] = cell[c]
          /\ UNCHANGED <<ver, size, cell, ino>>
      BY <1>33 DEF JobPlace, JobAt, FileInv, FileAt, TypeInv
    <2>2. ASSUME NEW x \in Conns \ {c} PROVE FileAt(x)' /\ job'[x] = job[x]
      <3>1. job[x].pc \notin Abortable
        BY <2>1, OneJob DEF Abortable
      <3>2. job'[x] = job[x] /\ size' = size
        BY <1>33 DEF JobPlace, JobTo, TypeInv
      <3>3. FileAt(x)
        BY DEF FileInv
      <3> QED
        BY <3>1, <3>2, <3>3, AtRest
    <2>3. job'[c].pc \in {"bad", "ok"} /\ job'[c].received = job[c].received /\ tmp' = NoIno
      <3>1. job'[c] = [job[c] EXCEPT !.pc = "ok"] \/ job'[c] = [job[c] EXCEPT !.pc = "bad"]
        BY <1>33 DEF JobPlace, JobTo, TypeInv
      <3>2. tmp' = NoIno
        BY <1>33 DEF JobPlace
      <3> QED
        BY <2>1, <3>1, <3>2 DEF Jobs
    <2>4. FileAt(c)'
      BY <2>1, <2>3 DEF FileAt, Early
    <2>5. \A x \in Conns : Begun(x) => Begun(x)'
      BY <2>2, <2>3 DEF Begun, Early
    <2>6. ASSUME NEW d \in dest'
          PROVE  /\ Begun(d.ino)' /\ d.ino # tmp'
                 /\ Len(ino'[d.ino]) = size' /\ ino'[d.ino] = d.csum
      <3>1. CASE d \in dest
        BY <2>1, <2>3, <2>5, <3>1, Numbers DEF FileInv, TypeInv
      <3>2. CASE d \notin dest
        <4>1. tmp # NoIno /\ d = [ino |-> tmp, csum |-> IF ver = "v2" THEN ino[tmp] ELSE cell[c]]
          BY <1>33, <2>6, <3>2 DEF JobPlace
        <4>2. d.ino = tmp /\ d.csum = ino[tmp] /\ tmp \in Conns /\ Begun(tmp)
          BY <2>1, <4>1 DEF FileInv, TypeInv
        <4> QED
          BY <2>1, <2>3, <2>5, <4>1, <4>2
      <3> QED
        BY <3>1, <3>2
    <2> QED
      BY <2>2, <2>3, <2>4, <2>6 DEF FileInv
  <1>34. ASSUME NEW c \in Conns, JobPost(c) PROVE FileInv'
    <2>1. UNCHANGED <<ino, dest, ver, size, cell>> /\ tmp' \in {tmp, NoIno}
      BY <1>34 DEF JobPost
    <2>2. \A x \in Conns \ {c} : job'[x] = job[x]
      BY <1>34 DEF JobPost, TypeInv, JobEnds
    <2>3. FileAt(c) /\ job[c] \in Jobs
      BY DEF FileInv, TypeInv
    <2>4. job'[c].pc = "end" /\ job'[c].received = 0
      BY <1>34, Constructors DEF JobPost, JobEnds, TypeInv
    <2>8. Begun(c) => Begun(c)'
      BY <2>4 DEF Begun, Early
    <2>9. FileAt(c)'
      BY <2>4 DEF FileAt, Early, TypeInv
    <2> QED
      BY <2>1, <2>2, <2>8, <2>9, FileMoved DEF TypeInv
  <1>35. ASSUME NEW c \in Conns, JobCanceled(c) PROVE FileInv'
    <2>1. UNCHANGED <<ino, dest, ver, size, cell>> /\ tmp' \in {tmp, NoIno}
      BY <1>35 DEF JobCanceled
    <2>2. \A x \in Conns \ {c} : job'[x] = job[x]
      BY <1>35 DEF JobCanceled, TypeInv, JobEnds
    <2>3. FileAt(c) /\ job[c] \in Jobs
      BY DEF FileInv, TypeInv
    <2>4. job'[c].pc = "end" /\ job'[c].received = 0
      BY <1>35, Constructors DEF JobCanceled, JobEnds, TypeInv
    <2>8. Begun(c) => Begun(c)'
      BY <2>4 DEF Begun, Early
    <2>9. FileAt(c)'
      BY <2>4 DEF FileAt, Early, TypeInv
    <2> QED
      BY <2>1, <2>2, <2>8, <2>9, FileMoved DEF TypeInv
  <1>36. ASSUME NEW c \in Conns, Drained(c) PROVE FileInv'
    <2>1. UNCHANGED <<job, ino, dest, ver, size, cell>> /\ tmp' \in {tmp, NoIno}
      BY <1>36 DEF Drained
    <2> QED
      BY <2>1, FileKept
  <1>37. ASSUME NEW c \in Conns, Finalize(c) PROVE FileInv'
    <2>1. UNCHANGED <<job, ino, dest, ver, size, cell>> /\ tmp' \in {tmp, NoIno}
      BY <1>37 DEF Finalize, RemoveTemp, FinalizeSuccessV2, FinalizeSuccessV4
    <2> QED
      BY <2>1, FileKept
  <1>38. ASSUME NEW c \in Conns, ServerBreak(c) PROVE FileInv'
    <2>1. UNCHANGED <<job, ino, dest, ver, size, cell>> /\ tmp' \in {tmp, NoIno}
      BY <1>38 DEF ServerBreak
    <2> QED
      BY <2>1, FileKept
  <1>39. CASE UNCHANGED vars
    BY <1>39 DEF vars, FileInv, FileAt, Begun
  <1> QED
    BY <1>1, <1>2, <1>3, <1>4, <1>5, <1>6, <1>7, <1>8, <1>9, <1>10, <1>11, <1>12,
       <1>13, <1>14, <1>15, <1>16, <1>17, <1>18, <1>19, <1>20, <1>21, <1>22, <1>23, <1>24,
       <1>25, <1>26, <1>27, <1>28, <1>29, <1>30, <1>31, <1>32, <1>33, <1>34, <1>35, <1>36,
       <1>37, <1>38, <1>39
       DEF Next, Environment, Running

-----------------------------------------------------------------------------
(* Chains.                                                                 *)

LEMMA ChainNothing ==
  ASSUME NEW s \in Seq(Seq(Block)), NEW a \in Nat, \A i \in 1 .. Len(s) : s[i] = <<>>
  PROVE  Chain(s, a, a)
  <1> DEFINE p == [i \in 1 .. Len(s) + 1 |-> a]
  <1>1. Len(s) \in Nat
    OBVIOUS
  <1>2. p \in [1 .. Len(s) + 1 -> Nat] /\ p[1] = a /\ p[Len(s) + 1] = a
    BY <1>1
  <1>3. ASSUME NEW i \in 1 .. Len(s) PROVE IsData(s[i], p[i]) /\ p[i + 1] = p[i] + Len(s[i])
    <2>1. s[i] = <<>>
      OBVIOUS
    <2>2. Len(s[i]) = 0 /\ DOMAIN s[i] = {}
      BY <2>1
    <2>3. p[i] = a /\ p[i + 1] = a
      BY <1>1
    <2> QED
      BY <2>2, <2>3 DEF IsData
  <1> HIDE DEF p
  <1> QED
    BY <1>2, <1>3 DEF Chain

LEMMA ChainAppend ==
  ASSUME NEW s \in Seq(Seq(Block)), NEW x \in Seq(Block), NEW a \in Nat, NEW b \in Nat,
         Chain(s, a, b), IsData(x, b)
  PROVE  Chain(Append(s, x), a, b + Len(x))
  <1> DEFINE n == Len(s)
             t == Append(s, x)
  <1>1. /\ n \in Nat /\ Len(t) = n + 1 /\ Len(x) \in Nat
        /\ \A i \in 1 .. n : t[i] = s[i]
        /\ t[n + 1] = x
    BY AppendElements
  <1> HIDE DEF n, t
  <1>2. PICK p \in [1 .. n + 1 -> Nat] :
               /\ p[1] = a /\ p[n + 1] = b
               /\ \A i \in 1 .. n : IsData(s[i], p[i]) /\ p[i + 1] = p[i] + Len(s[i])
    BY DEF Chain, n
  <1> DEFINE q == [i \in 1 .. n + 2 |-> IF i <= n + 1 THEN p[i] ELSE b + Len(x)]
  <1>3. q \in [1 .. n + 2 -> Nat]
    BY <1>1
  <1>4. (\A i \in 1 .. n + 1 : q[i] = p[i]) /\ q[n + 2] = b + Len(x)
    BY <1>1
  <1> HIDE DEF q
  <1>5. ASSUME NEW i \in 1 .. n + 1 PROVE IsData(t[i], q[i]) /\ q[i + 1] = q[i] + Len(t[i])
    <2>1. CASE i \in 1 .. n
      <3>1. t[i] = s[i] /\ q[i] = p[i] /\ q[i + 1] = p[i + 1]
        BY <1>1, <1>4, <2>1
      <3> QED
        BY <1>2, <2>1, <3>1
    <2>2. CASE i = n + 1
      <3>1. t[i] = x /\ q[i] = b /\ q[i + 1] = b + Len(x)
        BY <1>1, <1>2, <1>4, <2>2
      <3> QED
        BY <3>1
    <2> QED
      BY <1>1, <2>1, <2>2
  <1>6. q[1] = a
    BY <1>1, <1>2, <1>4
  <1>7. Len(t) + 1 = n + 2
    BY <1>1
  <1>8. Chain(t, a, b + Len(x))
    BY <1>1, <1>3, <1>4, <1>5, <1>6, <1>7 DEF Chain
  <1> QED
    BY <1>8 DEF t

LEMMA ChainTail ==
  ASSUME NEW s \in Seq(Seq(Block)), NEW a \in Nat, NEW b \in Nat, Chain(s, a, b), s # <<>>
  PROVE  IsData(Head(s), a) /\ Chain(Tail(s), a + Len(Head(s)), b)
  <1> DEFINE n == Len(s)
             t == Tail(s)
  <1>1. /\ n \in Nat /\ n >= 1 /\ Head(s) = s[1] /\ Len(t) = n - 1
        /\ \A i \in 1 .. n - 1 : t[i] = s[i + 1]
    BY TailElements
  <1> HIDE DEF n, t
  <1>2. PICK p \in [1 .. n + 1 -> Nat] :
               /\ p[1] = a /\ p[n + 1] = b
               /\ \A i \in 1 .. n : IsData(s[i], p[i]) /\ p[i + 1] = p[i] + Len(s[i])
    BY DEF Chain, n
  <1> DEFINE q == [i \in 1 .. n |-> p[i + 1]]
  <1>3. q \in [1 .. n -> Nat]
    BY <1>1
  <1>4. \A i \in 1 .. n : q[i] = p[i + 1]
    OBVIOUS
  <1> HIDE DEF q
  <1>5. ASSUME NEW i \in 1 .. n - 1 PROVE IsData(t[i], q[i]) /\ q[i + 1] = q[i] + Len(t[i])
    <2>1. i + 1 \in 1 .. n /\ i \in 1 .. n
      BY <1>1
    <2>2. q[i] = p[i + 1] /\ q[i + 1] = p[(i + 1) + 1] /\ t[i] = s[i + 1]
      BY <1>1, <1>4, <2>1
    <2> QED
      BY <1>2, <2>1, <2>2
  <1>6. 1 \in 1 .. n /\ n \in 1 .. n
    BY <1>1
  <1>7. IsData(s[1], a) /\ q[1] = a + Len(s[1]) /\ q[n] = b
    <2>1. IsData(s[1], p[1]) /\ p[1 + 1] = p[1] + Len(s[1])
      BY <1>2, <1>6
    <2>2. q[1] = p[1 + 1] /\ q[n] = p[n + 1]
      BY <1>4, <1>6
    <2> QED
      BY <1>2, <2>1, <2>2
  <1>8. Len(t) + 1 = n
    BY <1>1
  <1>9. Chain(t, a + Len(s[1]), b)
    BY <1>1, <1>3, <1>5, <1>7, <1>8 DEF Chain
  <1> QED
    BY <1>1, <1>7, <1>9 DEF t

LEMMA PayloadTyped ==
  ASSUME NEW s \in Seq(Message)
  PROVE  /\ Payload(s) \in Seq(Seq(Block)) /\ Len(Payload(s)) = Len(s) /\ Len(s) \in Nat
         /\ \A i \in 1 .. Len(s) : Payload(s)[i] = Data(s[i])
  <1>1. Len(s) \in Nat /\ \A i \in 1 .. Len(s) : s[i] \in Message
    OBVIOUS
  <1>2. \A m \in Message : Data(m) \in Seq(Block)
    <2> SUFFICES ASSUME NEW m \in Message PROVE Data(m) \in Seq(Block)
      OBVIOUS
    <2>1. m.d \in Seq(Block) /\ <<>> \in Seq(Block)
      BY DEF Message
    <2> QED
      BY <2>1 DEF Data
  <1>3. Payload(s) \in [1 .. Len(s) -> Seq(Block)]
    BY <1>1, <1>2 DEF Payload
  <1>4. \A i \in 1 .. Len(s) : Payload(s)[i] = Data(s[i])
    BY DEF Payload
  <1> QED
    BY <1>1, <1>3, <1>4, SeqOf

LEMMA SameSeq ==
  ASSUME NEW S, NEW s \in Seq(S), NEW t \in Seq(S), Len(s) = Len(t), \A i \in 1 .. Len(s) : s[i] = t[i]
  PROVE  s = t
  OBVIOUS

LEMMA PayloadAppend ==
  ASSUME NEW s \in Seq(Message), NEW m \in Message
  PROVE  Payload(Append(s, m)) = Append(Payload(s), Data(m)) /\ Data(m) \in Seq(Block)
  <1> DEFINE n == Len(s)
             t == Append(s, m)
             u == Append(Payload(s), Data(m))
  <1>1. /\ n \in Nat /\ Len(t) = n + 1 /\ t \in Seq(Message)
        /\ \A i \in 1 .. n : t[i] = s[i]
        /\ t[n + 1] = m
    BY AppendElements
  <1>2. /\ Payload(s) \in Seq(Seq(Block)) /\ Len(Payload(s)) = n
        /\ \A i \in 1 .. n : Payload(s)[i] = Data(s[i])
    BY PayloadTyped
  <1>3. Data(m) \in Seq(Block)
    <2>1. m.d \in Seq(Block) /\ <<>> \in Seq(Block)
      BY DEF Message
    <2> QED
      BY <2>1 DEF Data
  <1>4. /\ u \in Seq(Seq(Block)) /\ Len(u) = n + 1
        /\ \A i \in 1 .. n : u[i] = Payload(s)[i]
        /\ u[n + 1] = Data(m)
    BY <1>2, <1>3, AppendElements
  <1> HIDE DEF n, t, u
  <1>5. /\ Payload(t) \in Seq(Seq(Block)) /\ Len(Payload(t)) = n + 1
        /\ \A i \in 1 .. n + 1 : Payload(t)[i] = Data(t[i])
    BY <1>1, PayloadTyped
  <1>6. ASSUME NEW i \in 1 .. n + 1 PROVE Payload(t)[i] = u[i]
    <2>1. CASE i \in 1 .. n
      BY <1>1, <1>2, <1>4, <1>5, <2>1
    <2>2. CASE i = n + 1
      BY <1>1, <1>4, <1>5, <2>2
    <2> QED
      BY <1>1, <2>1, <2>2
  <1>7. Payload(t) = u
    BY <1>4, <1>5, <1>6, SameSeq
  <1> QED
    BY <1>3, <1>7 DEF t, u

LEMMA PayloadTail ==
  ASSUME NEW s \in Seq(Message), s # <<>>
  PROVE  /\ Payload(Tail(s)) = Tail(Payload(s)) /\ Payload(s) # <<>>
         /\ Head(Payload(s)) = Data(Head(s))
  <1> DEFINE n == Len(s)
             t == Tail(s)
             P == Payload(s)
             u == Tail(P)
  <1>1. /\ n \in Nat /\ n >= 1 /\ Head(s) = s[1] /\ Len(t) = n - 1 /\ t \in Seq(Message)
        /\ \A i \in 1 .. n - 1 : t[i] = s[i + 1]
    BY TailElements
  <1>2. P \in Seq(Seq(Block)) /\ Len(P) = n /\ \A i \in 1 .. n : P[i] = Data(s[i])
    BY PayloadTyped
  <1> HIDE DEF P
  <1>3. P # <<>>
    BY <1>1, <1>2
  <1>4. /\ Head(P) = P[1] /\ Len(u) = n - 1 /\ u \in Seq(Seq(Block))
        /\ \A i \in 1 .. n - 1 : u[i] = P[i + 1]
    BY <1>2, <1>3, TailElements
  <1> HIDE DEF n, t, u
  <1>5. /\ Payload(t) \in Seq(Seq(Block)) /\ Len(Payload(t)) = n - 1
        /\ \A i \in 1 .. n - 1 : Payload(t)[i] = Data(t[i])
    BY <1>1, PayloadTyped
  <1>6. ASSUME NEW i \in 1 .. n - 1 PROVE Payload(t)[i] = u[i]
    <2>1. i + 1 \in 1 .. n
      BY <1>1
    <2> QED
      BY <1>1, <1>2, <1>4, <1>5, <2>1
  <1>7. Payload(t) = u
    BY <1>1, <1>4, <1>5, <1>6, SameSeq
  <1>8. Head(P) = Data(Head(s))
    BY <1>1, <1>2, <1>4
  <1> QED
    BY <1>3, <1>7, <1>8 DEF P, t, u

\* A message that is not a chunk neither ends nor starts a piece.
LEMMA OtherAppended ==
  ASSUME NEW s \in Seq(Message), NEW m \in Message, m.k # "Chunk"
  PROVE  /\ NoChunk(s) => NoChunk(Append(s, m))
         /\ \A a, b \in Nat : Chain(Payload(s), a, b) => Chain(Payload(Append(s, m)), a, b)
  <1>1. NoChunk(s) => NoChunk(Append(s, m))
    BY AppendElements DEF NoChunk
  <1>2. ASSUME NEW a \in Nat, NEW b \in Nat, Chain(Payload(s), a, b)
        PROVE  Chain(Payload(Append(s, m)), a, b)
    <2>1. Data(m) = <<>>
      BY DEF Data
    <2>2. IsData(<<>>, b) /\ <<>> \in Seq(Block) /\ Len(<<>>) = 0
      BY DEF IsData
    <2>3. Payload(s) \in Seq(Seq(Block))
      BY PayloadTyped
    <2>4. Chain(Append(Payload(s), <<>>), a, b + Len(<<>>))
      BY <1>2, <2>2, <2>3, ChainAppend
    <2>5. b + Len(<<>>) = b
      BY <2>2
    <2>6. Payload(Append(s, m)) = Append(Payload(s), <<>>)
      BY <2>1, PayloadAppend
    <2> QED
      BY <2>4, <2>5, <2>6
  <1> QED
    BY <1>1, <1>2

LEMMA OtherTaken ==
  ASSUME NEW s \in Seq(Message), s # <<>>
  PROVE  /\ NoChunk(s) => NoChunk(Tail(s))
         /\ Head(s).k # "Chunk" =>
              \A a, b \in Nat : Chain(Payload(s), a, b) => Chain(Payload(Tail(s)), a, b)
  <1>1. NoChunk(s) => NoChunk(Tail(s))
    BY TailElements DEF NoChunk
  <1>2. ASSUME Head(s).k # "Chunk", NEW a \in Nat, NEW b \in Nat, Chain(Payload(s), a, b)
        PROVE  Chain(Payload(Tail(s)), a, b)
    <2>1. Data(Head(s)) = <<>> /\ Len(<<>>) = 0
      BY <1>2 DEF Data
    <2>2. Payload(s) \in Seq(Seq(Block))
      BY PayloadTyped
    <2>3. Chain(Tail(Payload(s)), a + Len(Head(Payload(s))), b)
      BY <1>2, <2>2, PayloadTail, ChainTail
    <2>4. Head(Payload(s)) = <<>> /\ Tail(Payload(s)) = Payload(Tail(s))
      BY <2>1, PayloadTail
    <2>5. a + Len(Head(Payload(s))) = a
      BY <2>1, <2>4
    <2> QED
      BY <2>3, <2>4, <2>5
  <1> QED
    BY <1>1, <1>2

LEMMA StartsAppended ==
  ASSUME NEW s \in Seq(Message), NEW m \in Message, m.k # "Start"
  PROVE  /\ NoStart(s) => NoStart(Append(s, m))
         /\ \A e : OnlyStart(s, e) => OnlyStart(Append(s, m), e)
         /\ ZeroStart(s) => ZeroStart(Append(s, m))
  <1> DEFINE t == Append(s, m)
  <1>1. /\ Len(s) \in Nat /\ DOMAIN s = 1 .. Len(s) /\ DOMAIN t = 1 .. Len(s) + 1
        /\ \A i \in 1 .. Len(s) : t[i] = s[i]
        /\ t[Len(s) + 1] = m
    BY AppendElements
  <1> HIDE DEF t
  <1>2. \A i \in DOMAIN t : t[i].k = "Start" => i \in DOMAIN s /\ t[i] = s[i]
    BY <1>1
  <1>3. NoStart(s) => NoStart(t)
    BY <1>2 DEF NoStart
  <1>4. ASSUME NEW e, OnlyStart(s, e) PROVE OnlyStart(t, e)
    BY <1>2, <1>4 DEF OnlyStart
  <1>5. ZeroStart(s) => ZeroStart(t)
    BY <1>2 DEF ZeroStart
  <1> QED
    BY <1>3, <1>4, <1>5 DEF t

LEMMA StartsTaken ==
  ASSUME NEW s \in Seq(Message), s # <<>>
  PROVE  /\ NoStart(s) => NoStart(Tail(s)) /\ Head(s).k # "Start"
         /\ \A e : OnlyStart(s, e) => OnlyStart(Tail(s), e)
         /\ \A e : OnlyStart(s, e) /\ Head(s).k = "Start" => NoStart(Tail(s)) /\ Head(s).n = e
         /\ ZeroStart(s) => ZeroStart(Tail(s)) /\ (Head(s).k = "Start" => Head(s).n = 0)
  <1> DEFINE t == Tail(s)
  <1>1. /\ Len(s) \in Nat /\ Len(s) >= 1 /\ DOMAIN s = 1 .. Len(s) /\ DOMAIN t = 1 .. Len(s) - 1
        /\ \A i \in 1 .. Len(s) - 1 : t[i] = s[i + 1]
        /\ Head(s) = s[1]
    BY TailElements
  <1> HIDE DEF t
  <1>2. \A i \in DOMAIN t : i \in Nat /\ i >= 1 /\ i + 1 \in DOMAIN s /\ t[i] = s[i + 1]
    BY <1>1
  <1>3. 1 \in DOMAIN s
    BY <1>1
  <1>4. NoStart(s) => NoStart(t) /\ Head(s).k # "Start"
    BY <1>1, <1>2, <1>3 DEF NoStart
  <1>5. ASSUME NEW e, OnlyStart(s, e) PROVE OnlyStart(t, e)
    <2> SUFFICES ASSUME NEW i \in DOMAIN t, t[i].k = "Start"
                 PROVE  t[i].n = e /\ \A j \in DOMAIN t : t[j].k = "Start" => j = i
      BY DEF OnlyStart
    <2>1. s[i + 1].n = e /\ \A j \in DOMAIN s : s[j].k = "Start" => j = i + 1
      BY <1>2, <1>5 DEF OnlyStart
    <2>2. ASSUME NEW j \in DOMAIN t, t[j].k = "Start" PROVE j = i
      <3>1. j + 1 = i + 1
        BY <1>2, <2>1, <2>2
      <3> QED
        BY <1>2, <3>1
    <2> QED
      BY <1>2, <2>1, <2>2
  <1>6. ASSUME NEW e, OnlyStart(s, e), Head(s).k = "Start" PROVE NoStart(t) /\ Head(s).n = e
    <2>1. s[1].n = e /\ \A j \in DOMAIN s : s[j].k = "Start" => j = 1
      BY <1>1, <1>3, <1>6 DEF OnlyStart
    <2>2. ASSUME NEW i \in DOMAIN t, t[i].k = "Start" PROVE FALSE
      <3>1. i + 1 = 1
        BY <1>2, <2>1, <2>2
      <3> QED
        BY <1>2, <3>1
    <2> QED
      BY <1>1, <2>1, <2>2 DEF NoStart
  <1>7. ZeroStart(s) => ZeroStart(t) /\ (Head(s).k = "Start" => Head(s).n = 0)
    BY <1>1, <1>2, <1>3 DEF ZeroStart
  <1> QED
    BY <1>4, <1>5, <1>6, <1>7 DEF t

-----------------------------------------------------------------------------
(* What is on its way.                                                     *)

\* Of what the client still has to read, and of what the server has, nothing is added
\* that matters here.
KeptC(c) == /\ NoStart(toC[c]) => NoStart(toC'[c])
            /\ ZeroStart(toC[c]) => ZeroStart(toC'[c])
            /\ \A e \in Nat : OnlyStart(toC[c], e) => OnlyStart(toC'[c], e)

KeptS(c) == /\ NoChunk(toS[c]) => NoChunk(toS'[c])
            /\ sv'[c] = "run" => \A a, b \in Nat : Chain(Payload(toS[c]), a, b) => Chain(Payload(toS'[c]), a, b)

LEMMA EmptyWire ==
  NoStart(<<>>) /\ ZeroStart(<<>>) /\ NoChunk(<<>>) /\ \A e : OnlyStart(<<>>, e)
  BY DEF NoStart, ZeroStart, NoChunk, OnlyStart

LEMMA SentC ==
  ASSUME TypeInv, NEW c \in Conns, NEW m \in Message, m.k # "Start", SendC(c, <<m>>)
  PROVE  KeptC(c)
  <1>1. toC[c] \in Seq(Message)
    BY DEF TypeInv
  <1>2. toC'[c] = toC[c] \/ toC'[c] = toC[c] \o <<m>>
    BY DEF SendC, TypeInv
  <1>3. toC[c] \o <<m>> = Append(toC[c], m)
    BY <1>1, ConcatOne
  <1>4. CASE toC'[c] = toC[c]
    BY <1>4 DEF KeptC
  <1>5. CASE toC'[c] = Append(toC[c], m)
    BY <1>1, <1>5, StartsAppended DEF KeptC
  <1> QED
    BY <1>2, <1>3, <1>4, <1>5

LEMMA SentS ==
  ASSUME TypeInv, NEW c \in Conns, NEW m \in Message, m.k # "Chunk", SendS(c, <<m>>)
  PROVE  KeptS(c)
  <1>1. toS[c] \in Seq(Message)
    BY DEF TypeInv
  <1>2. toS'[c] = toS[c] \/ toS'[c] = toS[c] \o <<m>>
    BY DEF SendS, TypeInv
  <1>3. toS[c] \o <<m>> = Append(toS[c], m)
    BY <1>1, ConcatOne
  <1>4. CASE toS'[c] = toS[c]
    BY <1>4 DEF KeptS
  <1>5. CASE toS'[c] = Append(toS[c], m)
    BY <1>1, <1>5, OtherAppended DEF KeptS
  <1> QED
    BY <1>2, <1>3, <1>4, <1>5

LEMMA TakenC ==
  ASSUME TypeInv, NEW c \in Conns, toC[c] # <<>>, TakeC(c)
  PROVE  KeptC(c)
  <1>1. toC[c] \in Seq(Message) /\ toC'[c] = Tail(toC[c])
    BY DEF TypeInv, TakeC
  <1> QED
    BY <1>1, StartsTaken DEF KeptC

LEMMA TakenS ==
  ASSUME TypeInv, NEW c \in Conns, toS[c] # <<>>, TakeS(c), Head(toS[c]).k # "Chunk"
  PROVE  KeptS(c)
  <1>1. toS[c] \in Seq(Message) /\ toS'[c] = Tail(toS[c])
    BY DEF TypeInv, TakeS
  <1> QED
    BY <1>1, OtherTaken DEF KeptS

\* A step that neither moves the job, nor its data, nor the upload forward.
LEMMA PipeFrame ==
  ASSUME NEW c \in Conns, PipeAt(c), ver' = ver, job'[c] = job[c], chunks'[c] = chunks[c],
         held'[c] => held[c], sv'[c] = "run" => sv[c] = "run", KeptC(c), KeptS(c),
         upload[c].pc = "none" => upload'[c].pc = "none",
         upload'[c].pc \in {"open", "read"} => upload[c].pc \in {"open", "read"} /\ upload'[c].pos = upload[c].pos
  PROVE  PipeAt(c)'
  <1>1. Quiet(c)'
    BY DEF PipeAt, Quiet, KeptC, KeptS
  <1>2. FromZero(c)'
    BY DEF PipeAt, FromZero, KeptC
  <1>3. Flow(c)'
    <2> SUFFICES ASSUME job[c].pc = "recv"
                 PROVE  \E m \in Nat : /\ Chain(chunks[c], job[c].received, m)
                                       /\ held'[c] /\ sv'[c] = "run" =>
                                            \E e \in Nat : Chain(Payload(toS'[c]), m, e) /\ Fed(c, e)'
      BY DEF Flow
    <2>1. PICK m \in Nat : /\ Chain(chunks[c], job[c].received, m)
                           /\ held[c] /\ sv[c] = "run" =>
                                \E e \in Nat : Chain(Payload(toS[c]), m, e) /\ Fed(c, e)
      BY DEF PipeAt, Flow
    <2>2. ASSUME held'[c], sv'[c] = "run"
          PROVE  \E e \in Nat : Chain(Payload(toS'[c]), m, e) /\ Fed(c, e)'
      <3>1. PICK e \in Nat : Chain(Payload(toS[c]), m, e) /\ Fed(c, e)
        BY <2>1, <2>2
      <3>2. Chain(Payload(toS'[c]), m, e)
        BY <2>2, <3>1 DEF KeptS
      <3>3. Fed(c, e)'
        BY <3>1 DEF Fed, KeptC
      <3> QED
        BY <3>2, <3>3
    <2> QED
      BY <2>1, <2>2
  <1> QED
    BY <1>1, <1>2, <1>3 DEF PipeAt

\* A step of c.
LEMMA PipeKept ==
  ASSUME PipeInv, NEW c \in Conns, Local(c), ver' = ver, src' = src,
         src.mtime = 0 /\ PipeAt(c) => PipeAt(c)', src.mtime = 0 => \A x \in Conns : IsData(ino'[x], 0)
  PROVE  PipeInv'
  <1> SUFFICES ASSUME src.mtime = 0, NEW x \in Conns PROVE PipeAt(x)'
    BY DEF PipeInv
  <1>1. PipeAt(c)' /\ PipeAt(x)
    BY DEF PipeInv
  <1>2. CASE x # c
    <2>1. /\ sv'[x] = sv[x] /\ job'[x] = job[x] /\ upload'[x] = upload[x]
          /\ toC'[x] = toC[x] /\ toS'[x] = toS[x] /\ chunks'[x] = chunks[x] /\ held'[x] = held[x]
      BY <1>2 DEF Local
    <2>2. KeptC(x) /\ KeptS(x)
      BY <2>1 DEF KeptC, KeptS
    <2> QED
      BY <1>1, <2>1, <2>2, PipeFrame
  <1> QED
    BY <1>1, <1>2

\* The job is neither before its first chunk nor waiting for one.
LEMMA PipeOver ==
  ASSUME NEW c \in Conns, PipeAt(c), ver' = ver, job'[c].pc \notin Early, job'[c].pc # "recv", KeptC(c)
  PROVE  PipeAt(c)'
  BY DEF PipeAt, Quiet, FromZero, Flow, KeptC, Early

\* The job is before its first chunk.
LEMMA PipeEarly ==
  ASSUME NEW c \in Conns, PipeAt(c), ver' = ver, job[c].pc \in Early, job'[c].pc \in Early, KeptC(c),
         upload'[c] = upload[c], toS'[c] = toS[c], chunks'[c] = chunks[c],
         ver = "v2" => job'[c].offset = 0 /\ job'[c].pc \notin {"partial", "full"}
  PROVE  PipeAt(c)'
  <1>1. job'[c].pc # "recv"
    BY DEF Early
  <1> QED
    BY <1>1 DEF PipeAt, Quiet, FromZero, Flow, KeptC

LEMMA StartAppended ==
  ASSUME NEW s \in Seq(Message), NEW m \in Message, m.k = "Start", NoStart(s)
  PROVE  OnlyStart(Append(s, m), m.n) /\ (m.n = 0 => ZeroStart(Append(s, m)))
  <1> DEFINE t == Append(s, m)
  <1>1. /\ Len(s) \in Nat /\ DOMAIN s = 1 .. Len(s) /\ DOMAIN t = 1 .. Len(s) + 1
        /\ \A i \in 1 .. Len(s) : t[i] = s[i]
        /\ t[Len(s) + 1] = m
    BY AppendElements
  <1> HIDE DEF t
  <1>2. \A i \in DOMAIN t : t[i].k = "Start" => i = Len(s) + 1
    BY <1>1 DEF NoStart
  <1>3. OnlyStart(t, m.n) /\ (m.n = 0 => ZeroStart(t))
    BY <1>1, <1>2 DEF OnlyStart, ZeroStart
  <1> QED
    BY <1>3 DEF t

LEMMA NoStartOnly == \A s, e : NoStart(s) => OnlyStart(s, e) /\ ZeroStart(s)
  BY DEF NoStart, OnlyStart, ZeroStart

LEMMA NoChunkChain ==
  ASSUME NEW s \in Seq(Message), NoChunk(s), NEW a \in Nat
  PROVE  Chain(Payload(s), a, a)
  <1>1. Payload(s) \in Seq(Seq(Block)) /\ Len(Payload(s)) = Len(s) /\ Len(s) \in Nat
    BY PayloadTyped
  <1>2. \A i \in 1 .. Len(s) : Payload(s)[i] = Data(s[i]) /\ s[i].k # "Chunk"
    BY PayloadTyped DEF NoChunk
  <1>3. \A i \in 1 .. Len(Payload(s)) : Payload(s)[i] = <<>>
    BY <1>1, <1>2 DEF Data
  <1> QED
    BY <1>1, <1>3, ChainNothing

\* The first chunk that was on the wire goes to the end of the channel.
LEMMA ChunkTaken ==
  ASSUME NEW s \in Seq(Message), s # <<>>, Head(s).k = "Chunk"
  PROVE  /\ ~NoChunk(s) /\ Head(s).d \in Seq(Block)
         /\ \A a, b \in Nat : Chain(Payload(s), a, b) =>
              IsData(Head(s).d, a) /\ Chain(Payload(Tail(s)), a + Len(Head(s).d), b)
  <1>1. Head(s) = s[1] /\ Head(s) \in Message /\ 1 \in DOMAIN s
    BY TailElements
  <1>2. ~NoChunk(s) /\ Head(s).d \in Seq(Block)
    BY <1>1 DEF NoChunk, Message
  <1>3. /\ Payload(Tail(s)) = Tail(Payload(s)) /\ Payload(s) # <<>> /\ Payload(s) \in Seq(Seq(Block))
        /\ Head(Payload(s)) = Head(s).d
    BY PayloadTail, PayloadTyped DEF Data
  <1>4. ASSUME NEW a \in Nat, NEW b \in Nat, Chain(Payload(s), a, b)
        PROVE  IsData(Head(s).d, a) /\ Chain(Payload(Tail(s)), a + Len(Head(s).d), b)
    BY <1>3, <1>4, ChainTail
  <1> QED
    BY <1>2, <1>4

LEMMA ChunkAppended ==
  ASSUME NEW s \in Seq(Message), NEW m \in Message, m.k = "Chunk", NEW a \in Nat, NEW b \in Nat,
         Chain(Payload(s), a, b), IsData(m.d, b)
  PROVE  Chain(Payload(Append(s, m)), a, b + Len(m.d))
  <1>1. Data(m) = m.d /\ m.d \in Seq(Block)
    BY DEF Data, Message
  <1>2. Payload(Append(s, m)) = Append(Payload(s), m.d) /\ Payload(s) \in Seq(Seq(Block))
    BY <1>1, PayloadAppend, PayloadTyped
  <1> QED
    BY <1>1, <1>2, ChainAppend

LEMMA WrittenData ==
  ASSUME NEW old \in Seq(Block), NEW data \in Seq(Block), NEW a \in BOOLEAN,
         IsData(old, 0), IsData(data, Len(old))
  PROVE  IsData(Written(old, Len(old), data, a), 0)
  <1> DEFINE w == Written(old, Len(old), data, a)
             n == Len(old)
  <1>0. n \in Nat /\ Len(data) \in Nat
    OBVIOUS
  <1>1. /\ w \in Seq(Block) /\ Len(w) = n + Len(data) /\ n \in Nat /\ Len(data) \in Nat
        /\ \A i \in 1 .. n + Len(data) : w[i] = IF i <= n THEN old[i] ELSE data[i - n]
    BY <1>0, WrittenTyped, ZenonT(30)
  <1> HIDE DEF w, n
  <1>2. DOMAIN w = 1 .. n + Len(data) /\ DOMAIN old = 1 .. n /\ DOMAIN data = 1 .. Len(data)
    BY <1>1 DEF n
  <1>3. ASSUME NEW i \in 1 .. n + Len(data) PROVE w[i] = <<0, 0 + i>>
    <2>1. CASE i <= n
      <3>1. i \in DOMAIN old /\ w[i] = old[i]
        BY <1>1, <1>2, <2>1
      <3> QED
        BY <3>1 DEF IsData
    <2>2. CASE ~(i <= n)
      <3>1. i - n \in DOMAIN data /\ w[i] = data[i - n]
        BY <1>1, <1>2, <2>2
      <3>2. data[i - n] = <<0, n + (i - n)>>
        BY <3>1 DEF IsData, n
      <3>3. n + (i - n) = 0 + i
        BY <1>1
      <3> QED
        BY <3>1, <3>2, <3>3
    <2> QED
      BY <2>1, <2>2
  <1>4. IsData(w, 0)
    BY <1>2, <1>3 DEF IsData
  <1> QED
    BY <1>4 DEF w

LEMMA PipeInit == Init => PipeInv
  <1> SUFFICES ASSUME Init, NEW x \in Conns PROVE IsData(ino[x], 0) /\ PipeAt(x)
    BY DEF PipeInv
  <1>1. /\ ino[x] = <<>> /\ job[x] = NoJob /\ upload[x] = NoUpload /\ toC[x] = <<>> /\ toS[x] = <<>>
        /\ chunks[x] = <<>>
    BY DEF Init
  <1>2. IsData(<<>>, 0)
    BY DEF IsData
  <1> QED
    BY <1>1, <1>2, EmptyWire, Constructors DEF PipeAt, Quiet, FromZero, Flow

LEMMA PipeStep == TypeInv /\ ConnInv /\ FileInv /\ PipeInv /\ [Next]_vars => PipeInv'
  <1> SUFFICES ASSUME TypeInv, ConnInv, FileInv, PipeInv, [Next]_vars PROVE PipeInv'
    OBVIOUS
  <1> USE DEF fixed, sender, client, wire, receiver, server, task, disk
  <1>1. CASE ApiDownload
    <2>1. CASE Live
      <3>1. PICK c \in Conns : c = conn
        BY <2>1 DEF Live, TypeInv
      <3>2. Local(c) /\ UNCHANGED <<ver, src, ino, toC, toS, upload, chunks>>
        BY <1>1, <2>1, <3>1 DEF ApiDownload, Local, TypeInv
      <3>3. job[c].pc = "none" /\ job[c].offset = 0 /\ job[c] \in Jobs
        BY <1>1 DEF ApiDownload, ConnInv, FileInv, FileAt, TypeInv
      <3>4. job'[c].pc = "load" /\ job'[c].offset = 0
        <4>1. job'[c] = [job[c] EXCEPT !.pc = "load"]
          BY <1>1, <2>1, <3>1 DEF ApiDownload, TypeInv
        <4> QED
          BY <3>3, <4>1 DEF Jobs
      <3>5. KeptC(c)
        BY <3>2 DEF KeptC
      <3>6. job[c].pc \in Early /\ job'[c].pc \in Early
        BY <3>3, <3>4 DEF Early
      <3>7. PipeAt(c) => PipeAt(c)'
        BY <3>2, <3>4, <3>5, <3>6, PipeEarly
      <3>8. src.mtime = 0 => \A x \in Conns : IsData(ino'[x], 0)
        BY <3>2 DEF PipeInv
      <3> QED
        BY <3>2, <3>7, <3>8, PipeKept
    <2>2. CASE ~Live
      <3>1. UNCHANGED <<ver, src, ino, job, chunks, held, sv, toC, toS, upload>>
        BY <1>1, <2>2 DEF ApiDownload
      <3> QED
        BY <3>1 DEF PipeInv, PipeAt, Quiet, FromZero, Flow, Fed
    <2> QED
      BY <2>1, <2>2
  <1>2. CASE Modify
    <2>1. src'.mtime # 0
      BY <1>2 DEF Modify, TypeInv, Source
    <2> QED
      BY <2>1 DEF PipeInv
  <1>3. CASE ApiSenderReject
    <2>1. UNCHANGED <<ver, src, ino, job, chunks, held, sv, toC>>
      BY <1>3 DEF ApiSenderReject
    <2>2. ASSUME NEW x \in Conns, PipeAt(x) PROVE PipeAt(x)'
      <3>1. upload'[x] \in {upload[x], NoUpload}
        BY <1>3 DEF ApiSenderReject
      <3>2. toS[x] \in Seq(Message) /\ toS'[x] \in {toS[x], Append(toS[x], RejectMsg)}
        BY <1>3 DEF ApiSenderReject, TypeInv
      <3>3. RejectMsg \in Message /\ RejectMsg.k # "Chunk"
        BY RejectMessage
      <3>4. KeptS(x)
        <4>1. CASE toS'[x] = toS[x]
          BY <4>1 DEF KeptS
        <4>2. CASE toS'[x] = Append(toS[x], RejectMsg)
          BY <3>2, <3>3, <4>2, OtherAppended DEF KeptS
        <4> QED
          BY <3>2, <4>1, <4>2
      <3>5. KeptC(x)
        BY <2>1 DEF KeptC
      <3>6. /\ upload[x].pc = "none" => upload'[x].pc = "none"
            /\ upload'[x].pc \in {"open", "read"} => upload[x].pc \in {"open", "read"} /\ upload'[x].pos = upload[x].pos
        BY <3>1, Constructors
      <3> QED
        BY <2>1, <2>2, <3>4, <3>5, <3>6, PipeFrame
    <2> QED
      BY <2>1, <2>2 DEF PipeInv
  <1>4. CASE ApiReject
    <2>1. CASE Live
      <3>1. PICK c \in Conns : c = conn
        BY <2>1 DEF Live, TypeInv
      <3>2. Local(c) /\ UNCHANGED <<ver, src, ino>>
        BY <1>4, <2>1, <3>1 DEF ApiReject, Local, TypeInv, SendC, StopTask
      <3>3. KeptC(c)
        <4>1. RejectMsg \in Message /\ RejectMsg.k # "Start"
          BY RejectMessage
        <4>2. SendC(c, <<RejectMsg>>)
          BY <1>4, <2>1, <3>1 DEF ApiReject
        <4> QED
          BY <4>1, <4>2, SentC
      <3>4. /\ UNCHANGED <<job, chunks, toS, upload>>
            /\ (held'[c] => held[c]) /\ (sv'[c] = "run" => sv[c] = "run")
        BY <1>4, <2>1, <3>1 DEF ApiReject, TypeInv, StopTask
      <3>5. KeptS(c)
        BY <3>4 DEF KeptS
      <3>6. PipeAt(c) => PipeAt(c)'
        BY <3>2, <3>3, <3>4, <3>5, PipeFrame
      <3>7. src.mtime = 0 => \A x \in Conns : IsData(ino'[x], 0)
        BY <3>2 DEF PipeInv
      <3> QED
        BY <3>2, <3>6, <3>7, PipeKept
    <2>2. CASE ~Live
      <3>1. UNCHANGED <<ver, src, ino, job, chunks, held, sv, toC, toS, upload>>
        BY <1>4, <2>2 DEF ApiReject
      <3> QED
        BY <3>1 DEF PipeInv, PipeAt, Quiet, FromZero, Flow, Fed
    <2> QED
      BY <2>1, <2>2
  <1>5. CASE ApiCancel
    <2>1. CASE Live
      <3>1. PICK c \in Conns : c = conn
        BY <2>1 DEF Live, TypeInv
      <3>2. Local(c) /\ UNCHANGED <<ver, src, ino>>
        BY <1>5, <2>1, <3>1 DEF ApiCancel, Local, TypeInv, SendC
      <3>3. KeptC(c)
        <4>1. Note("Close") \in Message /\ Note("Close").k # "Start"
          BY NoteTyped DEF Kinds
        <4>2. SendC(c, <<Note("Close")>>)
          BY <1>5, <2>1, <3>1 DEF ApiCancel
        <4> QED
          BY <4>1, <4>2, SentC
      <3>4. /\ UNCHANGED <<job, chunks, toS, upload>>
            /\ (held'[c] => held[c]) /\ (sv'[c] = "run" => sv[c] = "run")
        BY <1>5, <2>1, <3>1 DEF ApiCancel, TypeInv
      <3>5. KeptS(c)
        BY <3>4 DEF KeptS
      <3>6. PipeAt(c) => PipeAt(c)'
        BY <3>2, <3>3, <3>4, <3>5, PipeFrame
      <3>7. src.mtime = 0 => \A x \in Conns : IsData(ino'[x], 0)
        BY <3>2 DEF PipeInv
      <3> QED
        BY <3>2, <3>6, <3>7, PipeKept
    <2>2. CASE ~Live
      <3>1. UNCHANGED <<ver, src, ino, job, chunks, held, sv, toC, toS, upload>>
        BY <1>5, <2>2 DEF ApiCancel
      <3> QED
        BY <3>1 DEF PipeInv, PipeAt, Quiet, FromZero, Flow, Fed
    <2> QED
      BY <2>1, <2>2
  <1>6. CASE Crash
    <2>1. /\ UNCHANGED <<ver, src, ino, upload, toC>>
          /\ \A x \in Conns : job'[x] = IF job[x].pc = "none" THEN NoJob ELSE JobEnd
          /\ \A x \in Conns : toS'[x] = <<>> /\ chunks'[x] = <<>>
      BY <1>6 DEF Crash
    <2>2. ASSUME NEW x \in Conns, PipeAt(x) PROVE PipeAt(x)'
      <3>1. CASE job[x].pc = "none"
        <4>1. job'[x] = NoJob /\ job[x].pc \in Early
          BY <2>1, <3>1 DEF Early
        <4> QED
          BY <2>1, <2>2, <4>1, EmptyWire, Constructors DEF PipeAt, Quiet, FromZero, Flow
      <3>2. CASE job[x].pc # "none"
        <4>1. job'[x].pc \notin Early /\ job'[x].pc # "recv"
          BY <2>1, <3>2, Constructors DEF Early
        <4>2. KeptC(x)
          BY <2>1 DEF KeptC
        <4> QED
          BY <2>1, <2>2, <4>1, <4>2, PipeOver
      <3> QED
        BY <3>1, <3>2
    <2> QED
      BY <2>1, <2>2 DEF PipeInv
  <1>7. CASE SaveChecksum
    <2>1. UNCHANGED <<ver, src, ino, job, chunks, held, sv, toC, toS, upload>>
      BY <1>7 DEF SaveChecksum
    <2> QED
      BY <2>1 DEF PipeInv, PipeAt, Quiet, FromZero, Flow, Fed
  <1>8. ASSUME NEW c \in Conns, Connect(c) PROVE PipeInv'
    <2>1. Local(c) /\ UNCHANGED <<ver, src, ino, upload, chunks>>
      BY <1>8, LocalSteps DEF Connect
    <2>2. sv[c] = "off" /\ job[c] = NoJob /\ upload[c] = NoUpload /\ chunks[c] = <<>> /\ toC[c] = <<>> /\ toS[c] = <<>>
      BY <1>8 DEF Connect, Fresh, ConnInv, Blank
    <2>3. NoStart(toC'[c])
      <3> DEFINE m == Msg("ReqChsum", size, <<>>)
      <3>1. m \in Message /\ m.k # "Start"
        BY DEF Msg, Message, Kinds, TypeInv
      <3>2. toC'[c] = toC[c] \/ toC'[c] = PendingC \/ toC'[c] = Append(PendingC, m)
        BY <1>8 DEF Connect, UpgradeV2, UpgradeV4, TypeInv
      <3> HIDE DEF m
      <3>3. PendingC \in Seq(Message) /\ NoStart(PendingC)
        BY PendingTyped DEF NoStart
      <3>4. NoStart(Append(PendingC, m))
        BY <3>1, <3>3, StartsAppended
      <3> QED
        BY <2>2, <3>2, <3>3, <3>4, EmptyWire
    <2>4. NoChunk(toS'[c])
      <3>1. toS'[c] = PendingS
        BY <1>8 DEF Connect, TypeInv
      <3> QED
        BY <3>1, PendingTyped DEF NoChunk
    <2>5. job'[c].pc \in {"none", "load"} /\ job'[c].offset = 0
      <3>1. job'[c] \in {NoJob, [NoJob EXCEPT !.pc = "load"]}
        BY <1>8, <2>2 DEF Connect, TypeInv
      <3>2. \A r \in {NoJob, [NoJob EXCEPT !.pc = "load"]} : r.pc \in {"none", "load"} /\ r.offset = 0
        BY DEF NoJob
      <3> QED
        BY <3>1, <3>2
    <2>6. PipeAt(c)'
      <3>1. job'[c].pc # "recv"
        BY <2>5
      <3>2. ZeroStart(toC'[c])
        BY <2>3, NoStartOnly
      <3> QED
        BY <2>1, <2>2, <2>3, <2>4, <2>5, <3>1, <3>2, Constructors DEF PipeAt, Quiet, FromZero, Flow
    <2>8. src.mtime = 0 => \A x \in Conns : IsData(ino'[x], 0)
      BY <2>1 DEF PipeInv
    <2> QED
      BY <2>1, <2>6, <2>8, PipeKept
  <1>9. ASSUME NEW c \in Conns, ConnectClosed(c) PROVE PipeInv'
    <2>1. Local(c) /\ UNCHANGED <<ver, src, ino, upload, chunks>>
      BY <1>9, LocalSteps DEF ConnectClosed
    <2>2. sv[c] = "off" /\ job[c] = NoJob /\ upload[c] = NoUpload /\ chunks[c] = <<>> /\ toC[c] = <<>> /\ toS[c] = <<>>
      BY <1>9 DEF ConnectClosed, Fresh, ConnInv, Blank
    <2>3. NoStart(toC'[c])
      <3> DEFINE m == Note("Close")
      <3>1. m.k # "Start"
        BY NoteTyped DEF Kinds
      <3>2. toC'[c] = <<m>>
        BY <1>9 DEF ConnectClosed, TypeInv
      <3> HIDE DEF m
      <3> QED
        BY <3>1, <3>2 DEF NoStart
    <2>4. NoChunk(toS'[c])
      BY <1>9, <2>2, EmptyWire DEF ConnectClosed
    <2>5. job'[c].pc \in {"none", "load"} /\ job'[c].offset = 0
      BY <1>9, <2>2, Constructors DEF ConnectClosed
    <2>6. PipeAt(c)'
      <3>1. job'[c].pc # "recv"
        BY <2>5
      <3>2. ZeroStart(toC'[c])
        BY <2>3, NoStartOnly
      <3> QED
        BY <2>1, <2>2, <2>3, <2>4, <2>5, <3>1, <3>2, Constructors DEF PipeAt, Quiet, FromZero, Flow
    <2>8. src.mtime = 0 => \A x \in Conns : IsData(ino'[x], 0)
      BY <2>1 DEF PipeInv
    <2> QED
      BY <2>1, <2>6, <2>8, PipeKept
  <1>10. ASSUME NEW c \in Conns, RecvReqChsum(c) PROVE PipeInv'
    <2>1. Local(c) /\ UNCHANGED <<ver, src, ino>>
      BY <1>10, LocalSteps DEF RecvReqChsum
    <2>2. KeptC(c)
      BY <1>10, TakenC DEF RecvReqChsum, GotC
    <2>3. KeptS(c)
      BY <1>10 DEF RecvReqChsum, KeptS
    <2>4. UNCHANGED <<job, chunks>> /\ (held'[c] => held[c]) /\ (sv'[c] = "run" => sv[c] = "run")
      BY <1>10 DEF RecvReqChsum
    <2>6. upload'[c] = upload[c]
      BY <1>10 DEF RecvReqChsum
    <2>7. PipeAt(c) => PipeAt(c)'
      BY <2>1, <2>2, <2>3, <2>4, <2>6, PipeFrame
    <2>8. src.mtime = 0 => \A x \in Conns : IsData(ino'[x], 0)
      BY <2>1 DEF PipeInv
    <2> QED
      BY <2>1, <2>7, <2>8, PipeKept
  <1>11. ASSUME NEW c \in Conns, ReportChsum(c) PROVE PipeInv'
    <2>1. Local(c) /\ UNCHANGED <<ver, src, ino>>
      BY <1>11, LocalSteps DEF ReportChsum
    <2>2. KeptC(c)
      BY <1>11 DEF ReportChsum, KeptC
    <2>3. KeptS(c)
      <3>1. Note("Error") \in Message /\ Note("Error").k = "Error"
        BY NoteTyped DEF Kinds
      <3>2. PICK t \in sums[c] :
              \/ \E b \in Checksums(t) : SendS(c, <<Msg("ReportChsum", t.limit, b)>>)
              \/ SendS(c, <<Note("Error")>>)
        BY <1>11 DEF ReportChsum
      <3>3. t \in [limit : Nat, seen : Source]
        BY DEF TypeInv
      <3>4. ASSUME NEW b \in Checksums(t), SendS(c, <<Msg("ReportChsum", t.limit, b)>>) PROVE KeptS(c)
        <4>1. t.limit \in Nat /\ b \in Seq(Block) /\ "ReportChsum" \in Kinds
          BY <3>3, ChecksumsTyped DEF Kinds
        <4>2. /\ Msg("ReportChsum", t.limit, b) \in Message
              /\ Msg("ReportChsum", t.limit, b).k = "ReportChsum"
          BY <4>1, Messages
        <4> QED
          BY <3>4, <4>2, SentS
      <3> QED
        BY <3>1, <3>2, <3>4, SentS
    <2>4. UNCHANGED <<job, chunks>> /\ (held'[c] => held[c]) /\ (sv'[c] = "run" => sv[c] = "run")
      BY <1>11 DEF ReportChsum
    <2>6. upload'[c] = upload[c]
      BY <1>11 DEF ReportChsum
    <2>7. PipeAt(c) => PipeAt(c)'
      BY <2>1, <2>2, <2>3, <2>4, <2>6, PipeFrame
    <2>8. src.mtime = 0 => \A x \in Conns : IsData(ino'[x], 0)
      BY <2>1 DEF PipeInv
    <2> QED
      BY <2>1, <2>7, <2>8, PipeKept
  <1>12. ASSUME NEW c \in Conns, RecvStart(c) PROVE PipeInv'
    <2>1. Local(c) /\ UNCHANGED <<ver, src, ino, job, chunks, held, sv>>
      BY <1>12, LocalSteps DEF RecvStart
    <2>2. /\ toC[c] \in Seq(Message) /\ toC[c] # <<>> /\ Head(toC[c]).k = "Start"
          /\ toC'[c] = Tail(toC[c]) /\ KeptC(c)
      BY <1>12, TakenC DEF RecvStart, GotC, TakeC, TypeInv
    <2>3. KeptS(c)
      <3>1. Note("Error") \in Message /\ Note("Error").k = "Error"
        BY NoteTyped DEF Kinds
      <3>2. toS' = toS => KeptS(c)
        BY DEF KeptS
      <3> QED
        BY <1>12, <3>1, <3>2, SentS DEF RecvStart, OnStart, OnDownload
    <2>4. \/ upload'[c] = upload[c]
          \/ ver # "v2" /\ upload'[c].pos = Head(toC[c]).n
          \/ ver = "v2" /\ upload'[c].pos = 0
      <3>1. \/ upload'[c] = upload[c]
            \/ ver # "v2" /\ upload'[c] = [NoUpload EXCEPT !.pc = "open", !.pos = Head(toC[c]).n]
            \/ ver = "v2" /\ upload'[c] = [NoUpload EXCEPT !.pc = "open"]
        BY <1>12 DEF RecvStart, OnStart, OnDownload, TypeInv
      <3> QED
        BY <3>1 DEF NoUpload
    <2>5. ASSUME PipeAt(c) PROVE PipeAt(c)'
      <3>1. job[c].pc \notin Early
        BY <2>2, <2>5, StartsTaken DEF PipeAt, Quiet
      <3>2. Quiet(c)' /\ FromZero(c)'
        BY <2>1, <2>2, <2>5, <3>1 DEF PipeAt, Quiet, FromZero, KeptC
      <3>3. Flow(c)'
        <4> SUFFICES ASSUME job[c].pc = "recv"
                     PROVE  \E m \in Nat : /\ Chain(chunks[c], job[c].received, m)
                                           /\ held[c] /\ sv[c] = "run" =>
                                                \E e \in Nat : Chain(Payload(toS'[c]), m, e) /\ Fed(c, e)'
          BY <2>1 DEF Flow
        <4>1. PICK m \in Nat : /\ Chain(chunks[c], job[c].received, m)
                               /\ held[c] /\ sv[c] = "run" =>
                                    \E e \in Nat : Chain(Payload(toS[c]), m, e) /\ Fed(c, e)
          BY <2>5 DEF PipeAt, Flow
        <4>2. ASSUME held[c], sv[c] = "run"
              PROVE  \E e \in Nat : Chain(Payload(toS'[c]), m, e) /\ Fed(c, e)'
          <5>1. PICK e \in Nat : Chain(Payload(toS[c]), m, e) /\ Fed(c, e)
            BY <4>1, <4>2
          <5>2. Chain(Payload(toS'[c]), m, e)
            BY <2>1, <2>3, <4>2, <5>1 DEF KeptS
          <5>3. OnlyStart(toC[c], e)
            BY <5>1 DEF Fed
          <5>4. NoStart(toC'[c]) /\ OnlyStart(toC'[c], e) /\ Head(toC[c]).n = e
            BY <2>2, <5>3, StartsTaken
          <5>5. upload[c].pc \notin {"open", "read"}
            BY <2>2, <5>1, StartsTaken DEF Fed
          <5>6. ver = "v2" => e = 0
            BY <2>2, <2>5, <5>4, StartsTaken DEF PipeAt, FromZero
          <5>7. upload'[c].pc \in {"open", "read"} => upload'[c].pos = e
            BY <2>4, <5>4, <5>5, <5>6
          <5>8. Fed(c, e)'
            BY <5>4, <5>7 DEF Fed
          <5> QED
            BY <5>2, <5>8
        <4> QED
          BY <4>1, <4>2
      <3> QED
        BY <3>2, <3>3 DEF PipeAt
    <2>8. src.mtime = 0 => \A x \in Conns : IsData(ino'[x], 0)
      BY <2>1 DEF PipeInv
    <2> QED
      BY <2>1, <2>5, <2>8, PipeKept
  <1>13. ASSUME NEW c \in Conns, UploadOpen(c) PROVE PipeInv'
    <2>1. Local(c) /\ UNCHANGED <<ver, src, ino>>
      BY <1>13, LocalSteps DEF UploadOpen
    <2>2. KeptC(c)
      BY <1>13 DEF UploadOpen, KeptC
    <2>3. KeptS(c)
      BY <1>13 DEF UploadOpen, KeptS
    <2>4. UNCHANGED <<job, chunks>> /\ (held'[c] => held[c]) /\ (sv'[c] = "run" => sv[c] = "run")
      BY <1>13 DEF UploadOpen
    <2>6. upload[c].pc = "open" /\ upload'[c].pos = upload[c].pos
      <3>1. upload'[c] = [upload[c] EXCEPT !.pc = "read", !.meta = src] /\ upload[c] \in Uploads
        BY <1>13 DEF UploadOpen, TypeInv
      <3> QED
        BY <1>13, <3>1 DEF UploadOpen, Uploads
    <2>7. PipeAt(c) => PipeAt(c)'
      BY <2>1, <2>2, <2>3, <2>4, <2>6, PipeFrame
    <2>8. src.mtime = 0 => \A x \in Conns : IsData(ino'[x], 0)
      BY <2>1 DEF PipeInv
    <2> QED
      BY <2>1, <2>7, <2>8, PipeKept
  <1>14. ASSUME NEW c \in Conns, UploadChunk(c) PROVE PipeInv'
    <2> DEFINE n == Readable(c)
               d == [i \in 1 .. n |-> <<src.mtime, upload[c].pos + i>>]
               k == Msg("Chunk", n, d)
    <2>1. Local(c) /\ UNCHANGED <<ver, src, ino, job, chunks, held, sv, toC>>
      BY <1>14, LocalSteps DEF UploadChunk
    <2>2. n \in Nat /\ upload[c].pos \in Nat /\ src.mtime \in Nat /\ upload[c] \in Uploads
      BY ReadableIs DEF TypeInv, Uploads, Source
    <2>3. /\ upload[c].pc = "read" /\ upload'[c] = [upload[c] EXCEPT !.pos = upload[c].pos + n]
          /\ SendS(c, <<k>>)
      BY <1>14 DEF UploadChunk, TypeInv
    <2> HIDE DEF n
    <2>4. d \in [1 .. n -> Block]
      BY <2>2 DEF Block
    <2>5. \A i \in 1 .. n : d[i] = <<src.mtime, upload[c].pos + i>>
      OBVIOUS
    <2> HIDE DEF d
    <2>6. d \in Seq(Block) /\ Len(d) = n
      BY <2>2, <2>4, SeqOf
    <2>7. k \in Message /\ k.k = "Chunk" /\ k.d = d
      BY <2>2, <2>6 DEF Msg, Message, Kinds
    <2> HIDE DEF k
    <2>8. upload'[c].pc = "read" /\ upload'[c].pos = upload[c].pos + n
      BY <2>2, <2>3 DEF Uploads
    <2>9. ASSUME src.mtime = 0, PipeAt(c) PROVE PipeAt(c)'
      <3>1. job[c].pc \notin Early
        BY <2>3, <2>9 DEF PipeAt, Quiet
      <3>2. Quiet(c)' /\ FromZero(c)'
        BY <2>1, <2>9, <3>1 DEF PipeAt, Quiet, FromZero
      <3>3. IsData(d, upload[c].pos)
        BY <2>2, <2>4, <2>5, <2>9 DEF IsData
      <3>4. Flow(c)'
        <4> SUFFICES ASSUME job[c].pc = "recv"
                     PROVE  \E m \in Nat : /\ Chain(chunks[c], job[c].received, m)
                                           /\ held[c] /\ sv[c] = "run" =>
                                                \E e \in Nat : Chain(Payload(toS'[c]), m, e) /\ Fed(c, e)'
          BY <2>1 DEF Flow
        <4>1. PICK m \in Nat : /\ Chain(chunks[c], job[c].received, m)
                               /\ held[c] /\ sv[c] = "run" =>
                                    \E e \in Nat : Chain(Payload(toS[c]), m, e) /\ Fed(c, e)
          BY <2>9 DEF PipeAt, Flow
        <4>2. ASSUME held[c], sv[c] = "run"
              PROVE  \E e \in Nat : Chain(Payload(toS'[c]), m, e) /\ Fed(c, e)'
          <5>1. PICK e \in Nat : Chain(Payload(toS[c]), m, e) /\ Fed(c, e)
            BY <4>1, <4>2
          <5>2. e = upload[c].pos /\ NoStart(toC[c])
            BY <2>3, <5>1 DEF Fed
          <5>3. toS[c] \in Seq(Message) /\ toS'[c] = toS[c] \o <<k>>
            BY <2>3, <4>2 DEF SendS, TypeInv
          <5>4. toS'[c] = Append(toS[c], k)
            BY <2>7, <5>3, ConcatOne
          <5>5. Chain(Payload(Append(toS[c], k)), m, e + Len(d))
            BY <2>7, <3>3, <5>1, <5>2, <5>3, ChunkAppended
          <5>6. Chain(Payload(toS'[c]), m, e + n) /\ e + n \in Nat
            BY <2>2, <2>6, <5>4, <5>5
          <5>7. upload'[c].pos = e + n /\ NoStart(toC'[c]) /\ OnlyStart(toC'[c], e + n)
            BY <2>1, <2>8, <5>2, NoStartOnly
          <5>8. PICK z \in Nat : z = e + n
            BY <5>6
          <5>9. Fed(c, z)'
            BY <5>7, <5>8 DEF Fed
          <5> QED
            BY <5>6, <5>8, <5>9
        <4> QED
          BY <4>1, <4>2
      <3> QED
        BY <3>2, <3>4 DEF PipeAt
    <2>10. src.mtime = 0 => \A x \in Conns : IsData(ino'[x], 0)
      BY <2>1 DEF PipeInv
    <2> QED
      BY <2>1, <2>9, <2>10, PipeKept
  <1>15. ASSUME NEW c \in Conns, UploadDone(c) PROVE PipeInv'
    <2>1. Local(c) /\ UNCHANGED <<ver, src, ino>>
      BY <1>15, LocalSteps DEF UploadDone
    <2>2. KeptC(c)
      BY <1>15 DEF UploadDone, KeptC
    <2>3. KeptS(c)
      BY <1>15 DEF UploadDone, KeptS
    <2>4. UNCHANGED <<job, chunks>> /\ (held'[c] => held[c]) /\ (sv'[c] = "run" => sv[c] = "run")
      BY <1>15 DEF UploadDone
    <2>6. upload[c].pc = "read" /\ upload'[c].pc = "end"
      <3>1. upload'[c] = [upload[c] EXCEPT !.pc = "end"] /\ upload[c] \in Uploads
        BY <1>15 DEF UploadDone, TypeInv
      <3> QED
        BY <1>15, <3>1 DEF UploadDone, Uploads
    <2>7. PipeAt(c) => PipeAt(c)'
      BY <2>1, <2>2, <2>3, <2>4, <2>6, PipeFrame
    <2>8. src.mtime = 0 => \A x \in Conns : IsData(ino'[x], 0)
      BY <2>1 DEF PipeInv
    <2> QED
      BY <2>1, <2>7, <2>8, PipeKept
  <1>16. ASSUME NEW c \in Conns, UploadFail(c) PROVE PipeInv'
    <2>1. Local(c) /\ UNCHANGED <<ver, src, ino>>
      BY <1>16, LocalSteps DEF UploadFail
    <2>2. KeptC(c)
      BY <1>16 DEF UploadFail, KeptC
    <2>3. KeptS(c)
      <3>1. Note("Error") \in Message /\ Note("Error").k = "Error"
        BY NoteTyped DEF Kinds
      <3> QED
        BY <1>16, <3>1, SentS DEF UploadFail
    <2>4. UNCHANGED <<job, chunks>> /\ (held'[c] => held[c]) /\ (sv'[c] = "run" => sv[c] = "run")
      BY <1>16 DEF UploadFail
    <2>6. upload[c].pc = "read" /\ upload'[c].pc = "end"
      <3>1. upload'[c] = [upload[c] EXCEPT !.pc = "end"] /\ upload[c] \in Uploads
        BY <1>16 DEF UploadFail, TypeInv
      <3> QED
        BY <1>16, <3>1 DEF UploadFail, Uploads
    <2>7. PipeAt(c) => PipeAt(c)'
      BY <2>1, <2>2, <2>3, <2>4, <2>6, PipeFrame
    <2>8. src.mtime = 0 => \A x \in Conns : IsData(ino'[x], 0)
      BY <2>1 DEF PipeInv
    <2> QED
      BY <2>1, <2>7, <2>8, PipeKept
  <1>17. ASSUME NEW c \in Conns, RecvVerdict(c) PROVE PipeInv'
    <2>1. Local(c) /\ UNCHANGED <<ver, src, ino>>
      BY <1>17, LocalSteps DEF RecvVerdict
    <2>2. KeptC(c)
      BY <1>17, TakenC DEF RecvVerdict, GotC
    <2>3. KeptS(c)
      BY <1>17 DEF RecvVerdict, KeptS
    <2>4. UNCHANGED <<job, chunks>> /\ (held'[c] => held[c]) /\ (sv'[c] = "run" => sv[c] = "run")
      BY <1>17 DEF RecvVerdict
    <2>6. upload'[c].pc = "none"
      BY <1>17, Constructors DEF RecvVerdict, TypeInv
    <2>7. PipeAt(c) => PipeAt(c)'
      BY <2>1, <2>2, <2>3, <2>4, <2>6, PipeFrame
    <2>8. src.mtime = 0 => \A x \in Conns : IsData(ino'[x], 0)
      BY <2>1 DEF PipeInv
    <2> QED
      BY <2>1, <2>7, <2>8, PipeKept
  <1>18. ASSUME NEW c \in Conns, RecvCancelC(c) PROVE PipeInv'
    <2>1. Local(c) /\ UNCHANGED <<ver, src, ino>>
      BY <1>18, LocalSteps DEF RecvCancelC
    <2>2. KeptC(c)
      BY <1>18, TakenC DEF RecvCancelC, GotC
    <2>3. KeptS(c)
      BY <1>18 DEF RecvCancelC, KeptS
    <2>4. UNCHANGED <<job, chunks>> /\ (held'[c] => held[c]) /\ (sv'[c] = "run" => sv[c] = "run")
      BY <1>18 DEF RecvCancelC
    <2>6. upload'[c].pc = "none"
      BY <1>18, Constructors DEF RecvCancelC, TypeInv
    <2>7. PipeAt(c) => PipeAt(c)'
      BY <2>1, <2>2, <2>3, <2>4, <2>6, PipeFrame
    <2>8. src.mtime = 0 => \A x \in Conns : IsData(ino'[x], 0)
      BY <2>1 DEF PipeInv
    <2> QED
      BY <2>1, <2>7, <2>8, PipeKept
  <1>19. ASSUME NEW c \in Conns, RecvClose(c) PROVE PipeInv'
    <2>1. Local(c) /\ UNCHANGED <<ver, src, ino>>
      BY <1>19, LocalSteps DEF RecvClose
    <2>2. KeptC(c)
      <3>1. toC'[c] = <<>>
        BY <1>19 DEF RecvClose, ClientEnds, TypeInv
      <3> QED
        BY <3>1, EmptyWire DEF KeptC
    <2>3. KeptS(c)
      BY <1>19 DEF RecvClose, KeptS
    <2>4. UNCHANGED <<job, chunks>> /\ (held'[c] => held[c]) /\ (sv'[c] = "run" => sv[c] = "run")
      BY <1>19 DEF RecvClose
    <2>6. upload'[c].pc = "none"
      BY <1>19, Constructors DEF RecvClose, ClientEnds, TypeInv
    <2>7. PipeAt(c) => PipeAt(c)'
      BY <2>1, <2>2, <2>3, <2>4, <2>6, PipeFrame
    <2>8. src.mtime = 0 => \A x \in Conns : IsData(ino'[x], 0)
      BY <2>1 DEF PipeInv
    <2> QED
      BY <2>1, <2>7, <2>8, PipeKept
  <1>20. ASSUME NEW c \in Conns, ClientBreak(c) PROVE PipeInv'
    <2>1. Local(c) /\ UNCHANGED <<ver, src, ino>>
      BY <1>20, LocalSteps DEF ClientBreak
    <2>2. KeptC(c)
      <3>1. toC'[c] = <<>>
        BY <1>20 DEF ClientBreak, ClientEnds, TypeInv
      <3> QED
        BY <3>1, EmptyWire DEF KeptC
    <2>3. KeptS(c)
      BY <1>20 DEF ClientBreak, KeptS
    <2>4. UNCHANGED <<job, chunks>> /\ (held'[c] => held[c]) /\ (sv'[c] = "run" => sv[c] = "run")
      BY <1>20 DEF ClientBreak
    <2>6. upload'[c].pc = "none"
      BY <1>20, Constructors DEF ClientBreak, ClientEnds, TypeInv
    <2>7. PipeAt(c) => PipeAt(c)'
      BY <2>1, <2>2, <2>3, <2>4, <2>6, PipeFrame
    <2>8. src.mtime = 0 => \A x \in Conns : IsData(ino'[x], 0)
      BY <2>1 DEF PipeInv
    <2> QED
      BY <2>1, <2>7, <2>8, PipeKept
  <1>21. ASSUME NEW c \in Conns, RecvChunk(c) PROVE PipeInv'
    <2> DEFINE d == Head(toS[c]).d
    <2>1. Local(c) /\ UNCHANGED <<ver, src, ino, job, held, sv, upload>> /\ sv[c] = "run"
      BY <1>21, LocalSteps DEF RecvChunk, GotS
    <2>2. /\ toS[c] \in Seq(Message) /\ toS[c] # <<>> /\ Head(toS[c]).k = "Chunk"
          /\ toS'[c] = Tail(toS[c]) /\ chunks[c] \in Seq(Seq(Block))
      BY <1>21 DEF RecvChunk, GotS, TakeS, TypeInv
    <2>3. d \in Seq(Block) /\ ~NoChunk(toS[c])
      BY <2>2, ChunkTaken
    <2>4. KeptC(c)
      <3>1. Note("Error") \in Message /\ Note("Error").k = "Error"
        BY NoteTyped DEF Kinds
      <3>2. toC' = toC => KeptC(c)
        BY DEF KeptC
      <3> QED
        BY <1>21, <3>1, <3>2, SentC DEF RecvChunk
    <2>5. ASSUME PipeAt(c) PROVE PipeAt(c)'
      <3>1. job[c].pc \notin Early
        BY <2>3, <2>5 DEF PipeAt, Quiet
      <3>2. CASE job[c].pc # "recv"
        BY <2>1, <2>4, <2>5, <3>1, <3>2, PipeOver
      <3>3. CASE job[c].pc = "recv"
        <4>0. Quiet(c)' /\ FromZero(c)'
          BY <2>1, <2>4, <2>5, <3>1 DEF PipeAt, Quiet, FromZero, KeptC
        <4>1. PICK m \in Nat : /\ Chain(chunks[c], job[c].received, m)
                               /\ held[c] /\ sv[c] = "run" =>
                                    \E e \in Nat : Chain(Payload(toS[c]), m, e) /\ Fed(c, e)
          BY <2>5, <3>3 DEF PipeAt, Flow
        <4>2. CASE ~held[c]
          <5>1. chunks'[c] = chunks[c]
            BY <1>21, <4>2 DEF RecvChunk
          <5>2. Flow(c)'
            BY <2>1, <4>1, <4>2, <5>1 DEF Flow
          <5> QED
            BY <4>0, <5>2 DEF PipeAt
        <4>3. CASE held[c]
          <5>1. chunks'[c] = Append(chunks[c], d) /\ toC' = toC
            BY <1>21, <3>3, <4>3 DEF RecvChunk, TypeInv
          <5>2. PICK e \in Nat : Chain(Payload(toS[c]), m, e) /\ Fed(c, e)
            BY <2>1, <4>1, <4>3
          <5>3. IsData(d, m) /\ Chain(Payload(toS'[c]), m + Len(d), e)
            BY <2>2, <5>2, ChunkTaken
          <5>4. Len(d) \in Nat /\ job[c].received \in Nat
            <6>1. Len(d) \in Nat
              BY <2>3
            <6>2. job[c].received \in Nat
              BY DEF TypeInv, Jobs
            <6> QED
              BY <6>1, <6>2
          <5> HIDE DEF d
          <5>5. Chain(chunks'[c], job[c].received, m + Len(d)) /\ m + Len(d) \in Nat
            BY <2>2, <2>3, <4>1, <5>1, <5>3, <5>4, ChainAppend
          <5>6. Fed(c, e)'
            BY <2>1, <5>1, <5>2 DEF Fed
          <5>7. Flow(c)'
            BY <2>1, <5>3, <5>5, <5>6 DEF Flow
          <5> QED
            BY <4>0, <5>7 DEF PipeAt
        <4> QED
          BY <4>2, <4>3
      <3> QED
        BY <3>2, <3>3
    <2>8. src.mtime = 0 => \A x \in Conns : IsData(ino'[x], 0)
      BY <2>1 DEF PipeInv
    <2> QED
      BY <2>1, <2>5, <2>8, PipeKept
  <1>22. ASSUME NEW c \in Conns, RecvReportChsum(c) PROVE PipeInv'
    <2>1. Local(c) /\ UNCHANGED <<ver, src, ino>>
      BY <1>22, LocalSteps DEF RecvReportChsum
    <2>2. KeptC(c)
      BY <1>22 DEF RecvReportChsum, KeptC
    <2>3. KeptS(c)
      BY <1>22, TakenS DEF RecvReportChsum, GotS
    <2>4. UNCHANGED <<job, chunks>> /\ (held'[c] => held[c]) /\ (sv'[c] = "run" => sv[c] = "run")
      BY <1>22 DEF RecvReportChsum
    <2>6. upload'[c] = upload[c]
      BY <1>22 DEF RecvReportChsum
    <2>7. PipeAt(c) => PipeAt(c)'
      BY <2>1, <2>2, <2>3, <2>4, <2>6, PipeFrame
    <2>8. src.mtime = 0 => \A x \in Conns : IsData(ino'[x], 0)
      BY <2>1 DEF PipeInv
    <2> QED
      BY <2>1, <2>7, <2>8, PipeKept
  <1>23. ASSUME NEW c \in Conns, RecvError(c) PROVE PipeInv'
    <2>1. Local(c) /\ UNCHANGED <<ver, src, ino>>
      BY <1>23, LocalSteps DEF RecvError
    <2>2. KeptC(c)
      BY <1>23 DEF RecvError, KeptC
    <2>3. KeptS(c)
      BY <1>23, TakenS DEF RecvError, GotS
    <2>4. UNCHANGED <<job, chunks>> /\ (held'[c] => held[c]) /\ (sv'[c] = "run" => sv[c] = "run")
      BY <1>23 DEF RecvError, StopTask, TypeInv
    <2>6. upload'[c] = upload[c]
      BY <1>23 DEF RecvError
    <2>7. PipeAt(c) => PipeAt(c)'
      BY <2>1, <2>2, <2>3, <2>4, <2>6, PipeFrame
    <2>8. src.mtime = 0 => \A x \in Conns : IsData(ino'[x], 0)
      BY <2>1 DEF PipeInv
    <2> QED
      BY <2>1, <2>7, <2>8, PipeKept
  <1>24. ASSUME NEW c \in Conns, RecvReject(c) PROVE PipeInv'
    <2>1. Local(c) /\ UNCHANGED <<ver, src, ino>>
      BY <1>24, LocalSteps DEF RecvReject
    <2>2. KeptC(c)
      BY <1>24 DEF RecvReject, KeptC
    <2>3. KeptS(c)
      BY <1>24, TakenS DEF RecvReject, GotS
    <2>4. UNCHANGED <<job, chunks>> /\ (held'[c] => held[c]) /\ (sv'[c] = "run" => sv[c] = "run")
      BY <1>24 DEF RecvReject, StopTask, TypeInv
    <2>6. upload'[c] = upload[c]
      BY <1>24 DEF RecvReject
    <2>7. PipeAt(c) => PipeAt(c)'
      BY <2>1, <2>2, <2>3, <2>4, <2>6, PipeFrame
    <2>8. src.mtime = 0 => \A x \in Conns : IsData(ino'[x], 0)
      BY <2>1 DEF PipeInv
    <2> QED
      BY <2>1, <2>7, <2>8, PipeKept
  <1>25. ASSUME NEW c \in Conns, RecvCancel(c) PROVE PipeInv'
    <2>1. Local(c) /\ UNCHANGED <<ver, src, ino>>
      BY <1>25, LocalSteps DEF RecvCancel
    <2>2. KeptC(c)
      BY <1>25 DEF RecvCancel, KeptC
    <2>3. KeptS(c)
      BY <1>25, TakenS DEF RecvCancel, GotS
    <2>4. UNCHANGED <<job, chunks>> /\ (held'[c] => held[c]) /\ (sv'[c] = "run" => sv[c] = "run")
      BY <1>25 DEF RecvCancel, StopTask, TypeInv
    <2>6. upload'[c] = upload[c]
      BY <1>25 DEF RecvCancel
    <2>7. PipeAt(c) => PipeAt(c)'
      BY <2>1, <2>2, <2>3, <2>4, <2>6, PipeFrame
    <2>8. src.mtime = 0 => \A x \in Conns : IsData(ino'[x], 0)
      BY <2>1 DEF PipeInv
    <2> QED
      BY <2>1, <2>7, <2>8, PipeKept
  <1>26. ASSUME NEW c \in Conns, JobInit(c) PROVE PipeInv'
    <2>1. Local(c) /\ UNCHANGED <<ver, src, ino, upload, toS, chunks>>
      BY <1>26, LocalSteps DEF JobInit
    <2>2. KeptC(c)
      <3>1. CASE toC' = toC
        BY <3>1 DEF KeptC
      <3>2. CASE tmp # NoIno /\ SendC(c, <<Msg("ReqChsum", Len(ino[tmp]), <<>>)>>)
        <4> DEFINE m == Msg("ReqChsum", Len(ino[tmp]), <<>>)
        <4>1. ino[tmp] \in Seq(Block)
          BY <3>2 DEF TypeInv
        <4>2. Len(ino[tmp]) \in Nat
          BY <4>1
        <4>3. m \in Message /\ m.k # "Start"
          BY <4>2 DEF Msg, Message, Kinds
        <4> QED
          BY <3>2, <4>3, SentC
      <3> QED
        BY <1>26, <3>1, <3>2 DEF JobInit, InitV2, InitV4
    <2>3. job[c].pc \in Early /\ job[c].offset = 0 /\ job[c] \in Jobs
      BY <1>26 DEF JobInit, JobAt, Early, FileInv, FileAt, TypeInv
    <2>4. /\ job'[c].pc \in Early
          /\ ver = "v2" => job'[c].offset = 0 /\ job'[c].pc \notin {"partial", "full"}
      <3>1. CASE job'[c] = [job[c] EXCEPT !.pc = "start"]
        <4>1. job'[c].pc = "start" /\ job'[c].offset = 0
          BY <2>3, <3>1 DEF Jobs
        <4> QED
          BY <4>1 DEF Early
      <3>2. CASE /\ ver # "v2" /\ tmp # NoIno
                 /\ job'[c] = [job[c] EXCEPT !.len = Len(ino[tmp]), !.csum = ino[tmp],
                                             !.pc = CASE Len(ino[tmp]) < size -> "partial"
                                                      [] Len(ino[tmp]) = size -> "full"
                                                      [] OTHER                -> "start"]
        <4>1. job'[c].pc \in {"partial", "full", "start"}
          BY <2>3, <3>2 DEF Jobs
        <4> QED
          BY <3>2, <4>1 DEF Early
      <3> QED
        BY <1>26, <3>1, <3>2 DEF JobInit, InitV2, InitV4, TypeInv
    <2>5. PipeAt(c) => PipeAt(c)'
      BY <2>1, <2>2, <2>3, <2>4, PipeEarly
    <2>8. src.mtime = 0 => \A x \in Conns : IsData(ino'[x], 0)
      BY <2>1 DEF PipeInv
    <2> QED
      BY <2>1, <2>5, <2>8, PipeKept
  <1>27. ASSUME NEW c \in Conns, JobPartial(c) PROVE PipeInv'
    <2>1. Local(c) /\ UNCHANGED <<ver, src, ino, upload, toC, toS, chunks>>
      BY <1>27, LocalSteps DEF JobPartial
    <2>2. KeptC(c)
      BY <2>1 DEF KeptC
    <2>3. job[c].pc = "partial" /\ job[c] \in Jobs
      BY <1>27 DEF JobPartial, JobAt, TypeInv
    <2>4. job'[c].pc = "start"
      <3>1. \E o : job'[c] = [job[c] EXCEPT !.pc = "start", !.offset = o]
        BY <1>27 DEF JobPartial, TypeInv
      <3> QED
        BY <2>3, <3>1 DEF Jobs
    <2>5. PipeAt(c) => PipeAt(c)'
      <3>1. job[c].pc \in Early /\ job'[c].pc \in Early
        BY <2>3, <2>4 DEF Early
      <3>2. PipeAt(c) => ver # "v2"
        BY <2>3 DEF PipeAt, FromZero
      <3> QED
        BY <2>1, <2>2, <3>1, <3>2, PipeEarly
    <2>8. src.mtime = 0 => \A x \in Conns : IsData(ino'[x], 0)
      BY <2>1 DEF PipeInv
    <2> QED
      BY <2>1, <2>5, <2>8, PipeKept
  <1>28. ASSUME NEW c \in Conns, JobFull(c) PROVE PipeInv'
    <2>1. Local(c) /\ UNCHANGED <<ver, src, ino, upload, toC, toS, chunks>>
      BY <1>28, LocalSteps DEF JobFull
    <2>2. KeptC(c)
      BY <2>1 DEF KeptC
    <2>3. job[c].pc = "full" /\ job[c] \in Jobs
      BY <1>28 DEF JobFull, JobAt, TypeInv
    <2>4. job'[c].pc = "start"
      <3>1. \E o : job'[c] = [job[c] EXCEPT !.pc = "start", !.offset = o]
        BY <1>28 DEF JobFull, TypeInv
      <3> QED
        BY <2>3, <3>1 DEF Jobs
    <2>5. PipeAt(c) => PipeAt(c)'
      <3>1. job[c].pc \in Early /\ job'[c].pc \in Early
        BY <2>3, <2>4 DEF Early
      <3>2. PipeAt(c) => ver # "v2"
        BY <2>3 DEF PipeAt, FromZero
      <3> QED
        BY <2>1, <2>2, <3>1, <3>2, PipeEarly
    <2>8. src.mtime = 0 => \A x \in Conns : IsData(ino'[x], 0)
      BY <2>1 DEF PipeInv
    <2> QED
      BY <2>1, <2>5, <2>8, PipeKept
  <1>29. ASSUME NEW c \in Conns, JobStart(c) PROVE PipeInv'
    <2> DEFINE o == job[c].offset
               k == Msg("Start", o, <<>>)
    <2>1. Local(c) /\ UNCHANGED <<ver, src, upload, toS, chunks, held, sv>>
      BY <1>29, LocalSteps DEF JobStart
    <2>2. job[c].pc = "start" /\ job[c].received = 0 /\ o \in Nat /\ job[c] \in Jobs /\ job[c].pc \in Early
      BY <1>29 DEF JobStart, JobAt, FileInv, FileAt, Early, TypeInv, Jobs
    <2>3. k \in Message /\ k.k = "Start" /\ k.n = o
      BY <2>2 DEF Msg, Message, Kinds
    <2> HIDE DEF k
    <2>4. toC[c] \in Seq(Message) /\ toS[c] \in Seq(Message) /\ toC'[c] \in {toC[c], Append(toC[c], k)}
      <3>1. toC[c] \in Seq(Message) /\ toS[c] \in Seq(Message)
        BY DEF TypeInv
      <3>2. toC'[c] = toC[c] \/ toC'[c] = toC[c] \o <<k>>
        BY <1>29 DEF JobStart, SendC, TypeInv, k
      <3>3. toC[c] \o <<k>> = Append(toC[c], k)
        BY <2>3, <3>1, ConcatOne
      <3> QED
        BY <3>1, <3>2, <3>3
    <2>5. job'[c].pc \in {"recv", "bad"} /\ (job'[c].pc = "recv" => job'[c].received = o)
      <3>1. CASE o = 0
        <4> DEFINE i == IF tmp = NoIno THEN c ELSE tmp
        <4>1. job'[c] = [job[c] EXCEPT !.pc = "recv", !.fd = i]
          BY <1>29, <3>1 DEF JobStart, TypeInv
        <4> HIDE DEF i
        <4> QED
          BY <2>2, <3>1, <4>1 DEF Jobs
      <3>2. CASE o # 0
        <4>1. \/ job'[c] = [job[c] EXCEPT !.pc = "bad"]
              \/ job'[c] = [job[c] EXCEPT !.pc = "recv", !.fd = tmp, !.received = o]
          BY <1>29, <3>2 DEF JobStart, JobTo, TypeInv
        <4> QED
          BY <2>2, <4>1 DEF Jobs
      <3> QED
        BY <3>1, <3>2
    <2>6. ASSUME PipeAt(c) PROVE PipeAt(c)'
      <3>1. upload[c].pc = "none" /\ NoStart(toC[c]) /\ NoChunk(toS[c]) /\ chunks[c] = <<>>
        BY <2>2, <2>6 DEF PipeAt, Quiet
      <3>2. OnlyStart(toC'[c], o) /\ (o = 0 => ZeroStart(toC'[c]))
        BY <2>3, <2>4, <3>1, StartAppended, NoStartOnly
      <3>3. ver = "v2" => o = 0
        BY <2>2, <2>6 DEF PipeAt, FromZero
      <3>4. job'[c].pc \notin Early
        BY <2>5 DEF Early
      <3>5. Quiet(c)' /\ FromZero(c)'
        BY <2>1, <2>5, <3>2, <3>3, <3>4 DEF Quiet, FromZero
      <3> HIDE DEF o
      <3>6. Chain(chunks'[c], o, o)
        <4>1. <<>> \in Seq(Seq(Block)) /\ \A i \in 1 .. Len(<<>>) : <<>>[i] = <<>>
          OBVIOUS
        <4>2. Chain(<<>>, o, o)
          BY <2>2, <4>1, ChainNothing, Zenon
        <4> QED
          BY <2>1, <3>1, <4>2
      <3>7. Chain(Payload(toS'[c]), o, o)
        BY <2>1, <2>2, <2>4, <3>1, NoChunkChain
      <3>8. upload'[c].pc \notin {"open", "read"}
        BY <2>1, <3>1
      <3>9. Flow(c)'
        BY <2>2, <2>5, <3>2, <3>6, <3>7, <3>8 DEF Flow, Fed
      <3> QED
        BY <3>5, <3>9 DEF PipeAt
    <2>8. src.mtime = 0 => \A x \in Conns : IsData(ino'[x], 0)
      <3>1. ino' = ino \/ \E i \in Conns : ino' = [ino EXCEPT ![i] = <<>>]
        BY <1>29 DEF JobStart, TypeInv
      <3>2. IsData(<<>>, 0)
        BY DEF IsData
      <3>3. ASSUME NEW x \in Conns PROVE ino'[x] = ino[x] \/ ino'[x] = <<>>
        BY <3>1 DEF TypeInv
      <3> QED
        BY <3>2, <3>3 DEF PipeInv
    <2> QED
      BY <2>1, <2>6, <2>8, PipeKept
  <1>30. ASSUME NEW c \in Conns, JobChunk(c) PROVE PipeInv'
    <2> DEFINE d == Head(chunks[c])
    <2>1. Local(c) /\ UNCHANGED <<ver, src, upload, toC, toS, held, sv>>
      BY <1>30, LocalSteps DEF JobChunk
    <2>2. /\ job[c].pc = "recv" /\ job[c].received \in Nat /\ job[c] \in Jobs
          /\ chunks[c] \in Seq(Seq(Block)) /\ chunks[c] # <<>> /\ chunks'[c] = Tail(chunks[c])
      BY <1>30 DEF JobChunk, JobAt, TypeInv, Jobs
    <2>3. d \in Seq(Block)
      BY <2>2, TailElements
    <2>4. Len(d) \in Nat
      BY <2>3
    <2>5. KeptC(c)
      BY <2>1 DEF KeptC
    <2>6. CASE job[c].received + Len(d) > size
      <3>1. ino' = ino /\ job'[c] = [job[c] EXCEPT !.pc = "bad"]
        BY <1>30, <2>6 DEF JobChunk, JobTo, TypeInv
      <3>2. job'[c].pc \notin Early /\ job'[c].pc # "recv"
        BY <2>2, <3>1 DEF Jobs, Early
      <3>3. PipeAt(c) => PipeAt(c)'
        BY <2>1, <2>5, <3>2, PipeOver
      <3>4. src.mtime = 0 => \A x \in Conns : IsData(ino'[x], 0)
        BY <3>1 DEF PipeInv
      <3> QED
        BY <2>1, <3>3, <3>4, PipeKept
    <2>7. CASE ~(job[c].received + Len(d) > size)
      <3> DEFINE f == job[c].fd
                 w == Written(ino[f], job[c].received, d, job[c].offset > 0)
      <3>1. ino' = [ino EXCEPT ![f] = w] /\ job'[c] = [job[c] EXCEPT !.received = job[c].received + Len(d)]
        BY <1>30, <2>7 DEF JobChunk, TypeInv
      <3>2. f \in Conns /\ Len(ino[f]) = job[c].received /\ ino[f] \in Seq(Block)
        BY <2>2 DEF FileInv, FileAt, TypeInv
      <3>3. (job[c].offset > 0) \in BOOLEAN
        BY <2>2 DEF Jobs
      <3>4. PipeAt(c) => \E m \in Nat :
              /\ IsData(d, job[c].received) /\ Chain(chunks'[c], job[c].received + Len(d), m)
              /\ held[c] /\ sv[c] = "run" => \E e \in Nat : Chain(Payload(toS[c]), m, e) /\ Fed(c, e)
        BY <2>2, ChainTail DEF PipeAt, Flow
      <3>5. ASSUME src.mtime = 0, NEW x \in Conns PROVE IsData(ino'[x], 0)
        <4>1. PipeAt(c) /\ IsData(ino[f], 0) /\ IsData(ino[x], 0)
          BY <3>2, <3>5 DEF PipeInv
        <4>2. IsData(d, Len(ino[f]))
          BY <3>2, <3>4, <4>1
        <4>3. IsData(Written(ino[f], Len(ino[f]), d, job[c].offset > 0), 0)
          BY <2>3, <3>2, <3>3, <4>1, <4>2, WrittenData, ZenonT(30)
        <4>4. IsData(w, 0)
          BY <3>2, <4>3
        <4> HIDE DEF w
        <4>5. ino'[x] = w \/ ino'[x] = ino[x]
          BY <3>1 DEF TypeInv
        <4> QED
          BY <4>1, <4>4, <4>5
      <3> HIDE DEF d, w, f
      <3>6. job'[c].pc = "recv" /\ job'[c].received = job[c].received + Len(d)
        BY <2>2, <3>1 DEF Jobs
      <3>7. ASSUME PipeAt(c) PROVE PipeAt(c)'
        <4>1. Quiet(c)' /\ FromZero(c)'
          BY <2>1, <3>6, <3>7 DEF PipeAt, Quiet, FromZero, Early
        <4>2. PICK m \in Nat :
              /\ Chain(chunks'[c], job[c].received + Len(d), m)
              /\ held[c] /\ sv[c] = "run" => \E e \in Nat : Chain(Payload(toS[c]), m, e) /\ Fed(c, e)
          BY <3>4, <3>7
        <4>3. \A e \in Nat : Fed(c, e) => Fed(c, e)'
          BY <2>1 DEF Fed
        <4>4. Flow(c)'
          BY <2>1, <3>6, <4>2, <4>3 DEF Flow
        <4> QED
          BY <4>1, <4>4 DEF PipeAt
      <3> QED
        BY <2>1, <3>5, <3>7, PipeKept
    <2> QED
      BY <2>6, <2>7
  <1>31. ASSUME NEW c \in Conns, JobReceived(c) PROVE PipeInv'
    <2>1. Local(c) /\ UNCHANGED <<ver, src, ino>>
      BY <1>31, LocalSteps DEF JobReceived
    <2>2. KeptC(c)
      BY <1>31 DEF JobReceived, KeptC
    <2>3. job'[c].pc \notin Early /\ job'[c].pc # "recv"
      <3>1. job[c] \in Jobs /\ \E s \in {"check"} : job'[c] = [job[c] EXCEPT !.pc = s]
        BY <1>31 DEF JobReceived, JobTo, TypeInv
      <3> QED
        BY <3>1 DEF Jobs, Early
    <2>5. PipeAt(c) => PipeAt(c)'
      BY <2>1, <2>2, <2>3, PipeOver
    <2>8. src.mtime = 0 => \A x \in Conns : IsData(ino'[x], 0)
      BY <2>1 DEF PipeInv
    <2> QED
      BY <2>1, <2>5, <2>8, PipeKept
  <1>32. ASSUME NEW c \in Conns, JobValidate(c) PROVE PipeInv'
    <2>1. Local(c) /\ UNCHANGED <<ver, src, ino>>
      BY <1>32, LocalSteps DEF JobValidate
    <2>2. KeptC(c)
      BY <1>32 DEF JobValidate, KeptC
    <2>3. job'[c].pc \notin Early /\ job'[c].pc # "recv"
      <3>1. job[c] \in Jobs /\ \E s \in {"place", "bad"} : job'[c] = [job[c] EXCEPT !.pc = s]
        BY <1>32 DEF JobValidate, JobTo, TypeInv
      <3> QED
        BY <3>1 DEF Jobs, Early
    <2>5. PipeAt(c) => PipeAt(c)'
      BY <2>1, <2>2, <2>3, PipeOver
    <2>8. src.mtime = 0 => \A x \in Conns : IsData(ino'[x], 0)
      BY <2>1 DEF PipeInv
    <2> QED
      BY <2>1, <2>5, <2>8, PipeKept
  <1>33. ASSUME NEW c \in Conns, JobPlace(c) PROVE PipeInv'
    <2>1. Local(c) /\ UNCHANGED <<ver, src, ino>>
      BY <1>33, LocalSteps DEF JobPlace
    <2>2. KeptC(c)
      BY <1>33 DEF JobPlace, KeptC
    <2>3. job'[c].pc \notin Early /\ job'[c].pc # "recv"
      <3>1. job[c] \in Jobs /\ \E s \in {"ok", "bad"} : job'[c] = [job[c] EXCEPT !.pc = s]
        BY <1>33 DEF JobPlace, JobTo, TypeInv
      <3> QED
        BY <3>1 DEF Jobs, Early
    <2>5. PipeAt(c) => PipeAt(c)'
      BY <2>1, <2>2, <2>3, PipeOver
    <2>8. src.mtime = 0 => \A x \in Conns : IsData(ino'[x], 0)
      BY <2>1 DEF PipeInv
    <2> QED
      BY <2>1, <2>5, <2>8, PipeKept
  <1>34. ASSUME NEW c \in Conns, JobPost(c) PROVE PipeInv'
    <2>1. Local(c) /\ UNCHANGED <<ver, src, ino>>
      BY <1>34, LocalSteps DEF JobPost
    <2>2. KeptC(c)
      <3>1. /\ Note("Error") \in Message /\ Note("Error").k = "Error"
            /\ Note("Done") \in Message /\ Note("Done").k = "Done"
        BY NoteTyped DEF Kinds
      <3>2. toC' = toC \/ SendC(c, <<Note("Error")>>) \/ SendC(c, <<Note("Done")>>)
        BY <1>34 DEF JobPost
      <3>3. toC' = toC => KeptC(c)
        BY DEF KeptC
      <3> QED
        BY <3>1, <3>2, <3>3, SentC
    <2>3. job'[c].pc \notin Early /\ job'[c].pc # "recv"
      BY <1>34, Constructors DEF JobPost, JobEnds, TypeInv, Early
    <2>5. PipeAt(c) => PipeAt(c)'
      BY <2>1, <2>2, <2>3, PipeOver
    <2>8. src.mtime = 0 => \A x \in Conns : IsData(ino'[x], 0)
      BY <2>1 DEF PipeInv
    <2> QED
      BY <2>1, <2>5, <2>8, PipeKept
  <1>35. ASSUME NEW c \in Conns, JobCanceled(c) PROVE PipeInv'
    <2>1. Local(c) /\ UNCHANGED <<ver, src, ino>>
      BY <1>35, LocalSteps DEF JobCanceled
    <2>2. KeptC(c)
      BY <1>35 DEF JobCanceled, KeptC
    <2>3. job'[c].pc \notin Early /\ job'[c].pc # "recv"
      BY <1>35, Constructors DEF JobCanceled, JobEnds, TypeInv, Early
    <2>5. PipeAt(c) => PipeAt(c)'
      BY <2>1, <2>2, <2>3, PipeOver
    <2>8. src.mtime = 0 => \A x \in Conns : IsData(ino'[x], 0)
      BY <2>1 DEF PipeInv
    <2> QED
      BY <2>1, <2>5, <2>8, PipeKept
  <1>36. ASSUME NEW c \in Conns, Drained(c) PROVE PipeInv'
    <2>1. Local(c) /\ UNCHANGED <<ver, src, ino>>
      BY <1>36, LocalSteps DEF Drained
    <2>2. KeptC(c)
      BY <1>36 DEF Drained, KeptC
    <2>3. KeptS(c)
      <3>1. toS'[c] = <<>> /\ sv'[c] # "run"
        BY <1>36 DEF Drained, Leave, TypeInv
      <3> QED
        BY <3>1, EmptyWire DEF KeptS
    <2>4. UNCHANGED <<job, chunks>> /\ (held'[c] => held[c]) /\ (sv'[c] = "run" => sv[c] = "run")
      BY <1>36 DEF Drained, Leave, TypeInv
    <2>6. upload'[c] = upload[c]
      BY <1>36 DEF Drained
    <2>7. PipeAt(c) => PipeAt(c)'
      BY <2>1, <2>2, <2>3, <2>4, <2>6, PipeFrame
    <2>8. src.mtime = 0 => \A x \in Conns : IsData(ino'[x], 0)
      BY <2>1 DEF PipeInv
    <2> QED
      BY <2>1, <2>7, <2>8, PipeKept
  <1>37. ASSUME NEW c \in Conns, Finalize(c) PROVE PipeInv'
    <2>1. Local(c) /\ UNCHANGED <<ver, src, ino>>
      BY <1>37, LocalSteps DEF Finalize
    <2>2. KeptC(c)
      BY <1>37 DEF Finalize, KeptC
    <2>3. KeptS(c)
      BY <1>37 DEF Finalize, KeptS
    <2>4. UNCHANGED <<job, chunks>> /\ (held'[c] => held[c]) /\ (sv'[c] = "run" => sv[c] = "run")
      BY <1>37 DEF Finalize, TypeInv
    <2>6. upload'[c] = upload[c]
      BY <1>37 DEF Finalize
    <2>7. PipeAt(c) => PipeAt(c)'
      BY <2>1, <2>2, <2>3, <2>4, <2>6, PipeFrame
    <2>8. src.mtime = 0 => \A x \in Conns : IsData(ino'[x], 0)
      BY <2>1 DEF PipeInv
    <2> QED
      BY <2>1, <2>7, <2>8, PipeKept
  <1>38. ASSUME NEW c \in Conns, ServerBreak(c) PROVE PipeInv'
    <2>1. Local(c) /\ UNCHANGED <<ver, src, ino>>
      BY <1>38, LocalSteps DEF ServerBreak
    <2>2. KeptC(c)
      BY <1>38 DEF ServerBreak, KeptC
    <2>3. KeptS(c)
      <3>1. toS'[c] = <<>> /\ sv'[c] # "run"
        BY <1>38 DEF ServerBreak, Leave, TypeInv
      <3> QED
        BY <3>1, EmptyWire DEF KeptS
    <2>4. UNCHANGED <<job, chunks>> /\ (held'[c] => held[c]) /\ (sv'[c] = "run" => sv[c] = "run")
      BY <1>38 DEF ServerBreak, Leave, TypeInv
    <2>6. upload'[c] = upload[c]
      BY <1>38 DEF ServerBreak
    <2>7. PipeAt(c) => PipeAt(c)'
      BY <2>1, <2>2, <2>3, <2>4, <2>6, PipeFrame
    <2>8. src.mtime = 0 => \A x \in Conns : IsData(ino'[x], 0)
      BY <2>1 DEF PipeInv
    <2> QED
      BY <2>1, <2>7, <2>8, PipeKept
  <1>39. CASE UNCHANGED vars
    BY <1>39 DEF vars, PipeInv, PipeAt, Quiet, FromZero, Flow, Fed
  <1> QED
    BY <1>1, <1>2, <1>3, <1>4, <1>5, <1>6, <1>7, <1>8, <1>9, <1>10, <1>11, <1>12,
       <1>13, <1>14, <1>15, <1>16, <1>17, <1>18, <1>19, <1>20, <1>21, <1>22, <1>23, <1>24,
       <1>25, <1>26, <1>27, <1>28, <1>29, <1>30, <1>31, <1>32, <1>33, <1>34, <1>35, <1>36,
       <1>37, <1>38, <1>39
       DEF Next, Environment, Running

-----------------------------------------------------------------------------
(* The theorems.                                                           *)

LEMMA StreamInit == Overlap = FALSE /\ Init => StreamInv
  BY TypeInit, ConnInit, FileInit, PipeInit DEF StreamInv

LEMMA StreamStep == StreamInv /\ [Next]_vars => StreamInv'
  <1> SUFFICES ASSUME StreamInv, [Next]_vars PROVE StreamInv'
    OBVIOUS
  <1>1. Overlap = FALSE /\ TypeInv /\ ConnInv /\ FileInv /\ PipeInv
    BY DEF StreamInv
  <1>2. TypeInv'
    BY <1>1, TypeStep
  <1>3. ConnInv'
    BY <1>1, ConnStep
  <1>4. FileInv'
    BY <1>1, <1>2, FileStep
  <1>5. PipeInv'
    BY <1>1, PipeStep
  <1> QED
    BY <1>1, <1>2, <1>3, <1>4, <1>5 DEF StreamInv

\* The inductive invariant holds, as long as connections do not overlap: the sender
\* connects again only when the receiver is done with the connection before.
THEOREM StreamInvariant == Overlap = FALSE /\ Spec => []StreamInv
  BY StreamInit, StreamStep, PTL DEF Spec

LEMMA OfferedInit == Init => Offered
  <1> SUFFICES ASSUME Init PROVE Offered
    OBVIOUS
  <1>1. size \in Sizes /\ src = [mtime |-> 0, len |-> size] /\ 0 \in 0 .. MaxMods
    BY StreamAssumption DEF Init
  <1> QED
    BY <1>1 DEF Offered

LEMMA OfferedStep == Offered /\ [Next]_vars => Offered'
  <1> SUFFICES ASSUME Offered, [Next]_vars PROVE Offered'
    OBVIOUS
  <1> USE DEF fixed, sender
  <1>1. CASE ApiDownload
    BY <1>1 DEF ApiDownload, Offered
  <1>2. CASE Modify
    <2>1. PICK n \in NewLens : src' = [mtime |-> src.mtime + 1, len |-> n]
      BY <1>2 DEF Modify
    <2>2. src.mtime \in 0 .. MaxMods /\ src.mtime < MaxMods
      BY <1>2 DEF Modify, Offered
    <2>3. src.mtime + 1 \in 0 .. MaxMods
      BY <2>2, StreamAssumption
    <2>4. size' = size
      BY <1>2 DEF Modify
    <2> QED
      BY <2>1, <2>3, <2>4 DEF Offered
  <1>3. CASE ApiSenderReject
    BY <1>3 DEF ApiSenderReject, Offered
  <1>4. CASE ApiReject
    BY <1>4 DEF ApiReject, Offered
  <1>5. CASE ApiCancel
    BY <1>5 DEF ApiCancel, Offered
  <1>6. CASE Crash
    BY <1>6 DEF Crash, Offered
  <1>7. CASE SaveChecksum
    BY <1>7 DEF SaveChecksum, Offered
  <1>8. ASSUME NEW c \in Conns, Connect(c) PROVE Offered'
    BY <1>8 DEF Connect, Offered
  <1>9. ASSUME NEW c \in Conns, ConnectClosed(c) PROVE Offered'
    BY <1>9 DEF ConnectClosed, Offered
  <1>10. ASSUME NEW c \in Conns, RecvReqChsum(c) PROVE Offered'
    BY <1>10 DEF RecvReqChsum, Offered
  <1>11. ASSUME NEW c \in Conns, ReportChsum(c) PROVE Offered'
    BY <1>11 DEF ReportChsum, Offered
  <1>12. ASSUME NEW c \in Conns, RecvStart(c) PROVE Offered'
    BY <1>12 DEF RecvStart, Offered
  <1>13. ASSUME NEW c \in Conns, UploadOpen(c) PROVE Offered'
    BY <1>13 DEF UploadOpen, Offered
  <1>14. ASSUME NEW c \in Conns, UploadChunk(c) PROVE Offered'
    BY <1>14 DEF UploadChunk, Offered
  <1>15. ASSUME NEW c \in Conns, UploadDone(c) PROVE Offered'
    BY <1>15 DEF UploadDone, Offered
  <1>16. ASSUME NEW c \in Conns, UploadFail(c) PROVE Offered'
    BY <1>16 DEF UploadFail, Offered
  <1>17. ASSUME NEW c \in Conns, RecvVerdict(c) PROVE Offered'
    BY <1>17 DEF RecvVerdict, Offered
  <1>18. ASSUME NEW c \in Conns, RecvCancelC(c) PROVE Offered'
    BY <1>18 DEF RecvCancelC, Offered
  <1>19. ASSUME NEW c \in Conns, RecvClose(c) PROVE Offered'
    BY <1>19 DEF RecvClose, Offered
  <1>20. ASSUME NEW c \in Conns, ClientBreak(c) PROVE Offered'
    BY <1>20 DEF ClientBreak, Offered
  <1>21. ASSUME NEW c \in Conns, RecvChunk(c) PROVE Offered'
    BY <1>21 DEF RecvChunk, Offered
  <1>22. ASSUME NEW c \in Conns, RecvReportChsum(c) PROVE Offered'
    BY <1>22 DEF RecvReportChsum, Offered
  <1>23. ASSUME NEW c \in Conns, RecvError(c) PROVE Offered'
    BY <1>23 DEF RecvError, Offered
  <1>24. ASSUME NEW c \in Conns, RecvReject(c) PROVE Offered'
    BY <1>24 DEF RecvReject, Offered
  <1>25. ASSUME NEW c \in Conns, RecvCancel(c) PROVE Offered'
    BY <1>25 DEF RecvCancel, Offered
  <1>26. ASSUME NEW c \in Conns, JobInit(c) PROVE Offered'
    BY <1>26 DEF JobInit, Offered
  <1>27. ASSUME NEW c \in Conns, JobPartial(c) PROVE Offered'
    BY <1>27 DEF JobPartial, Offered
  <1>28. ASSUME NEW c \in Conns, JobFull(c) PROVE Offered'
    BY <1>28 DEF JobFull, Offered
  <1>29. ASSUME NEW c \in Conns, JobStart(c) PROVE Offered'
    BY <1>29 DEF JobStart, Offered
  <1>30. ASSUME NEW c \in Conns, JobChunk(c) PROVE Offered'
    BY <1>30 DEF JobChunk, Offered
  <1>31. ASSUME NEW c \in Conns, JobReceived(c) PROVE Offered'
    BY <1>31 DEF JobReceived, Offered
  <1>32. ASSUME NEW c \in Conns, JobValidate(c) PROVE Offered'
    BY <1>32 DEF JobValidate, Offered
  <1>33. ASSUME NEW c \in Conns, JobPlace(c) PROVE Offered'
    BY <1>33 DEF JobPlace, Offered
  <1>34. ASSUME NEW c \in Conns, JobPost(c) PROVE Offered'
    BY <1>34 DEF JobPost, Offered
  <1>35. ASSUME NEW c \in Conns, JobCanceled(c) PROVE Offered'
    BY <1>35 DEF JobCanceled, Offered
  <1>36. ASSUME NEW c \in Conns, Drained(c) PROVE Offered'
    BY <1>36 DEF Drained, Offered
  <1>37. ASSUME NEW c \in Conns, Finalize(c) PROVE Offered'
    BY <1>37 DEF Finalize, Offered
  <1>38. ASSUME NEW c \in Conns, ServerBreak(c) PROVE Offered'
    BY <1>38 DEF ServerBreak, Offered
  <1>39. CASE UNCHANGED vars
    BY <1>39 DEF vars, Offered
  <1> QED
    BY <1>1, <1>2, <1>3, <1>4, <1>5, <1>6, <1>7, <1>8, <1>9, <1>10, <1>11, <1>12,
       <1>13, <1>14, <1>15, <1>16, <1>17, <1>18, <1>19, <1>20, <1>21, <1>22, <1>23, <1>24,
       <1>25, <1>26, <1>27, <1>28, <1>29, <1>30, <1>31, <1>32, <1>33, <1>34, <1>35, <1>36,
       <1>37, <1>38, <1>39
       DEF Next, Environment, Running

\* Type correctness; with it, that a download never counts more blocks than were offered.
THEOREM StreamTypes == Overlap = FALSE /\ Spec => []TypeOK
  <1>1. StreamInv /\ Offered => TypeOK
    <2> SUFFICES ASSUME StreamInv, Offered PROVE TypeOK
      OBVIOUS
    <2>1. TypeInv /\ FileInv
      BY DEF StreamInv
    <2>2. \A c \in Conns : upload[c].pc \in {"none", "open", "read", "end"}
      BY <2>1 DEF TypeInv, Uploads
    <2>3. \A c \in Conns : job[c].pc \in JobPc /\ job[c].received <= size
      BY <2>1 DEF TypeInv, Jobs, FileInv, FileAt
    <2> QED
      BY <2>1, <2>2, <2>3 DEF TypeInv, Offered, TypeOK
  <1>2. Spec => []Offered
    BY OfferedInit, OfferedStep, PTL DEF Spec
  <1> QED
    BY <1>1, <1>2, StreamInvariant, PTL

\* What is moved to the destination has the offered size and is what passed the
\* validation, whatever was resumed, retried, killed or written late; and if the sender's
\* file was never touched it is that file, block by block.
THEOREM StreamPlacedIntact == Overlap = FALSE /\ Spec => []PlacedIntact
  <1>1. StreamInv => PlacedIntact
    <2> SUFFICES ASSUME StreamInv, NEW d \in dest
                 PROVE  /\ Len(ino[d.ino]) = size /\ ino[d.ino] = d.csum
                        /\ src.mtime = 0 => d.csum = Blocks(0, size)
      BY DEF PlacedIntact
    <2>1. d.ino \in Conns /\ Len(ino[d.ino]) = size /\ ino[d.ino] = d.csum /\ ino[d.ino] \in Seq(Block)
      BY DEF StreamInv, TypeInv, FileInv
    <2>2. ASSUME src.mtime = 0 PROVE d.csum = Blocks(0, size)
      <3>1. IsData(d.csum, 0) /\ d.csum \in Seq(Block) /\ Len(d.csum) = size
        BY <2>1, <2>2 DEF StreamInv, PipeInv
      <3>2. size \in Nat /\ 0 \in Nat
        BY DEF StreamInv, TypeInv
      <3>3. Blocks(0, size) \in Seq(Block) /\ Len(Blocks(0, size)) = size
        BY <3>2, BlocksTyped
      <3>4. ASSUME NEW i \in 1 .. size PROVE d.csum[i] = Blocks(0, size)[i]
        <4>1. i \in DOMAIN d.csum
          BY <3>1
        <4>2. d.csum[i] = <<0, 0 + i>> /\ 0 + i = i
          BY <3>1, <3>2, <4>1 DEF IsData
        <4>3. Blocks(0, size)[i] = <<0, i>>
          BY DEF Blocks
        <4> QED
          BY <4>2, <4>3
      <3> QED
        BY <3>1, <3>3, <3>4, SameSeq
    <2> QED
      BY <2>1, <2>2
  <1> QED
    BY <1>1, StreamInvariant, PTL
-----------------------------------------------------------------------------
(* Verdicts: what a message on its way, a job or a row says of the file.   *)

\* What is on a wire: a message of kind k; and that each of kind k comes after one of K.
Has(s, k)      == \E i \in DOMAIN s : s[i].k = k
After(s, k, K) == \A i \in DOMAIN s : s[i].k = k => \E j \in DOMAIN s : j < i /\ s[j].k \in K

\* A loop that reads requests is the one the manager has registered, of a transfer that was
\* not canceled, and the job it holds a task of was not aborted.
ServeAt(c) == /\ aborted[c] => job[c].pc \in Abortable
              /\ sv[c] = "run" => conn = c /\ ~closed /\ (held[c] => ~aborted[c])

ServeInv == \A c \in Conns : ServeAt(c)

\* Who says Completed has a file that was moved to its destination to show, and a Done is
\* on its way only after the receiver has its verdict.
DoneAt(c) == /\ Has(toC[c], "Done") => rstat \in Ended /\ dest # {}
             /\ job[c].pc = "ok" => dest # {}

PlaceInv == /\ rstat = "Completed" => dest # {}
            /\ sstat = "Completed" => rstat \in Ended /\ dest # {}
            /\ \A c \in Conns : DoneAt(c)

\* A rejection (v6): one from the sender is the sender's verdict; of one at the receiver the
\* sender has another verdict, or reads of it before it reads a Done.
RefusedAt(c) == sstat = "Alive" => /\ After(toC[c], "Done", {"Reject", "Error"})
                                   /\ sv[c] = "run" /\ cl[c] = "run" => Has(toC[c], "Reject")

RefuseInv ==
  ver = "v6" => /\ \A c \in Conns : Has(toS[c], "Reject") => sstat = "Rejected"
                /\ rstat = "Rejected" => sstat # "Completed" /\ \A c \in Conns : RefusedAt(c)

\* As long as the sender's file was not touched: it has the offered size, every checksum of
\* the whole file is that of the offered file, and no position is past its end.
Whole       == Blocks(0, size)
Within(d)   == \A i \in DOMAIN d : d[i][2] <= size
Truthful(m) == /\ m.k = "ReportChsum" /\ m.n = size => m.d = Whole
               /\ m.k = "Chunk" => Within(m.d)

TrueC(s) == \A i \in DOMAIN s : s[i].k = "Start" => s[i].n <= size
TrueS(s) == \A i \in DOMAIN s : Truthful(s[i])
TrueD(s) == \A i \in DOMAIN s : Within(s[i])

TrueAt(c) ==
  /\ \A t \in sums[c] : t.seen = src
  /\ upload[c].pos <= size /\ (upload[c].pc = "read" => upload[c].meta = src)
  /\ TrueC(toC[c]) /\ TrueS(toS[c]) /\ TrueD(chunks[c])
  /\ cell[c] \in {NoSum, Whole}

TrueInv == src.mtime = 0 => /\ src.len = size /\ dbsum \in {NoSum, Whole} /\ saves \subseteq {Whole}
                            /\ \A c \in Conns : TrueAt(c)

\* Then, unless the receiver rejects the file, no download fails: a job that counts on its
\* temporary file finds it.
Relies(c) == \/ job[c].pc \in {"partial", "full", "recv", "check", "place"}
             \/ job[c].pc = "start" /\ job[c].offset # 0

SoundAt(c) == job[c].pc # "bad" /\ (Relies(c) => tmp # NoIno)

SoundInv == src.mtime = 0 /\ rstat # "Rejected" => \A c \in Conns : SoundAt(c)

\* And unless either side rejects it no Error is read that makes it fail: the sender sends
\* one only of a file the receiver has, the receiver only after the Done.
Over(c)    == held[c] /\ sv[c] = "run" /\ cl[c] = "run" /\ job[c].pc = "end"
ToldAt(c)  == sstat = "Alive" => /\ After(toC[c], "Error", {"Done"})
                                 /\ Over(c) => Has(toC[c], "Done")
ClearAt(c) == (Has(toS[c], "Error") => rstat = "Completed") /\ ToldAt(c)

Clear    == src.mtime = 0 /\ sstat # "Rejected" /\ rstat # "Rejected"
ClearInv == Clear => sstat # "Failed" /\ rstat # "Failed" /\ \A c \in Conns : ClearAt(c)

VerdictInv == StreamInv /\ ServeInv /\ PlaceInv /\ RefuseInv /\ TrueInv /\ SoundInv /\ ClearInv

LEMMA HasAppend ==
  ASSUME NEW s \in Seq(Message), NEW m \in Message, NEW k
  PROVE  Has(Append(s, m), k) <=> (Has(s, k) \/ m.k = k)
  <1> DEFINE t == Append(s, m)
  <1>1. /\ Len(s) \in Nat /\ DOMAIN s = 1 .. Len(s) /\ DOMAIN t = 1 .. Len(s) + 1
        /\ \A i \in 1 .. Len(s) : t[i] = s[i]
        /\ t[Len(s) + 1] = m
    BY AppendElements
  <1> HIDE DEF t
  <1>2. Len(s) + 1 \in DOMAIN t /\ \A i \in DOMAIN s : i \in DOMAIN t /\ t[i] = s[i]
    BY <1>1
  <1>3. \A i \in DOMAIN t : i \in DOMAIN s \/ i = Len(s) + 1
    BY <1>1
  <1>4. Has(t, k) <=> (Has(s, k) \/ m.k = k)
    BY <1>1, <1>2, <1>3 DEF Has
  <1> QED
    BY <1>4 DEF t

LEMMA HasTail ==
  ASSUME NEW s \in Seq(Message), s # <<>>, NEW k
  PROVE  Has(s, k) <=> (Has(Tail(s), k) \/ Head(s).k = k)
  <1> DEFINE t == Tail(s)
  <1>1. /\ Len(s) \in Nat /\ Len(s) >= 1 /\ DOMAIN s = 1 .. Len(s) /\ DOMAIN t = 1 .. Len(s) - 1
        /\ \A i \in 1 .. Len(s) - 1 : t[i] = s[i + 1]
        /\ Head(s) = s[1]
    BY TailElements
  <1> HIDE DEF t
  <1>2. 1 \in DOMAIN s /\ \A i \in DOMAIN t : i + 1 \in DOMAIN s /\ t[i] = s[i + 1]
    BY <1>1
  <1>3. \A i \in DOMAIN s : i = 1 \/ (i - 1 \in DOMAIN t /\ t[i - 1] = s[i])
    BY <1>1
  <1>4. ASSUME Has(s, k), Head(s).k # k PROVE Has(t, k)
    <2>1. PICK i \in DOMAIN s : s[i].k = k
      BY <1>4 DEF Has
    <2>2. i - 1 \in DOMAIN t /\ t[i - 1] = s[i]
      BY <1>1, <1>3, <1>4, <2>1
    <2> QED
      BY <2>1, <2>2 DEF Has
  <1>5. Has(t, k) => Has(s, k)
    BY <1>2 DEF Has
  <1>6. Head(s).k = k => Has(s, k)
    BY <1>1, <1>2 DEF Has
  <1> QED
    BY <1>4, <1>5, <1>6 DEF t

LEMMA AfterAppend ==
  ASSUME NEW s \in Seq(Message), NEW m \in Message, NEW k, NEW K, After(s, k, K),
         m.k = k => \E x \in K : Has(s, x)
  PROVE  After(Append(s, m), k, K)
  <1> DEFINE t == Append(s, m)
  <1>1. /\ Len(s) \in Nat /\ DOMAIN s = 1 .. Len(s) /\ DOMAIN t = 1 .. Len(s) + 1
        /\ \A i \in 1 .. Len(s) : t[i] = s[i]
        /\ t[Len(s) + 1] = m
    BY AppendElements
  <1> HIDE DEF t
  <1>2. ASSUME NEW i \in DOMAIN t, t[i].k = k PROVE \E j \in DOMAIN t : j < i /\ t[j].k \in K
    <2>1. CASE i \in DOMAIN s
      <3>1. PICK j \in DOMAIN s : j < i /\ s[j].k \in K
        BY <1>1, <1>2, <2>1 DEF After
      <3>2. j \in DOMAIN t /\ t[j] = s[j]
        BY <1>1
      <3> QED
        BY <3>1, <3>2
    <2>2. CASE i = Len(s) + 1
      <3>1. PICK j \in DOMAIN s : s[j].k \in K
        BY <1>1, <1>2, <2>2 DEF Has
      <3>2. j \in DOMAIN t /\ t[j] = s[j] /\ j < i
        BY <1>1, <2>2
      <3> QED
        BY <3>1, <3>2
    <2> QED
      BY <1>1, <2>1, <2>2
  <1>3. After(t, k, K)
    BY <1>2 DEF After
  <1> QED
    BY <1>3 DEF t

LEMMA AfterTail ==
  ASSUME NEW s \in Seq(Message), s # <<>>, NEW k, NEW K, After(s, k, K)
  PROVE  Head(s).k # k /\ (Head(s).k \notin K => After(Tail(s), k, K))
  <1> DEFINE t == Tail(s)
  <1>1. /\ Len(s) \in Nat /\ Len(s) >= 1 /\ DOMAIN s = 1 .. Len(s) /\ DOMAIN t = 1 .. Len(s) - 1
        /\ \A i \in 1 .. Len(s) - 1 : t[i] = s[i + 1]
        /\ Head(s) = s[1]
    BY TailElements
  <1> HIDE DEF t
  <1>2. 1 \in DOMAIN s /\ \A j \in DOMAIN s : ~(j < 1)
    BY <1>1
  <1>3. Head(s).k # k
    BY <1>1, <1>2 DEF After
  <1>4. ASSUME Head(s).k \notin K, NEW i \in DOMAIN t, t[i].k = k
        PROVE  \E j \in DOMAIN t : j < i /\ t[j].k \in K
    <2>1. i + 1 \in DOMAIN s /\ t[i] = s[i + 1] /\ i \in Nat
      BY <1>1
    <2>2. PICK j \in DOMAIN s : j < i + 1 /\ s[j].k \in K
      BY <1>4, <2>1 DEF After
    <2>3. j # 1
      BY <1>1, <1>4, <2>2
    <2>4. j - 1 \in DOMAIN t /\ t[j - 1] = s[j] /\ j - 1 < i
      BY <1>1, <2>1, <2>2, <2>3
    <2> QED
      BY <2>2, <2>4
  <1>5. Head(s).k \notin K => After(t, k, K)
    BY <1>4 DEF After
  <1> QED
    BY <1>3, <1>5 DEF t

LEMMA NothingSaid ==
  /\ \A k : ~Has(<<>>, k)
  /\ \A k, K : After(<<>>, k, K)
  BY DEF Has, After

LEMMA OneSaid ==
  ASSUME NEW m \in Message
  PROVE  /\ <<m>> \in Seq(Message)
         /\ \A k : Has(<<m>>, k) <=> m.k = k
         /\ \A k, K : m.k # k => After(<<m>>, k, K)
  <1>1. <<>> \in Seq(Message) /\ <<m>> = Append(<<>>, m) /\ <<m>> \in Seq(Message)
    OBVIOUS
  <1>2. \A k : Has(<<m>>, k) <=> m.k = k
    BY <1>1, HasAppend, NothingSaid
  <1>3. ASSUME NEW k, NEW K, m.k # k PROVE After(<<m>>, k, K)
    <2>1. \A i \in DOMAIN <<m>> : <<m>>[i] = m
      OBVIOUS
    <2> QED
      BY <1>3, <2>1 DEF After
  <1> QED
    BY <1>1, <1>2, <1>3

\* A message was sent, if the other end is there.
LEMMA SendCIs ==
  ASSUME TypeInv, NEW c \in Conns, NEW m \in Message, SendC(c, <<m>>)
  PROVE  /\ toC[c] \in Seq(Message)
         /\ cl[c] = "run" => toC'[c] = Append(toC[c], m)
         /\ cl[c] # "run" => toC'[c] = toC[c]
  <1>1. toC[c] \in Seq(Message)
    BY DEF TypeInv
  <1>2. toC[c] \o <<m>> = Append(toC[c], m)
    BY <1>1, ConcatOne
  <1> QED
    BY <1>1, <1>2 DEF SendC, TypeInv

LEMMA SendSIs ==
  ASSUME TypeInv, NEW c \in Conns, NEW m \in Message, SendS(c, <<m>>)
  PROVE  /\ toS[c] \in Seq(Message)
         /\ sv[c] = "run" => toS'[c] = Append(toS[c], m)
         /\ sv[c] # "run" => toS'[c] = toS[c]
  <1>1. toS[c] \in Seq(Message)
    BY DEF TypeInv
  <1>2. toS[c] \o <<m>> = Append(toS[c], m)
    BY <1>1, ConcatOne
  <1> QED
    BY <1>1, <1>2 DEF SendS, TypeInv

\* What lasts: version and size, a verdict of either side, a file at its destination; and a
\* file whose time is that of the offer was not touched.
Lasting == /\ ver' = ver /\ size' = size /\ dest \subseteq dest'
           /\ rstat \in Ended => rstat' = rstat
           /\ sstat # "Alive" => sstat' = sstat
           /\ src'.mtime = 0 => src' = src

LEMMA VerdictsLast == TypeInv /\ [Next]_vars => Lasting
  <1> SUFFICES ASSUME TypeInv, [Next]_vars PROVE Lasting
    OBVIOUS
  <1> USE DEF fixed, sender, client, wire, receiver, server, task, disk
  <1>1. CASE ApiDownload
    BY <1>1 DEF ApiDownload, Lasting, Ended
  <1>2. CASE Modify
    <2>1. PICK n \in NewLens : src' = [mtime |-> src.mtime + 1, len |-> n]
      BY <1>2 DEF Modify
    <2>2. src.mtime \in Nat /\ src'.mtime = src.mtime + 1
      BY <2>1 DEF TypeInv, Source
    <2>3. src'.mtime # 0
      BY <2>2
    <2> QED
      BY <1>2, <2>3 DEF Modify, Lasting
  <1>3. CASE ApiSenderReject
    BY <1>3 DEF ApiSenderReject, Lasting, Ended
  <1>4. CASE ApiReject
    BY <1>4 DEF ApiReject, Lasting, Ended
  <1>5. CASE ApiCancel
    BY <1>5 DEF ApiCancel, Lasting, Ended
  <1>6. CASE Crash
    BY <1>6 DEF Crash, Lasting
  <1>7. CASE SaveChecksum
    BY <1>7 DEF SaveChecksum, Lasting
  <1>8. ASSUME NEW c \in Conns, Connect(c) PROVE Lasting
    BY <1>8 DEF Connect, Lasting
  <1>9. ASSUME NEW c \in Conns, ConnectClosed(c) PROVE Lasting
    BY <1>9 DEF ConnectClosed, Lasting
  <1>10. ASSUME NEW c \in Conns, RecvReqChsum(c) PROVE Lasting
    BY <1>10 DEF RecvReqChsum, Lasting
  <1>11. ASSUME NEW c \in Conns, ReportChsum(c) PROVE Lasting
    BY <1>11 DEF ReportChsum, Lasting
  <1>12. ASSUME NEW c \in Conns, RecvStart(c) PROVE Lasting
    BY <1>12 DEF RecvStart, Lasting
  <1>13. ASSUME NEW c \in Conns, UploadOpen(c) PROVE Lasting
    BY <1>13 DEF UploadOpen, Lasting
  <1>14. ASSUME NEW c \in Conns, UploadChunk(c) PROVE Lasting
    BY <1>14 DEF UploadChunk, Lasting
  <1>15. ASSUME NEW c \in Conns, UploadDone(c) PROVE Lasting
    BY <1>15 DEF UploadDone, Lasting
  <1>16. ASSUME NEW c \in Conns, UploadFail(c) PROVE Lasting
    BY <1>16 DEF UploadFail, Lasting
  <1>17. ASSUME NEW c \in Conns, RecvVerdict(c) PROVE Lasting
    BY <1>17 DEF RecvVerdict, Lasting
  <1>18. ASSUME NEW c \in Conns, RecvCancelC(c) PROVE Lasting
    BY <1>18 DEF RecvCancelC, Lasting
  <1>19. ASSUME NEW c \in Conns, RecvClose(c) PROVE Lasting
    BY <1>19 DEF RecvClose, Lasting
  <1>20. ASSUME NEW c \in Conns, ClientBreak(c) PROVE Lasting
    BY <1>20 DEF ClientBreak, Lasting
  <1>21. ASSUME NEW c \in Conns, RecvChunk(c) PROVE Lasting
    BY <1>21 DEF RecvChunk, Lasting
  <1>22. ASSUME NEW c \in Conns, RecvReportChsum(c) PROVE Lasting
    BY <1>22 DEF RecvReportChsum, Lasting
  <1>23. ASSUME NEW c \in Conns, RecvError(c) PROVE Lasting
    BY <1>23 DEF RecvError, Lasting
  <1>24. ASSUME NEW c \in Conns, RecvReject(c) PROVE Lasting
    BY <1>24 DEF RecvReject, Lasting
  <1>25. ASSUME NEW c \in Conns, RecvCancel(c) PROVE Lasting
    BY <1>25 DEF RecvCancel, Lasting
  <1>26. ASSUME NEW c \in Conns, JobInit(c) PROVE Lasting
    BY <1>26 DEF JobInit, Lasting
  <1>27. ASSUME NEW c \in Conns, JobPartial(c) PROVE Lasting
    BY <1>27 DEF JobPartial, Lasting
  <1>28. ASSUME NEW c \in Conns, JobFull(c) PROVE Lasting
    BY <1>28 DEF JobFull, Lasting
  <1>29. ASSUME NEW c \in Conns, JobStart(c) PROVE Lasting
    BY <1>29 DEF JobStart, Lasting
  <1>30. ASSUME NEW c \in Conns, JobChunk(c) PROVE Lasting
    BY <1>30 DEF JobChunk, Lasting
  <1>31. ASSUME NEW c \in Conns, JobReceived(c) PROVE Lasting
    BY <1>31 DEF JobReceived, Lasting
  <1>32. ASSUME NEW c \in Conns, JobValidate(c) PROVE Lasting
    BY <1>32 DEF JobValidate, Lasting
  <1>33. ASSUME NEW c \in Conns, JobPlace(c) PROVE Lasting
    BY <1>33 DEF JobPlace, Lasting
  <1>34. ASSUME NEW c \in Conns, JobPost(c) PROVE Lasting
    BY <1>34 DEF JobPost, Lasting
  <1>35. ASSUME NEW c \in Conns, JobCanceled(c) PROVE Lasting
    BY <1>35 DEF JobCanceled, Lasting
  <1>36. ASSUME NEW c \in Conns, Drained(c) PROVE Lasting
    BY <1>36 DEF Drained, Lasting
  <1>37. ASSUME NEW c \in Conns, Finalize(c) PROVE Lasting
    BY <1>37 DEF Finalize, Lasting
  <1>38. ASSUME NEW c \in Conns, ServerBreak(c) PROVE Lasting
    BY <1>38 DEF ServerBreak, Lasting
  <1>39. CASE UNCHANGED vars
    BY <1>39 DEF vars, Lasting
  <1> QED
    BY <1>1, <1>2, <1>3, <1>4, <1>5, <1>6, <1>7, <1>8, <1>9, <1>10, <1>11, <1>12,
       <1>13, <1>14, <1>15, <1>16, <1>17, <1>18, <1>19, <1>20, <1>21, <1>22, <1>23, <1>24,
       <1>25, <1>26, <1>27, <1>28, <1>29, <1>30, <1>31, <1>32, <1>33, <1>34, <1>35, <1>36,
       <1>37, <1>38, <1>39
       DEF Next, Environment, Running

-----------------------------------------------------------------------------
(* The loops.                                                              *)

\* A step of the job or the loop of c.
LEMMA ServeMoved ==
  ASSUME ServeInv, NEW c \in Conns, UNCHANGED <<conn, closed>>, ServeAt(c)',
         \A x \in Conns \ {c} : /\ sv'[x] = sv[x] /\ held'[x] = held[x]
                                /\ job'[x] = job[x] /\ aborted'[x] = aborted[x]
  PROVE  ServeInv'
  BY DEF ServeInv, ServeAt

LEMMA ServeJob ==
  ASSUME TypeInv, ServeInv, NEW c \in Conns, UNCHANGED <<conn, closed, sv, held>>,
         \A x \in Conns \ {c} : job'[x] = job[x] /\ aborted'[x] = aborted[x],
         aborted'[c] => aborted[c] /\ job'[c].pc \in Abortable
  PROVE  ServeInv'
  BY DEF ServeInv, ServeAt

LEMMA ServeSame ==
  ASSUME ServeInv, UNCHANGED <<conn, closed, sv, held, job, aborted>>
  PROVE  ServeInv'
  BY DEF ServeInv, ServeAt

\* A job that opens its file or takes a chunk goes on, or finds that it cannot.
LEMMA JobGoesOn ==
  ASSUME TypeInv, NEW c \in Conns, JobStart(c) \/ JobChunk(c)
  PROVE  job'[c].pc \in {"recv", "bad"} /\ (aborted'[c] => aborted[c] /\ job'[c].pc = "recv")
  <1>1. job[c] \in Jobs
    BY DEF TypeInv
  <1>2. ASSUME JobTo(c, "bad") PROVE job'[c].pc = "bad" /\ ~aborted'[c]
    <2>1. job'[c] = [job[c] EXCEPT !.pc = "bad"] /\ ~aborted'[c]
      BY <1>2 DEF JobTo, Abortable, TypeInv
    <2> QED
      BY <1>1, <2>1 DEF Jobs
  <1>3. CASE JobStart(c)
    <2> DEFINE i == IF tmp = NoIno THEN c ELSE tmp
    <2>1. CASE job[c].offset = 0
      <3>1. aborted' = aborted /\ job'[c] = [job[c] EXCEPT !.pc = "recv", !.fd = i]
        BY <1>3, <2>1 DEF JobStart, TypeInv
      <3> HIDE DEF i
      <3>2. job'[c].pc = "recv"
        BY <1>1, <3>1 DEF Jobs
      <3> QED
        BY <3>1, <3>2
    <2>2. CASE job[c].offset # 0 /\ tmp = NoIno
      <3>1. JobTo(c, "bad")
        BY <1>3, <2>2 DEF JobStart
      <3> QED
        BY <1>2, <3>1
    <2>3. CASE job[c].offset # 0 /\ tmp # NoIno
      <3>1. /\ aborted' = aborted
            /\ job'[c] = [job[c] EXCEPT !.pc = "recv", !.fd = tmp, !.received = job[c].offset]
        BY <1>3, <2>3 DEF JobStart, TypeInv
      <3>2. job'[c].pc = "recv"
        BY <1>1, <3>1 DEF Jobs
      <3> QED
        BY <3>1, <3>2
    <2> QED
      BY <2>1, <2>2, <2>3
  <1>4. CASE JobChunk(c)
    <2> DEFINE n == job[c].received + Len(Head(chunks[c]))
    <2>1. CASE n > size
      <3>1. JobTo(c, "bad")
        BY <1>4, <2>1 DEF JobChunk
      <3> QED
        BY <1>2, <3>1
    <2>2. CASE ~(n > size)
      <3>1. aborted' = aborted /\ job[c].pc = "recv" /\ job'[c] = [job[c] EXCEPT !.received = n]
        BY <1>4, <2>2 DEF JobChunk, JobAt, TypeInv
      <3> HIDE DEF n
      <3>2. job'[c].pc = "recv"
        BY <1>1, <3>1 DEF Jobs
      <3> QED
        BY <3>1, <3>2
    <2> QED
      BY <2>1, <2>2
  <1> QED
    BY <1>3, <1>4

LEMMA ServeInit == Init => ServeInv
  BY DEF Init, ServeInv, ServeAt

LEMMA ServeStep == TypeInv /\ ConnInv /\ Overlap = FALSE /\ ServeInv /\ [Next]_vars => ServeInv'
  <1> SUFFICES ASSUME TypeInv, ConnInv, Overlap = FALSE, ServeInv, [Next]_vars PROVE ServeInv'
    OBVIOUS
  <1> USE DEF fixed, sender, client, wire, receiver, server, task, disk
  <1>1. CASE ApiDownload
    <2>1. UNCHANGED <<conn, closed, sv, aborted>> /\ \A x \in Conns : ~aborted[x]
      BY <1>1 DEF ApiDownload, ConnInv, ServeInv, ServeAt, Abortable
    <2> QED
      BY <2>1 DEF ServeInv, ServeAt
  <1>2. CASE Modify
    BY <1>2, ServeSame DEF Modify
  <1>3. CASE ApiSenderReject
    BY <1>3, ServeSame DEF ApiSenderReject
  <1>4. CASE ApiReject
    <2>1. UNCHANGED <<conn, closed, sv, job>>
      BY <1>4 DEF ApiReject
    <2>2. CASE Live
      <3>1. conn \in Conns /\ conn' = conn
        BY <2>1, <2>2 DEF Live, TypeInv
      <3>2. \A x \in Conns \ {conn} : held'[x] = held[x] /\ aborted'[x] = aborted[x]
        BY <1>4, <2>2, <3>1 DEF ApiReject, StopTask, TypeInv
      <3>3. ~held'[conn] /\ (aborted'[conn] => job[conn].pc \in Abortable)
        BY <1>4, <2>2, <3>1 DEF ApiReject, StopTask, TypeInv
      <3>4. ASSUME NEW x \in Conns, x = conn PROVE ServeAt(x)'
        BY <2>1, <3>1, <3>3, <3>4 DEF ServeInv, ServeAt
      <3> QED
        BY <2>1, <3>1, <3>2, <3>4, ServeMoved
    <2>3. CASE ~Live
      BY <1>4, <2>1, <2>3, ServeSame DEF ApiReject
    <2> QED
      BY <2>2, <2>3
  <1>5. CASE ApiCancel
    <2>1. UNCHANGED <<conn, job, aborted>>
      BY <1>5 DEF ApiCancel
    <2>2. \A x \in Conns : sv'[x] # "run"
      <3>1. CASE Live
        <4>1. conn \in Conns
          BY <3>1 DEF Live, TypeInv
        <4> QED
          BY <1>5, <3>1, <4>1 DEF ApiCancel, ServeInv, ServeAt, TypeInv
      <3>2. CASE ~Live
        <4>1. sv' = sv
          BY <1>5, <3>2 DEF ApiCancel
        <4> QED
          BY <3>2, <4>1, Numbers DEF Live, ServeInv, ServeAt
      <3> QED
        BY <3>1, <3>2
    <2> QED
      BY <2>1, <2>2 DEF ServeInv, ServeAt
  <1>6. CASE Crash
    <2>1. \A x \in Conns : ~aborted'[x] /\ sv'[x] # "run"
      BY <1>6 DEF Crash
    <2> QED
      BY <2>1 DEF ServeInv, ServeAt
  <1>7. CASE SaveChecksum
    BY <1>7, ServeSame DEF SaveChecksum
  <1>8. ASSUME NEW c \in Conns, Connect(c) PROVE ServeInv'
    <2>1. /\ cl[c] = "off" /\ ~closed /\ UNCHANGED <<closed, aborted>>
          /\ conn' = c /\ \A x \in Conns : x < c => sv[x] = "end"
      BY <1>8 DEF Connect, Fresh
    <2>2. Local(c) /\ sv[c] = "off" /\ job[c] = NoJob
      BY <1>8, <2>1, LocalSteps DEF ConnInv, Blank
    <2>3. ~aborted[c]
      BY <2>2, Constructors DEF ServeInv, ServeAt, Abortable
    <2>4. ASSUME NEW x \in Conns, x # c PROVE sv[x] # "run"
      <3>1. CASE c < x
        BY <2>1, <2>4, <3>1 DEF ConnInv
      <3> QED
        BY <2>1, <2>4, <3>1, Numbers
    <2>5. ASSUME NEW x \in Conns, x # c PROVE ServeAt(x)'
      BY <2>1, <2>2, <2>4, <2>5 DEF Local, ServeInv, ServeAt
    <2>6. ServeAt(c)'
      BY <2>1, <2>3 DEF ServeAt
    <2> QED
      BY <2>5, <2>6 DEF ServeInv
  <1>9. ASSUME NEW c \in Conns, ConnectClosed(c) PROVE ServeInv'
    <2>1. UNCHANGED <<conn, closed, held, job, aborted>> /\ sv'[c] = "drain"
      BY <1>9 DEF ConnectClosed, TypeInv
    <2>2. \A x \in Conns \ {c} : sv'[x] = sv[x]
      BY <1>9 DEF ConnectClosed, TypeInv
    <2> QED
      BY <2>1, <2>2 DEF ServeInv, ServeAt
  <1>10. ASSUME NEW c \in Conns, RecvReqChsum(c) PROVE ServeInv'
    BY <1>10, ServeSame DEF RecvReqChsum
  <1>11. ASSUME NEW c \in Conns, ReportChsum(c) PROVE ServeInv'
    BY <1>11, ServeSame DEF ReportChsum
  <1>12. ASSUME NEW c \in Conns, RecvStart(c) PROVE ServeInv'
    BY <1>12, ServeSame DEF RecvStart
  <1>13. ASSUME NEW c \in Conns, UploadOpen(c) PROVE ServeInv'
    BY <1>13, ServeSame DEF UploadOpen
  <1>14. ASSUME NEW c \in Conns, UploadChunk(c) PROVE ServeInv'
    BY <1>14, ServeSame DEF UploadChunk
  <1>15. ASSUME NEW c \in Conns, UploadDone(c) PROVE ServeInv'
    BY <1>15, ServeSame DEF UploadDone
  <1>16. ASSUME NEW c \in Conns, UploadFail(c) PROVE ServeInv'
    BY <1>16, ServeSame DEF UploadFail
  <1>17. ASSUME NEW c \in Conns, RecvVerdict(c) PROVE ServeInv'
    BY <1>17, ServeSame DEF RecvVerdict
  <1>18. ASSUME NEW c \in Conns, RecvCancelC(c) PROVE ServeInv'
    BY <1>18, ServeSame DEF RecvCancelC
  <1>19. ASSUME NEW c \in Conns, RecvClose(c) PROVE ServeInv'
    BY <1>19, ServeSame DEF RecvClose
  <1>20. ASSUME NEW c \in Conns, ClientBreak(c) PROVE ServeInv'
    BY <1>20, ServeSame DEF ClientBreak
  <1>21. ASSUME NEW c \in Conns, RecvChunk(c) PROVE ServeInv'
    BY <1>21, ServeSame DEF RecvChunk
  <1>22. ASSUME NEW c \in Conns, RecvReportChsum(c) PROVE ServeInv'
    BY <1>22, ServeSame DEF RecvReportChsum
  <1>23. ASSUME NEW c \in Conns, RecvError(c) PROVE ServeInv'
    <2>1. UNCHANGED <<conn, closed, sv, job>>
      BY <1>23 DEF RecvError
    <2>2. \A x \in Conns \ {c} : held'[x] = held[x] /\ aborted'[x] = aborted[x]
      BY <1>23 DEF RecvError, StopTask, TypeInv
    <2>3. ~held'[c] /\ (aborted'[c] => job[c].pc \in Abortable)
      BY <1>23 DEF RecvError, StopTask, TypeInv
    <2>4. ServeAt(c)'
      BY <2>1, <2>3 DEF ServeInv, ServeAt
    <2> QED
      BY <2>1, <2>2, <2>4, ServeMoved
  <1>24. ASSUME NEW c \in Conns, RecvReject(c) PROVE ServeInv'
    <2>1. UNCHANGED <<conn, closed, sv, job>>
      BY <1>24 DEF RecvReject
    <2>2. \A x \in Conns \ {c} : held'[x] = held[x] /\ aborted'[x] = aborted[x]
      BY <1>24 DEF RecvReject, StopTask, TypeInv
    <2>3. ~held'[c] /\ (aborted'[c] => job[c].pc \in Abortable)
      BY <1>24 DEF RecvReject, StopTask, TypeInv
    <2>4. ServeAt(c)'
      BY <2>1, <2>3 DEF ServeInv, ServeAt
    <2> QED
      BY <2>1, <2>2, <2>4, ServeMoved
  <1>25. ASSUME NEW c \in Conns, RecvCancel(c) PROVE ServeInv'
    <2>1. UNCHANGED <<conn, closed, sv, job>>
      BY <1>25 DEF RecvCancel
    <2>2. \A x \in Conns \ {c} : held'[x] = held[x] /\ aborted'[x] = aborted[x]
      BY <1>25 DEF RecvCancel, StopTask, TypeInv
    <2>3. ~held'[c] /\ (aborted'[c] => job[c].pc \in Abortable)
      BY <1>25 DEF RecvCancel, StopTask, TypeInv
    <2>4. ServeAt(c)'
      BY <2>1, <2>3 DEF ServeInv, ServeAt
    <2> QED
      BY <2>1, <2>2, <2>4, ServeMoved
  <1>26. ASSUME NEW c \in Conns, JobInit(c) PROVE ServeInv'
    <2>1. UNCHANGED <<conn, closed, sv, held>> /\ job[c] \in Jobs
      BY <1>26 DEF JobInit, TypeInv
    <2>2. \A x \in Conns \ {c} : job'[x] = job[x] /\ aborted'[x] = aborted[x]
      BY <1>26 DEF JobInit, TypeInv, InitV2, InitV4
    <2>3. aborted'[c] => aborted[c] /\ job'[c].pc \in Abortable
      BY <1>26, <2>1 DEF JobInit, TypeInv, InitV2, InitV4, Jobs, Abortable
    <2> QED
      BY <2>1, <2>2, <2>3, ServeJob
  <1>27. ASSUME NEW c \in Conns, JobPartial(c) PROVE ServeInv'
    <2>1. UNCHANGED <<conn, closed, sv, held>> /\ job[c] \in Jobs
      BY <1>27 DEF JobPartial, TypeInv
    <2>2. \A x \in Conns \ {c} : job'[x] = job[x] /\ aborted'[x] = aborted[x]
      BY <1>27 DEF JobPartial, TypeInv
    <2>3. aborted'[c] => aborted[c] /\ job'[c].pc \in Abortable
      BY <1>27, <2>1 DEF JobPartial, TypeInv, Jobs, Abortable
    <2> QED
      BY <2>1, <2>2, <2>3, ServeJob
  <1>28. ASSUME NEW c \in Conns, JobFull(c) PROVE ServeInv'
    <2>1. UNCHANGED <<conn, closed, sv, held>> /\ job[c] \in Jobs
      BY <1>28 DEF JobFull, TypeInv
    <2>2. \A x \in Conns \ {c} : job'[x] = job[x] /\ aborted'[x] = aborted[x]
      BY <1>28 DEF JobFull, TypeInv
    <2>3. aborted'[c] => aborted[c] /\ job'[c].pc \in Abortable
      BY <1>28, <2>1 DEF JobFull, TypeInv, Jobs, Abortable
    <2> QED
      BY <2>1, <2>2, <2>3, ServeJob
  <1>29. ASSUME NEW c \in Conns, JobStart(c) PROVE ServeInv'
    <2>1. UNCHANGED <<conn, closed, sv, held>>
      BY <1>29 DEF JobStart
    <2>2. \A x \in Conns \ {c} : job'[x] = job[x] /\ aborted'[x] = aborted[x]
      BY <1>29 DEF JobStart, TypeInv, JobTo
    <2>3. aborted'[c] => aborted[c] /\ job'[c].pc \in Abortable
      BY <1>29, JobGoesOn DEF Abortable
    <2> QED
      BY <2>1, <2>2, <2>3, ServeJob
  <1>30. ASSUME NEW c \in Conns, JobChunk(c) PROVE ServeInv'
    <2>1. UNCHANGED <<conn, closed, sv, held>>
      BY <1>30 DEF JobChunk
    <2>2. \A x \in Conns \ {c} : job'[x] = job[x] /\ aborted'[x] = aborted[x]
      BY <1>30 DEF JobChunk, TypeInv, JobTo
    <2>3. aborted'[c] => aborted[c] /\ job'[c].pc \in Abortable
      BY <1>30, JobGoesOn DEF Abortable
    <2> QED
      BY <2>1, <2>2, <2>3, ServeJob
  <1>31. ASSUME NEW c \in Conns, JobReceived(c) PROVE ServeInv'
    <2>1. UNCHANGED <<conn, closed, sv, held>> /\ job[c] \in Jobs
      BY <1>31 DEF JobReceived, TypeInv
    <2>2. \A x \in Conns \ {c} : job'[x] = job[x] /\ aborted'[x] = aborted[x]
      BY <1>31 DEF JobReceived, TypeInv, JobTo
    <2>3. aborted'[c] => aborted[c] /\ job'[c].pc \in Abortable
      BY <1>31, <2>1 DEF JobReceived, TypeInv, JobTo, Jobs, Abortable
    <2> QED
      BY <2>1, <2>2, <2>3, ServeJob
  <1>32. ASSUME NEW c \in Conns, JobValidate(c) PROVE ServeInv'
    <2>1. UNCHANGED <<conn, closed, sv, held>> /\ job[c] \in Jobs
      BY <1>32 DEF JobValidate, TypeInv
    <2>2. \A x \in Conns \ {c} : job'[x] = job[x] /\ aborted'[x] = aborted[x]
      BY <1>32 DEF JobValidate, TypeInv, JobTo
    <2>3. aborted'[c] => aborted[c] /\ job'[c].pc \in Abortable
      BY <1>32, <2>1 DEF JobValidate, TypeInv, JobTo, Jobs, Abortable
    <2> QED
      BY <2>1, <2>2, <2>3, ServeJob
  <1>33. ASSUME NEW c \in Conns, JobPlace(c) PROVE ServeInv'
    <2>1. UNCHANGED <<conn, closed, sv, held>> /\ job[c] \in Jobs
      BY <1>33 DEF JobPlace, TypeInv
    <2>2. \A x \in Conns \ {c} : job'[x] = job[x] /\ aborted'[x] = aborted[x]
      BY <1>33 DEF JobPlace, TypeInv, JobTo
    <2>3. aborted'[c] => aborted[c] /\ job'[c].pc \in Abortable
      BY <1>33, <2>1 DEF JobPlace, TypeInv, JobTo, Jobs, Abortable
    <2> QED
      BY <2>1, <2>2, <2>3, ServeJob
  <1>34. ASSUME NEW c \in Conns, JobPost(c) PROVE ServeInv'
    <2>1. UNCHANGED <<conn, closed, sv, held>>
      BY <1>34 DEF JobPost
    <2>2. \A x \in Conns \ {c} : job'[x] = job[x] /\ aborted'[x] = aborted[x]
      BY <1>34 DEF JobPost, TypeInv, JobEnds
    <2>3. ~aborted'[c]
      BY <1>34 DEF JobPost, TypeInv, JobEnds
    <2> QED
      BY <2>1, <2>2, <2>3, ServeJob
  <1>35. ASSUME NEW c \in Conns, JobCanceled(c) PROVE ServeInv'
    <2>1. UNCHANGED <<conn, closed, sv, held>>
      BY <1>35 DEF JobCanceled
    <2>2. \A x \in Conns \ {c} : job'[x] = job[x] /\ aborted'[x] = aborted[x]
      BY <1>35 DEF JobCanceled, TypeInv, JobEnds
    <2>3. ~aborted'[c]
      BY <1>35 DEF JobCanceled, TypeInv, JobEnds
    <2> QED
      BY <2>1, <2>2, <2>3, ServeJob
  <1>36. ASSUME NEW c \in Conns, Drained(c) PROVE ServeInv'
    <2>1. UNCHANGED <<conn, closed, held, job>>
      BY <1>36 DEF Drained
    <2>2. \A x \in Conns \ {c} : sv'[x] = sv[x] /\ aborted'[x] = aborted[x]
      BY <1>36 DEF Drained, Leave, TypeInv
    <2>3. sv'[c] # "run" /\ (aborted'[c] => job[c].pc \in Abortable)
      BY <1>36 DEF Drained, Leave, TypeInv
    <2>4. ServeAt(c)'
      BY <2>1, <2>3 DEF ServeAt
    <2> QED
      BY <2>1, <2>2, <2>4, ServeMoved
  <1>37. ASSUME NEW c \in Conns, Finalize(c) PROVE ServeInv'
    <2>1. UNCHANGED <<closed, job, aborted>> /\ sv'[c] # "run"
      BY <1>37 DEF Finalize, TypeInv
    <2>2. \A x \in Conns \ {c} : sv'[x] = sv[x] /\ held'[x] = held[x] /\ (conn = x => conn' = x)
      BY <1>37 DEF Finalize, TypeInv
    <2> QED
      BY <2>1, <2>2 DEF ServeInv, ServeAt
  <1>38. ASSUME NEW c \in Conns, ServerBreak(c) PROVE ServeInv'
    <2>1. UNCHANGED <<conn, closed, held, job>>
      BY <1>38 DEF ServerBreak
    <2>2. \A x \in Conns \ {c} : sv'[x] = sv[x] /\ aborted'[x] = aborted[x]
      BY <1>38 DEF ServerBreak, Leave, TypeInv
    <2>3. sv'[c] # "run" /\ (aborted'[c] => job[c].pc \in Abortable)
      BY <1>38 DEF ServerBreak, Leave, TypeInv
    <2>4. ServeAt(c)'
      BY <2>1, <2>3 DEF ServeAt
    <2> QED
      BY <2>1, <2>2, <2>4, ServeMoved
  <1>39. CASE UNCHANGED vars
    BY <1>39, ServeSame DEF vars
  <1> QED
    BY <1>1, <1>2, <1>3, <1>4, <1>5, <1>6, <1>7, <1>8, <1>9, <1>10, <1>11, <1>12,
       <1>13, <1>14, <1>15, <1>16, <1>17, <1>18, <1>19, <1>20, <1>21, <1>22, <1>23, <1>24,
       <1>25, <1>26, <1>27, <1>28, <1>29, <1>30, <1>31, <1>32, <1>33, <1>34, <1>35, <1>36,
       <1>37, <1>38, <1>39
       DEF Next, Environment, Running

-----------------------------------------------------------------------------
(* What the client has to read.                                            *)

Verdicts == {"Done", "Error", "Reject"}

LEMMA RequestTyped ==
  \A n \in Nat : /\ Msg("ReqChsum", n, <<>>) \in Message /\ Msg("ReqChsum", n, <<>>).k = "ReqChsum"
                 /\ Msg("Start", n, <<>>) \in Message /\ Msg("Start", n, <<>>).k = "Start"
                 /\ Msg("Start", n, <<>>).n = n
  <1>1. <<>> \in Seq(Block) /\ "ReqChsum" \in Kinds /\ "Start" \in Kinds
    BY DEF Kinds
  <1> QED
    BY <1>1 DEF Msg, Message

\* Of the verdicts on their way to the client nothing changes.
SameC(c) == /\ \A k \in Verdicts : Has(toC'[c], k) <=> Has(toC[c], k)
            /\ \A k \in Verdicts, K \in SUBSET Verdicts : After(toC[c], k, K) => After(toC'[c], k, K)

LEMMA OtherSent ==
  ASSUME TypeInv, NEW c \in Conns, NEW m \in Message, m.k \notin Verdicts, SendC(c, <<m>>)
  PROVE  SameC(c)
  <1>1. CASE cl[c] = "run"
    <2>1. toC[c] \in Seq(Message) /\ toC'[c] = Append(toC[c], m)
      BY <1>1, SendCIs
    <2>2. \A k \in Verdicts : Has(toC'[c], k) <=> Has(toC[c], k)
      BY <2>1, HasAppend
    <2>3. ASSUME NEW k \in Verdicts, NEW K \in SUBSET Verdicts, After(toC[c], k, K)
          PROVE  After(toC'[c], k, K)
      BY <2>1, <2>3, AfterAppend
    <2> QED
      BY <2>2, <2>3 DEF SameC
  <1>2. CASE cl[c] # "run"
    BY <1>2, SendCIs DEF SameC
  <1> QED
    BY <1>1, <1>2

LEMMA OtherRead ==
  ASSUME TypeInv, NEW c \in Conns, NEW k0, GotC(c, k0), k0 \notin Verdicts, TakeC(c)
  PROVE  SameC(c)
  <1>1. /\ toC[c] \in Seq(Message) /\ toC[c] # <<>> /\ toC'[c] = Tail(toC[c])
        /\ Head(toC[c]).k = k0
    BY DEF TypeInv, GotC, TakeC
  <1>2. \A k \in Verdicts : Has(toC'[c], k) <=> Has(toC[c], k)
    BY <1>1, HasTail
  <1>3. ASSUME NEW k \in Verdicts, NEW K \in SUBSET Verdicts, After(toC[c], k, K)
        PROVE  After(toC'[c], k, K)
    BY <1>1, <1>3, AfterTail
  <1> QED
    BY <1>2, <1>3 DEF SameC

LEMMA SameSame ==
  ASSUME NEW c, toC'[c] = toC[c]
  PROVE  SameC(c)
  BY DEF SameC

\* The steps in which the wire to the client changes and no verdict on it.
LEMMA QuietSteps ==
  ASSUME TypeInv, FileInv, NEW c \in Conns
  PROVE  /\ RecvReqChsum(c) => SameC(c)
         /\ RecvStart(c) => SameC(c)
         /\ RecvCancelC(c) => SameC(c)
         /\ JobInit(c) => SameC(c)
         /\ JobStart(c) => SameC(c)
         /\ ApiCancel => SameC(c)
  <1> USE DEF fixed, sender, client, wire, receiver, server, task, disk
  <1>1. ASSUME RecvReqChsum(c) PROVE SameC(c)
    BY <1>1, OtherRead DEF RecvReqChsum, Verdicts
  <1>2. ASSUME RecvStart(c) PROVE SameC(c)
    BY <1>2, OtherRead DEF RecvStart, Verdicts
  <1>3. ASSUME RecvCancelC(c) PROVE SameC(c)
    BY <1>3, OtherRead DEF RecvCancelC, Verdicts
  <1>4. ASSUME JobInit(c) PROVE SameC(c)
    <2>1. CASE toC' = toC
      BY <2>1, SameSame
    <2>2. CASE toC' # toC
      <3>1. tmp # NoIno /\ SendC(c, <<Msg("ReqChsum", Len(ino[tmp]), <<>>)>>)
        BY <1>4, <2>2 DEF JobInit, InitV2, InitV4
      <3>2. ino[tmp] \in Seq(Block)
        BY <3>1 DEF TypeInv
      <3>3. Len(ino[tmp]) \in Nat
        BY <3>2
      <3>4. PICK m \in Message : m.k = "ReqChsum" /\ SendC(c, <<m>>)
        BY <3>1, <3>3, RequestTyped
      <3> QED
        BY <3>4, OtherSent DEF Verdicts
    <2> QED
      BY <2>1, <2>2
  <1>5. ASSUME JobStart(c) PROVE SameC(c)
    <2>1. CASE toC' = toC
      BY <2>1, SameSame
    <2>2. CASE toC' # toC
      <3>1. SendC(c, <<Msg("Start", job[c].offset, <<>>)>>)
        BY <1>5, <2>2 DEF JobStart
      <3>2. job[c].offset \in Nat
        BY DEF TypeInv, Jobs
      <3>3. PICK m \in Message : m.k = "Start" /\ SendC(c, <<m>>)
        BY <3>1, <3>2, RequestTyped
      <3> QED
        BY <3>3, OtherSent DEF Verdicts
    <2> QED
      BY <2>1, <2>2
  <1>6. ASSUME ApiCancel PROVE SameC(c)
    <2>1. CASE Live /\ conn = c
      <3>1. SendC(c, <<Note("Close")>>)
        BY <1>6, <2>1 DEF ApiCancel
      <3>2. Note("Close") \in Message /\ Note("Close").k = "Close"
        BY NoteTyped DEF Kinds
      <3> QED
        BY <3>1, <3>2, OtherSent DEF Verdicts
    <2>2. CASE ~Live
      BY <1>6, <2>2, SameSame DEF ApiCancel
    <2>3. CASE Live /\ conn # c
      <3>1. toC'[c] = toC[c]
        BY <1>6, <2>3 DEF ApiCancel, SendC, TypeInv, Live
      <3> QED
        BY <3>1, SameSame
    <2> QED
      BY <2>1, <2>2, <2>3
  <1> QED
    BY <1>1, <1>2, <1>3, <1>4, <1>5, <1>6

\* What a new connection has to read first.
LEMMA FirstRead ==
  ASSUME TypeInv, ConnInv, NEW c \in Conns, Connect(c)
  PROVE  /\ \A k \in Verdicts : Has(toC'[c], k) =>
              \/ k = "Done" /\ rstat = "Completed"
              \/ k = "Error" /\ rstat = "Failed"
              \/ k = "Reject" /\ rstat = "Rejected"
         /\ rstat = "Rejected" /\ ver = "v6" => Has(toC'[c], "Reject")
  <1>1. toC[c] = <<>> /\ cl[c] = "off" /\ sv[c] = "off"
    BY DEF Connect, Fresh, ConnInv, Blank
  <1>2. CASE ver = "v2"
    <2>1. toC'[c] = <<>>
      BY <1>1, <1>2 DEF Connect, UpgradeV2
    <2> QED
      BY <1>2, <2>1, NothingSaid
  <1>3. CASE ver # "v2"
    <2> DEFINE q == Msg("ReqChsum", size, <<>>)
    <2>1. q \in Message /\ q.k = "ReqChsum"
      <3>1. size \in Nat
        BY DEF TypeInv
      <3> QED
        BY <3>1, RequestTyped
    <2> HIDE DEF q
    <2>2. toC'[c] = PendingC \/ toC'[c] = Append(PendingC, q)
      BY <1>3 DEF Connect, UpgradeV4, TypeInv, q
    <2>3. /\ PendingC \in Seq(Message)
          /\ \A k \in Verdicts : Has(PendingC, k) =>
               \/ k = "Done" /\ rstat = "Completed"
               \/ k = "Error" /\ rstat = "Failed"
               \/ k = "Reject" /\ rstat = "Rejected"
          /\ rstat = "Rejected" /\ ver = "v6" => Has(PendingC, "Reject")
      <3>1. /\ Note("Done") \in Message /\ Note("Done").k = "Done"
            /\ Note("Error") \in Message /\ Note("Error").k = "Error"
            /\ Note("Reject").k = "Reject"
        BY NoteTyped DEF Kinds
      <3>2. CASE rstat = "Completed"
        BY <3>1, <3>2, OneSaid DEF PendingC
      <3>3. CASE rstat = "Failed"
        BY <3>1, <3>3, OneSaid DEF PendingC
      <3>4. CASE rstat = "Rejected"
        <4>1. PendingC = <<RejectMsg>>
          BY <3>4 DEF PendingC
        <4>2. ver = "v6" => RejectMsg.k = "Reject"
          BY <3>1 DEF RejectMsg
        <4> QED
          BY <3>4, <4>1, <4>2, RejectMessage, OneSaid DEF Verdicts
      <3>5. CASE rstat \notin {"Completed", "Failed", "Rejected"}
        <4>1. PendingC = <<>>
          BY <3>5 DEF PendingC
        <4> QED
          BY <3>5, <4>1, NothingSaid
      <3> QED
        BY <3>2, <3>3, <3>4, <3>5
    <2>4. ASSUME NEW k \in Verdicts PROVE Has(toC'[c], k) <=> Has(PendingC, k)
      <3>1. Has(Append(PendingC, q), k) <=> (Has(PendingC, k) \/ q.k = k)
        BY <2>1, <2>3, HasAppend
      <3>2. q.k # k
        BY <2>1 DEF Verdicts
      <3> QED
        BY <2>2, <3>1, <3>2
    <2> QED
      BY <2>3, <2>4 DEF Verdicts
  <1> QED
    BY <1>2, <1>3

-----------------------------------------------------------------------------
(* Completed.                                                              *)

LEMMA PlaceMoved ==
  ASSUME PlaceInv, Lasting, NEW c \in Conns, Local(c),
         rstat' = "Completed" => rstat = "Completed" \/ dest' # {},
         sstat' = "Completed" => sstat = "Completed" \/ (rstat' \in Ended /\ dest' # {}),
         Has(toC'[c], "Done") => Has(toC[c], "Done") \/ (rstat' \in Ended /\ dest' # {}),
         job'[c].pc = "ok" => job[c].pc = "ok" \/ dest' # {}
  PROVE  PlaceInv'
  <1>0. dest # {} => dest' # {}
    BY DEF Lasting
  <1>1. ASSUME NEW x \in Conns PROVE DoneAt(x)'
    <2>1. DoneAt(x)
      BY DEF PlaceInv
    <2>2. CASE x = c
      BY <1>0, <2>1, <2>2 DEF DoneAt, Lasting
    <2>3. CASE x # c
      BY <1>0, <2>1, <2>3 DEF DoneAt, Lasting, Local
    <2> QED
      BY <2>2, <2>3
  <1> QED
    BY <1>0, <1>1 DEF PlaceInv, Lasting

LEMMA PlaceKept ==
  ASSUME PlaceInv, Lasting, \A x \in Conns : SameC(x),
         rstat' = "Completed" => rstat = "Completed",
         sstat' = "Completed" => sstat = "Completed",
         \A x \in Conns : job'[x].pc = "ok" => job[x].pc = "ok"
  PROVE  PlaceInv'
  <1>1. ASSUME NEW x \in Conns PROVE DoneAt(x)'
    <2>1. DoneAt(x) /\ (Has(toC'[x], "Done") => Has(toC[x], "Done")) /\ "Done" \in Verdicts
      BY DEF PlaceInv, SameC, Verdicts
    <2> QED
      BY <2>1 DEF DoneAt, Lasting
  <1> QED
    BY <1>1 DEF PlaceInv, Lasting

LEMMA PlaceInit == Init => PlaceInv
  <1> SUFFICES ASSUME Init PROVE PlaceInv
    OBVIOUS
  <1>1. \A x \in Conns : toC[x] = <<>> /\ job[x].pc = "none"
    BY Constructors DEF Init
  <1> QED
    BY <1>1, NothingSaid DEF Init, PlaceInv, DoneAt

LEMMA PlaceStep == TypeInv /\ ConnInv /\ FileInv /\ ServeInv /\ PlaceInv /\ [Next]_vars => PlaceInv'
  <1> SUFFICES ASSUME TypeInv, ConnInv, FileInv, ServeInv, PlaceInv, [Next]_vars PROVE PlaceInv'
    OBVIOUS
  <1> USE DEF fixed, sender, client, wire, receiver, server, task, disk
  <1>0. Lasting
    BY VerdictsLast
  <1>1. CASE ApiDownload
    <2>1. \A x \in Conns : SameC(x)
      BY <1>1, SameSame DEF ApiDownload
    <2>2. \A x \in Conns : job'[x].pc = "ok" => job[x].pc = "ok"
      <3>1. \A x \in Conns : job'[x] = job[x] \/ job'[x] = [job[x] EXCEPT !.pc = "load"]
        BY <1>1 DEF ApiDownload, TypeInv
      <3> QED
        BY <3>1 DEF TypeInv, Jobs
    <2> QED
      BY <1>1, <1>0, <2>1, <2>2, PlaceKept DEF ApiDownload
  <1>2. CASE Modify
    <2>1. \A x \in Conns : SameC(x)
      BY <1>2, SameSame DEF Modify
    <2> QED
      BY <1>2, <1>0, <2>1, PlaceKept DEF Modify
  <1>3. CASE ApiSenderReject
    <2>1. \A x \in Conns : SameC(x)
      BY <1>3, SameSame DEF ApiSenderReject
    <2> QED
      BY <1>3, <1>0, <2>1, PlaceKept DEF ApiSenderReject
  <1>4. CASE ApiReject
    <2>1. CASE Live
      <3>1. PICK c \in Conns : c = conn
        BY <2>1 DEF Live, TypeInv
      <3>2. /\ SendC(c, <<RejectMsg>>) /\ StopTask(c) /\ rstat' = "Rejected"
            /\ UNCHANGED <<cl, sv, job, upload, toS, chunks, sstat>>
        BY <1>4, <2>1, <3>1 DEF ApiReject
      <3>3. Has(toC'[c], "Done") => Has(toC[c], "Done")
        BY <3>2, RejectMessage, SendCIs, HasAppend
      <3>4. Local(c)
        BY <3>2 DEF Local, SendC, StopTask, TypeInv
      <3> QED
        BY <1>0, <3>2, <3>3, <3>4, PlaceMoved
    <2>2. CASE ~Live
      <3>1. \A x \in Conns : SameC(x)
        BY <1>4, <2>2, SameSame DEF ApiReject
      <3> QED
        BY <1>4, <1>0, <3>1, PlaceKept DEF ApiReject
    <2> QED
      BY <2>1, <2>2
  <1>5. CASE ApiCancel
    <2>1. \A x \in Conns : SameC(x)
      BY <1>5, QuietSteps
    <2> QED
      BY <1>5, <1>0, <2>1, PlaceKept DEF ApiCancel
  <1>6. CASE Crash
    <2>1. \A x \in Conns : SameC(x)
      BY <1>6, SameSame DEF Crash
    <2>2. \A x \in Conns : job'[x].pc # "ok"
      BY <1>6, Constructors DEF Crash
    <2> QED
      BY <1>6, <1>0, <2>1, <2>2, PlaceKept DEF Crash
  <1>7. CASE SaveChecksum
    <2>1. \A x \in Conns : SameC(x)
      BY <1>7, SameSame DEF SaveChecksum
    <2> QED
      BY <1>7, <1>0, <2>1, PlaceKept DEF SaveChecksum
  <1>8. ASSUME NEW c \in Conns, Connect(c) PROVE PlaceInv'
    <2>1. Local(c) /\ rstat' = rstat /\ sstat' = sstat
      BY <1>8, LocalSteps DEF Connect
    <2>2. Has(toC'[c], "Done") => rstat = "Completed"
      BY <1>8, FirstRead DEF Verdicts
    <2>3. job'[c].pc = "ok" => job[c].pc = "ok"
      BY <1>8 DEF Connect, TypeInv, Jobs
    <2>4. rstat = "Completed" => rstat' \in Ended /\ dest' # {}
      BY <1>0, <2>1 DEF PlaceInv, Lasting, Ended
    <2> QED
      BY <1>0, <2>1, <2>2, <2>3, <2>4, PlaceMoved
  <1>9. ASSUME NEW c \in Conns, ConnectClosed(c) PROVE PlaceInv'
    <2>1. Local(c) /\ UNCHANGED <<rstat, sstat, job>> /\ toC'[c] = <<Note("Close")>>
      BY <1>9, LocalSteps DEF ConnectClosed, TypeInv
    <2>2. ~Has(toC'[c], "Done")
      <3>1. Note("Close") \in Message /\ Note("Close").k = "Close"
        BY NoteTyped DEF Kinds
      <3> QED
        BY <2>1, <3>1, OneSaid
    <2> QED
      BY <1>0, <2>1, <2>2, PlaceMoved
  <1>10. ASSUME NEW c \in Conns, RecvReqChsum(c) PROVE PlaceInv'
    <2>1. SameC(c) /\ Local(c)
      BY <1>10, QuietSteps, LocalSteps
    <2>2. job'[c].pc = "ok" => job[c].pc = "ok"
      BY <1>10 DEF RecvReqChsum
    <2>3. (rstat' = "Completed" => rstat = "Completed") /\ (sstat' = "Completed" => sstat = "Completed")
      BY <1>10 DEF RecvReqChsum
    <2> QED
      BY <1>0, <2>1, <2>2, <2>3, PlaceMoved DEF SameC, Verdicts
  <1>11. ASSUME NEW c \in Conns, ReportChsum(c) PROVE PlaceInv'
    <2>1. SameC(c) /\ Local(c)
      BY <1>11, SameSame, LocalSteps DEF ReportChsum
    <2>2. job'[c].pc = "ok" => job[c].pc = "ok"
      BY <1>11 DEF ReportChsum
    <2>3. (rstat' = "Completed" => rstat = "Completed") /\ (sstat' = "Completed" => sstat = "Completed")
      BY <1>11 DEF ReportChsum
    <2> QED
      BY <1>0, <2>1, <2>2, <2>3, PlaceMoved DEF SameC, Verdicts
  <1>12. ASSUME NEW c \in Conns, RecvStart(c) PROVE PlaceInv'
    <2>1. SameC(c) /\ Local(c)
      BY <1>12, QuietSteps, LocalSteps
    <2>2. job'[c].pc = "ok" => job[c].pc = "ok"
      BY <1>12 DEF RecvStart
    <2>3. (rstat' = "Completed" => rstat = "Completed") /\ (sstat' = "Completed" => sstat = "Completed")
      BY <1>12 DEF RecvStart
    <2> QED
      BY <1>0, <2>1, <2>2, <2>3, PlaceMoved DEF SameC, Verdicts
  <1>13. ASSUME NEW c \in Conns, UploadOpen(c) PROVE PlaceInv'
    <2>1. SameC(c) /\ Local(c)
      BY <1>13, SameSame, LocalSteps DEF UploadOpen
    <2>2. job'[c].pc = "ok" => job[c].pc = "ok"
      BY <1>13 DEF UploadOpen
    <2>3. (rstat' = "Completed" => rstat = "Completed") /\ (sstat' = "Completed" => sstat = "Completed")
      BY <1>13 DEF UploadOpen
    <2> QED
      BY <1>0, <2>1, <2>2, <2>3, PlaceMoved DEF SameC, Verdicts
  <1>14. ASSUME NEW c \in Conns, UploadChunk(c) PROVE PlaceInv'
    <2>1. SameC(c) /\ Local(c)
      BY <1>14, SameSame, LocalSteps DEF UploadChunk
    <2>2. job'[c].pc = "ok" => job[c].pc = "ok"
      BY <1>14 DEF UploadChunk
    <2>3. (rstat' = "Completed" => rstat = "Completed") /\ (sstat' = "Completed" => sstat = "Completed")
      BY <1>14 DEF UploadChunk
    <2> QED
      BY <1>0, <2>1, <2>2, <2>3, PlaceMoved DEF SameC, Verdicts
  <1>15. ASSUME NEW c \in Conns, UploadDone(c) PROVE PlaceInv'
    <2>1. SameC(c) /\ Local(c)
      BY <1>15, SameSame, LocalSteps DEF UploadDone
    <2>2. job'[c].pc = "ok" => job[c].pc = "ok"
      BY <1>15 DEF UploadDone
    <2>3. (rstat' = "Completed" => rstat = "Completed") /\ (sstat' = "Completed" => sstat = "Completed")
      BY <1>15 DEF UploadDone
    <2> QED
      BY <1>0, <2>1, <2>2, <2>3, PlaceMoved DEF SameC, Verdicts
  <1>16. ASSUME NEW c \in Conns, UploadFail(c) PROVE PlaceInv'
    <2>1. SameC(c) /\ Local(c)
      BY <1>16, SameSame, LocalSteps DEF UploadFail
    <2>2. job'[c].pc = "ok" => job[c].pc = "ok"
      BY <1>16 DEF UploadFail
    <2>3. (rstat' = "Completed" => rstat = "Completed") /\ (sstat' = "Completed" => sstat = "Completed")
      BY <1>16 DEF UploadFail
    <2> QED
      BY <1>0, <2>1, <2>2, <2>3, PlaceMoved DEF SameC, Verdicts
  <1>17. ASSUME NEW c \in Conns, RecvVerdict(c) PROVE PlaceInv'
    <2>1. Local(c) /\ UNCHANGED <<rstat, job>>
      BY <1>17, LocalSteps DEF RecvVerdict
    <2>2. PICK k \in {"Done", "Error", "Reject"} :
            GotC(c, k) /\ TakeC(c) /\ sstat' = IF sstat = "Alive" THEN VerdictOf(k) ELSE sstat
      BY <1>17 DEF RecvVerdict
    <2>3. /\ toC[c] \in Seq(Message) /\ toC[c] # <<>> /\ toC'[c] = Tail(toC[c])
          /\ Head(toC[c]).k = k
      BY <2>2 DEF TypeInv, GotC, TakeC
    <2>4. (Has(toC'[c], "Done") => Has(toC[c], "Done")) /\ (k = "Done" => Has(toC[c], "Done"))
      BY <2>3, HasTail
    <2>5. sstat' = "Completed" => sstat = "Completed" \/ k = "Done"
      BY <2>2 DEF VerdictOf
    <2>6. Has(toC[c], "Done") => rstat' \in Ended /\ dest' # {}
      BY <1>0, <2>1 DEF PlaceInv, DoneAt, Lasting
    <2> QED
      BY <1>0, <2>1, <2>4, <2>5, <2>6, PlaceMoved
  <1>18. ASSUME NEW c \in Conns, RecvCancelC(c) PROVE PlaceInv'
    <2>1. SameC(c) /\ Local(c)
      BY <1>18, QuietSteps, LocalSteps
    <2>2. job'[c].pc = "ok" => job[c].pc = "ok"
      BY <1>18 DEF RecvCancelC
    <2>3. (rstat' = "Completed" => rstat = "Completed") /\ (sstat' = "Completed" => sstat = "Completed")
      BY <1>18 DEF RecvCancelC
    <2> QED
      BY <1>0, <2>1, <2>2, <2>3, PlaceMoved DEF SameC, Verdicts
  <1>19. ASSUME NEW c \in Conns, RecvClose(c) PROVE PlaceInv'
    <2>1. Local(c) /\ UNCHANGED <<rstat, sstat, job>> /\ toC'[c] = <<>>
      BY <1>19, LocalSteps DEF RecvClose, ClientEnds, TypeInv
    <2> QED
      BY <1>0, <2>1, NothingSaid, PlaceMoved
  <1>20. ASSUME NEW c \in Conns, ClientBreak(c) PROVE PlaceInv'
    <2>1. Local(c) /\ UNCHANGED <<rstat, sstat, job>> /\ toC'[c] = <<>>
      BY <1>20, LocalSteps DEF ClientBreak, ClientEnds, TypeInv
    <2> QED
      BY <1>0, <2>1, NothingSaid, PlaceMoved
  <1>21. ASSUME NEW c \in Conns, RecvChunk(c) PROVE PlaceInv'
    <2>1. Local(c) /\ UNCHANGED <<rstat, sstat, job>>
      BY <1>21, LocalSteps DEF RecvChunk
    <2>2. Has(toC'[c], "Done") => Has(toC[c], "Done")
      <3>1. Note("Error") \in Message /\ Note("Error").k = "Error"
        BY NoteTyped DEF Kinds
      <3>2. toC' = toC \/ SendC(c, <<Note("Error")>>)
        BY <1>21 DEF RecvChunk
      <3> QED
        BY <3>1, <3>2, SendCIs, HasAppend
    <2> QED
      BY <1>0, <2>1, <2>2, PlaceMoved
  <1>22. ASSUME NEW c \in Conns, RecvReportChsum(c) PROVE PlaceInv'
    <2>1. SameC(c) /\ Local(c)
      BY <1>22, SameSame, LocalSteps DEF RecvReportChsum
    <2>2. job'[c].pc = "ok" => job[c].pc = "ok"
      BY <1>22 DEF RecvReportChsum
    <2>3. (rstat' = "Completed" => rstat = "Completed") /\ (sstat' = "Completed" => sstat = "Completed")
      BY <1>22 DEF RecvReportChsum
    <2> QED
      BY <1>0, <2>1, <2>2, <2>3, PlaceMoved DEF SameC, Verdicts
  <1>23. ASSUME NEW c \in Conns, RecvError(c) PROVE PlaceInv'
    <2>1. SameC(c) /\ Local(c)
      BY <1>23, SameSame, LocalSteps DEF RecvError
    <2>2. job'[c].pc = "ok" => job[c].pc = "ok"
      BY <1>23 DEF RecvError
    <2>3. (rstat' = "Completed" => rstat = "Completed") /\ (sstat' = "Completed" => sstat = "Completed")
      BY <1>23 DEF RecvError
    <2> QED
      BY <1>0, <2>1, <2>2, <2>3, PlaceMoved DEF SameC, Verdicts
  <1>24. ASSUME NEW c \in Conns, RecvReject(c) PROVE PlaceInv'
    <2>1. SameC(c) /\ Local(c)
      BY <1>24, SameSame, LocalSteps DEF RecvReject
    <2>2. job'[c].pc = "ok" => job[c].pc = "ok"
      BY <1>24 DEF RecvReject
    <2>3. (rstat' = "Completed" => rstat = "Completed") /\ (sstat' = "Completed" => sstat = "Completed")
      BY <1>24 DEF RecvReject
    <2> QED
      BY <1>0, <2>1, <2>2, <2>3, PlaceMoved DEF SameC, Verdicts
  <1>25. ASSUME NEW c \in Conns, RecvCancel(c) PROVE PlaceInv'
    <2>1. SameC(c) /\ Local(c)
      BY <1>25, SameSame, LocalSteps DEF RecvCancel
    <2>2. job'[c].pc = "ok" => job[c].pc = "ok"
      BY <1>25 DEF RecvCancel
    <2>3. (rstat' = "Completed" => rstat = "Completed") /\ (sstat' = "Completed" => sstat = "Completed")
      BY <1>25 DEF RecvCancel
    <2> QED
      BY <1>0, <2>1, <2>2, <2>3, PlaceMoved DEF SameC, Verdicts
  <1>26. ASSUME NEW c \in Conns, JobInit(c) PROVE PlaceInv'
    <2>0. job[c] \in Jobs
      BY DEF TypeInv
    <2>1. SameC(c) /\ Local(c)
      BY <1>26, QuietSteps, LocalSteps
    <2>2. job'[c].pc = "ok" => job[c].pc = "ok"
      BY <1>26, <2>0 DEF JobInit, TypeInv, Jobs, InitV2, InitV4
    <2>3. (rstat' = "Completed" => rstat = "Completed") /\ (sstat' = "Completed" => sstat = "Completed")
      BY <1>26 DEF JobInit
    <2> QED
      BY <1>0, <2>1, <2>2, <2>3, PlaceMoved DEF SameC, Verdicts
  <1>27. ASSUME NEW c \in Conns, JobPartial(c) PROVE PlaceInv'
    <2>0. job[c] \in Jobs
      BY DEF TypeInv
    <2>1. SameC(c) /\ Local(c)
      BY <1>27, SameSame, LocalSteps DEF JobPartial
    <2>2. job'[c].pc = "ok" => job[c].pc = "ok"
      BY <1>27, <2>0 DEF JobPartial, TypeInv, Jobs
    <2>3. (rstat' = "Completed" => rstat = "Completed") /\ (sstat' = "Completed" => sstat = "Completed")
      BY <1>27 DEF JobPartial
    <2> QED
      BY <1>0, <2>1, <2>2, <2>3, PlaceMoved DEF SameC, Verdicts
  <1>28. ASSUME NEW c \in Conns, JobFull(c) PROVE PlaceInv'
    <2>0. job[c] \in Jobs
      BY DEF TypeInv
    <2>1. SameC(c) /\ Local(c)
      BY <1>28, SameSame, LocalSteps DEF JobFull
    <2>2. job'[c].pc = "ok" => job[c].pc = "ok"
      BY <1>28, <2>0 DEF JobFull, TypeInv, Jobs
    <2>3. (rstat' = "Completed" => rstat = "Completed") /\ (sstat' = "Completed" => sstat = "Completed")
      BY <1>28 DEF JobFull
    <2> QED
      BY <1>0, <2>1, <2>2, <2>3, PlaceMoved DEF SameC, Verdicts
  <1>29. ASSUME NEW c \in Conns, JobStart(c) PROVE PlaceInv'
    <2>1. SameC(c) /\ Local(c)
      BY <1>29, QuietSteps, LocalSteps
    <2>2. job'[c].pc = "ok" => job[c].pc = "ok"
      BY <1>29, JobGoesOn
    <2>3. (rstat' = "Completed" => rstat = "Completed") /\ (sstat' = "Completed" => sstat = "Completed")
      BY <1>29 DEF JobStart
    <2> QED
      BY <1>0, <2>1, <2>2, <2>3, PlaceMoved DEF SameC, Verdicts
  <1>30. ASSUME NEW c \in Conns, JobChunk(c) PROVE PlaceInv'
    <2>1. SameC(c) /\ Local(c)
      BY <1>30, SameSame, LocalSteps DEF JobChunk
    <2>2. job'[c].pc = "ok" => job[c].pc = "ok"
      BY <1>30, JobGoesOn
    <2>3. (rstat' = "Completed" => rstat = "Completed") /\ (sstat' = "Completed" => sstat = "Completed")
      BY <1>30 DEF JobChunk
    <2> QED
      BY <1>0, <2>1, <2>2, <2>3, PlaceMoved DEF SameC, Verdicts
  <1>31. ASSUME NEW c \in Conns, JobReceived(c) PROVE PlaceInv'
    <2>0. job[c] \in Jobs
      BY DEF TypeInv
    <2>1. SameC(c) /\ Local(c)
      BY <1>31, SameSame, LocalSteps DEF JobReceived
    <2>2. job'[c].pc = "ok" => job[c].pc = "ok"
      BY <1>31, <2>0 DEF JobReceived, TypeInv, Jobs, JobTo
    <2>3. (rstat' = "Completed" => rstat = "Completed") /\ (sstat' = "Completed" => sstat = "Completed")
      BY <1>31 DEF JobReceived
    <2> QED
      BY <1>0, <2>1, <2>2, <2>3, PlaceMoved DEF SameC, Verdicts
  <1>32. ASSUME NEW c \in Conns, JobValidate(c) PROVE PlaceInv'
    <2>0. job[c] \in Jobs
      BY DEF TypeInv
    <2>1. SameC(c) /\ Local(c)
      BY <1>32, SameSame, LocalSteps DEF JobValidate
    <2>2. job'[c].pc = "ok" => job[c].pc = "ok"
      BY <1>32, <2>0 DEF JobValidate, TypeInv, Jobs, JobTo
    <2>3. (rstat' = "Completed" => rstat = "Completed") /\ (sstat' = "Completed" => sstat = "Completed")
      BY <1>32 DEF JobValidate
    <2> QED
      BY <1>0, <2>1, <2>2, <2>3, PlaceMoved DEF SameC, Verdicts
  <1>33. ASSUME NEW c \in Conns, JobPlace(c) PROVE PlaceInv'
    <2>0. job[c] \in Jobs
      BY DEF TypeInv
    <2>1. Local(c) /\ UNCHANGED <<rstat, sstat, toC>>
      BY <1>33, LocalSteps DEF JobPlace
    <2>2. job'[c].pc = "ok" => dest' # {}
      <3>1. CASE tmp = NoIno
        <4>1. job'[c] = [job[c] EXCEPT !.pc = "bad"]
          BY <1>33, <3>1 DEF JobPlace, JobTo, TypeInv
        <4> QED
          BY <2>0, <4>1 DEF Jobs
      <3>2. CASE tmp # NoIno
        BY <1>33, <3>2 DEF JobPlace
      <3> QED
        BY <3>1, <3>2
    <2> QED
      BY <1>0, <2>1, <2>2, PlaceMoved
  <1>34. ASSUME NEW c \in Conns, JobPost(c) PROVE PlaceInv'
    <2>1. Local(c) /\ UNCHANGED <<sstat, dest>> /\ job'[c].pc = "end"
      BY <1>34, LocalSteps, Constructors DEF JobPost, JobEnds, TypeInv
    <2>2. job[c].pc = "ok" => dest' # {}
      BY <2>1 DEF PlaceInv, DoneAt
    <2>3. rstat' = "Completed" => rstat = "Completed" \/ dest' # {}
      BY <1>34, <2>2 DEF JobPost, JobAt
    <2>4. Has(toC'[c], "Done") => Has(toC[c], "Done") \/ (rstat' \in Ended /\ dest' # {})
      <3>1. CASE toC' = toC
        BY <3>1
      <3>2. CASE job[c].pc = "ok" /\ sv[c] = "run"
        BY <1>34, <2>2, <3>2 DEF JobPost, JobAt, ServeInv, ServeAt, Ended
      <3>3. CASE toC' # toC /\ job[c].pc # "ok"
        <4>1. Note("Error") \in Message /\ Note("Error").k = "Error"
          BY NoteTyped DEF Kinds
        <4>2. SendC(c, <<Note("Error")>>)
          BY <1>34, <3>3 DEF JobPost, JobAt
        <4> QED
          BY <4>1, <4>2, SendCIs, HasAppend
      <3> QED
        BY <1>34, <3>1, <3>2, <3>3 DEF JobPost
    <2> QED
      BY <1>0, <2>1, <2>3, <2>4, PlaceMoved
  <1>35. ASSUME NEW c \in Conns, JobCanceled(c) PROVE PlaceInv'
    <2>1. Local(c) /\ UNCHANGED <<rstat, sstat, toC>> /\ job'[c].pc = "end"
      BY <1>35, LocalSteps, Constructors DEF JobCanceled, JobEnds, TypeInv
    <2> QED
      BY <1>0, <2>1, PlaceMoved
  <1>36. ASSUME NEW c \in Conns, Drained(c) PROVE PlaceInv'
    <2>1. SameC(c) /\ Local(c)
      BY <1>36, SameSame, LocalSteps DEF Drained
    <2>2. job'[c].pc = "ok" => job[c].pc = "ok"
      BY <1>36 DEF Drained
    <2>3. (rstat' = "Completed" => rstat = "Completed") /\ (sstat' = "Completed" => sstat = "Completed")
      BY <1>36 DEF Drained
    <2> QED
      BY <1>0, <2>1, <2>2, <2>3, PlaceMoved DEF SameC, Verdicts
  <1>37. ASSUME NEW c \in Conns, Finalize(c) PROVE PlaceInv'
    <2>1. SameC(c) /\ Local(c)
      BY <1>37, SameSame, LocalSteps DEF Finalize
    <2>2. job'[c].pc = "ok" => job[c].pc = "ok"
      BY <1>37 DEF Finalize
    <2>3. (rstat' = "Completed" => rstat = "Completed") /\ (sstat' = "Completed" => sstat = "Completed")
      BY <1>37 DEF Finalize
    <2> QED
      BY <1>0, <2>1, <2>2, <2>3, PlaceMoved DEF SameC, Verdicts
  <1>38. ASSUME NEW c \in Conns, ServerBreak(c) PROVE PlaceInv'
    <2>1. SameC(c) /\ Local(c)
      BY <1>38, SameSame, LocalSteps DEF ServerBreak
    <2>2. job'[c].pc = "ok" => job[c].pc = "ok"
      BY <1>38 DEF ServerBreak
    <2>3. (rstat' = "Completed" => rstat = "Completed") /\ (sstat' = "Completed" => sstat = "Completed")
      BY <1>38 DEF ServerBreak
    <2> QED
      BY <1>0, <2>1, <2>2, <2>3, PlaceMoved DEF SameC, Verdicts
  <1>39. CASE UNCHANGED vars
    <2>1. \A x \in Conns : SameC(x)
      BY <1>39, SameSame DEF vars
    <2> QED
      BY <1>39, <1>0, <2>1, PlaceKept DEF vars
  <1> QED
    BY <1>1, <1>2, <1>3, <1>4, <1>5, <1>6, <1>7, <1>8, <1>9, <1>10, <1>11, <1>12,
       <1>13, <1>14, <1>15, <1>16, <1>17, <1>18, <1>19, <1>20, <1>21, <1>22, <1>23, <1>24,
       <1>25, <1>26, <1>27, <1>28, <1>29, <1>30, <1>31, <1>32, <1>33, <1>34, <1>35, <1>36,
       <1>37, <1>38, <1>39
       DEF Next, Environment, Running

-----------------------------------------------------------------------------
(* What the server has to read.                                            *)

\* A Reject is sent by a sender that rejected the file, an Error by one that has a verdict
\* or whose upload finds the file changed.
SaidS(x) ==
  /\ Has(toS'[x], "Reject") => Has(toS[x], "Reject") \/ sstat' = "Rejected"
  /\ Has(toS'[x], "Error") => \/ Has(toS[x], "Error") \/ sstat # "Alive"
                              \/ \E c \in Conns : upload[c].pc = "read" /\ ~ReadOk(c)

LEMMA SaidSent ==
  ASSUME TypeInv, NEW c \in Conns, NEW m \in Message, SendS(c, <<m>>),
         m.k = "Reject" => sstat' = "Rejected",
         m.k = "Error" => \/ sstat # "Alive"
                          \/ \E x \in Conns : upload[x].pc = "read" /\ ~ReadOk(x)
  PROVE  SaidS(c)
  <1>1. toS[c] \in Seq(Message) /\ (toS'[c] = toS[c] \/ toS'[c] = Append(toS[c], m))
    BY SendSIs
  <1>2. \A k : Has(Append(toS[c], m), k) <=> (Has(toS[c], k) \/ m.k = k)
    BY <1>1, HasAppend
  <1> QED
    BY <1>1, <1>2 DEF SaidS

LEMMA SaidTaken ==
  ASSUME TypeInv, NEW c \in Conns, NEW k0, GotS(c, k0), TakeS(c)
  PROVE  SaidS(c) /\ Has(toS[c], k0)
  <1>1. /\ toS[c] \in Seq(Message) /\ toS[c] # <<>> /\ toS'[c] = Tail(toS[c])
        /\ Head(toS[c]).k = k0
    BY DEF TypeInv, GotS, TakeS
  <1>2. \A k : Has(toS[c], k) <=> (Has(Tail(toS[c]), k) \/ Head(toS[c]).k = k)
    BY <1>1, HasTail
  <1> QED
    BY <1>1, <1>2 DEF SaidS

LEMMA SaidLess ==
  ASSUME NEW x, toS'[x] = toS[x] \/ toS'[x] = <<>>
  PROVE  SaidS(x)
  BY NothingSaid DEF SaidS

LEMMA SaidLocal ==
  ASSUME NEW c \in Conns, Local(c), SaidS(c)
  PROVE  \A x \in Conns : SaidS(x)
  BY SaidLess DEF Local

LEMMA ChunkTyped ==
  ASSUME TypeInv, NEW c \in Conns, UploadChunk(c)
  PROVE  \E m : /\ m.k = "Chunk" /\ SendS(c, <<m>>) /\ m \in Message
                /\ m.d = [i \in 1 .. Readable(c) |-> <<src.mtime, upload[c].pos + i>>]
  <1> DEFINE n == Readable(c)
             d == [i \in 1 .. n |-> <<src.mtime, upload[c].pos + i>>]
  <1>1. n \in Nat
    BY ReadableIs
  <1>2. upload[c].pos \in Nat /\ src.mtime \in Nat
    BY DEF TypeInv, Uploads, Source
  <1> HIDE DEF n
  <1>3. d \in [1 .. n -> Block]
    BY <1>1, <1>2 DEF Block
  <1> HIDE DEF d
  <1>4. d \in Seq(Block)
    BY <1>1, <1>3, SeqOf
  <1>5. /\ Msg("Chunk", n, d) \in Message /\ Msg("Chunk", n, d).k = "Chunk"
        /\ Msg("Chunk", n, d).d = d
    BY <1>1, <1>4 DEF Msg, Message, Kinds
  <1>6. SendS(c, <<Msg("Chunk", n, d)>>)
    BY DEF UploadChunk, n, d
  <1>7. d = [i \in 1 .. Readable(c) |-> <<src.mtime, upload[c].pos + i>>]
    BY DEF d, n
  <1> QED
    BY <1>5, <1>6, <1>7

LEMMA SaidStep == TypeInv /\ [Next]_vars => (\A x \in Conns : SaidS(x))
  <1> SUFFICES ASSUME TypeInv, [Next]_vars PROVE (\A x \in Conns : SaidS(x))
    OBVIOUS
  <1> USE DEF fixed, sender, client, wire, receiver, server, task, disk
  <1>1. CASE ApiDownload
    BY <1>1, SaidLess DEF ApiDownload
  <1>2. CASE Modify
    BY <1>2, SaidLess DEF Modify
  <1>3. CASE ApiSenderReject
    <2>1. ASSUME NEW x \in Conns PROVE SaidS(x)
      <3>1. toS[x] \in Seq(Message) /\ (toS'[x] = toS[x] \/ toS'[x] = Append(toS[x], RejectMsg))
        BY <1>3 DEF ApiSenderReject, TypeInv
      <3>2. \A k : Has(Append(toS[x], RejectMsg), k) <=> (Has(toS[x], k) \/ RejectMsg.k = k)
        BY <3>1, RejectMessage, HasAppend
      <3> QED
        BY <1>3, <3>1, <3>2, RejectMessage DEF ApiSenderReject, SaidS
    <2> QED
      BY <2>1
  <1>4. CASE ApiReject
    BY <1>4, SaidLess DEF ApiReject
  <1>5. CASE ApiCancel
    BY <1>5, SaidLess DEF ApiCancel
  <1>6. CASE Crash
    BY <1>6, SaidLess DEF Crash
  <1>7. CASE SaveChecksum
    BY <1>7, SaidLess DEF SaveChecksum
  <1>8. ASSUME NEW c \in Conns, Connect(c) PROVE (\A x \in Conns : SaidS(x))
    <2>1. Local(c) /\ toS'[c] = PendingS /\ sstat' = sstat
      BY <1>8, LocalSteps DEF Connect, TypeInv
    <2>2. Note("Error") \in Message /\ Note("Error").k = "Error"
      BY NoteTyped DEF Kinds
    <2>3. CASE sstat = "Rejected"
      BY <2>1, <2>3, RejectMessage, OneSaid, SaidLocal DEF PendingS, SaidS
    <2>4. CASE sstat = "Failed"
      BY <2>1, <2>2, <2>4, OneSaid, SaidLocal DEF PendingS, SaidS
    <2>5. CASE sstat \notin {"Rejected", "Failed"}
      <3>1. PendingS = <<>>
        BY <2>5 DEF PendingS
      <3> QED
        BY <2>1, <3>1, SaidLess, SaidLocal
    <2> QED
      BY <2>3, <2>4, <2>5
  <1>9. ASSUME NEW c \in Conns, ConnectClosed(c) PROVE (\A x \in Conns : SaidS(x))
    BY <1>9, SaidLess DEF ConnectClosed
  <1>10. ASSUME NEW c \in Conns, RecvReqChsum(c) PROVE (\A x \in Conns : SaidS(x))
    BY <1>10, SaidLess DEF RecvReqChsum
  <1>11. ASSUME NEW c \in Conns, ReportChsum(c) PROVE (\A x \in Conns : SaidS(x))
    <2>1. Local(c)
      BY <1>11, LocalSteps
    <2>2. PICK t \in sums[c] : IF sstat = "Alive"
                              THEN \E b \in Checksums(t) : SendS(c, <<Msg("ReportChsum", t.limit, b)>>)
                              ELSE SendS(c, <<Note("Error")>>)
      BY <1>11 DEF ReportChsum
    <2>3. Note("Error") \in Message /\ Note("Error").k = "Error"
      BY NoteTyped DEF Kinds
    <2>4. CASE sstat = "Alive"
      <3>1. PICK b \in Checksums(t) : SendS(c, <<Msg("ReportChsum", t.limit, b)>>)
        BY <2>2, <2>4
      <3>2. t \in [limit : Nat, seen : Source]
        BY DEF TypeInv
      <3>3. b \in Seq(Block) /\ t.limit \in Nat
        BY <3>2, ChecksumsTyped
      <3>4. Msg("ReportChsum", t.limit, b) \in Message /\ Msg("ReportChsum", t.limit, b).k = "ReportChsum"
        BY <3>3 DEF Msg, Message, Kinds
      <3> QED
        BY <2>1, <3>1, <3>4, SaidSent, SaidLocal
    <2>5. CASE sstat # "Alive"
      BY <2>1, <2>2, <2>3, <2>5, SaidSent, SaidLocal
    <2> QED
      BY <2>4, <2>5
  <1>12. ASSUME NEW c \in Conns, RecvStart(c) PROVE (\A x \in Conns : SaidS(x))
    <2>1. Local(c)
      BY <1>12, LocalSteps
    <2>2. toS' = toS \/ (sstat # "Alive" /\ SendS(c, <<Note("Error")>>))
      BY <1>12 DEF RecvStart, OnStart, OnDownload
    <2>3. Note("Error") \in Message /\ Note("Error").k = "Error"
      BY NoteTyped DEF Kinds
    <2> QED
      BY <2>1, <2>2, <2>3, SaidSent, SaidLess, SaidLocal
  <1>13. ASSUME NEW c \in Conns, UploadOpen(c) PROVE (\A x \in Conns : SaidS(x))
    BY <1>13, SaidLess DEF UploadOpen
  <1>14. ASSUME NEW c \in Conns, UploadChunk(c) PROVE (\A x \in Conns : SaidS(x))
    <2>1. Local(c) /\ upload[c].pc = "read"
      BY <1>14, LocalSteps DEF UploadChunk
    <2>2. PICK m : m.k = "Chunk" /\ SendS(c, <<m>>) /\ m \in Message
      BY <1>14, ChunkTyped
    <2> QED
      BY <2>1, <2>2, SaidSent, SaidLocal
  <1>15. ASSUME NEW c \in Conns, UploadDone(c) PROVE (\A x \in Conns : SaidS(x))
    BY <1>15, SaidLess DEF UploadDone
  <1>16. ASSUME NEW c \in Conns, UploadFail(c) PROVE (\A x \in Conns : SaidS(x))
    <2>1. Local(c) /\ upload[c].pc = "read" /\ ~ReadOk(c) /\ SendS(c, <<Note("Error")>>)
      BY <1>16, LocalSteps DEF UploadFail
    <2>2. Note("Error") \in Message /\ Note("Error").k = "Error"
      BY NoteTyped DEF Kinds
    <2> QED
      BY <2>1, <2>2, SaidSent, SaidLocal
  <1>17. ASSUME NEW c \in Conns, RecvVerdict(c) PROVE (\A x \in Conns : SaidS(x))
    BY <1>17, SaidLess DEF RecvVerdict
  <1>18. ASSUME NEW c \in Conns, RecvCancelC(c) PROVE (\A x \in Conns : SaidS(x))
    BY <1>18, SaidLess DEF RecvCancelC
  <1>19. ASSUME NEW c \in Conns, RecvClose(c) PROVE (\A x \in Conns : SaidS(x))
    BY <1>19, SaidLess DEF RecvClose
  <1>20. ASSUME NEW c \in Conns, ClientBreak(c) PROVE (\A x \in Conns : SaidS(x))
    BY <1>20, SaidLess DEF ClientBreak
  <1>21. ASSUME NEW c \in Conns, RecvChunk(c) PROVE (\A x \in Conns : SaidS(x))
    <2>1. Local(c) /\ SaidS(c)
      BY <1>21, LocalSteps, SaidTaken DEF RecvChunk
    <2> QED
      BY <2>1, SaidLocal
  <1>22. ASSUME NEW c \in Conns, RecvReportChsum(c) PROVE (\A x \in Conns : SaidS(x))
    <2>1. Local(c) /\ SaidS(c)
      BY <1>22, LocalSteps, SaidTaken DEF RecvReportChsum
    <2> QED
      BY <2>1, SaidLocal
  <1>23. ASSUME NEW c \in Conns, RecvError(c) PROVE (\A x \in Conns : SaidS(x))
    <2>1. Local(c) /\ SaidS(c)
      BY <1>23, LocalSteps, SaidTaken DEF RecvError
    <2> QED
      BY <2>1, SaidLocal
  <1>24. ASSUME NEW c \in Conns, RecvReject(c) PROVE (\A x \in Conns : SaidS(x))
    <2>1. Local(c) /\ SaidS(c)
      BY <1>24, LocalSteps, SaidTaken DEF RecvReject
    <2> QED
      BY <2>1, SaidLocal
  <1>25. ASSUME NEW c \in Conns, RecvCancel(c) PROVE (\A x \in Conns : SaidS(x))
    <2>1. Local(c) /\ SaidS(c)
      BY <1>25, LocalSteps, SaidTaken DEF RecvCancel
    <2> QED
      BY <2>1, SaidLocal
  <1>26. ASSUME NEW c \in Conns, JobInit(c) PROVE (\A x \in Conns : SaidS(x))
    BY <1>26, SaidLess DEF JobInit
  <1>27. ASSUME NEW c \in Conns, JobPartial(c) PROVE (\A x \in Conns : SaidS(x))
    BY <1>27, SaidLess DEF JobPartial
  <1>28. ASSUME NEW c \in Conns, JobFull(c) PROVE (\A x \in Conns : SaidS(x))
    BY <1>28, SaidLess DEF JobFull
  <1>29. ASSUME NEW c \in Conns, JobStart(c) PROVE (\A x \in Conns : SaidS(x))
    BY <1>29, SaidLess DEF JobStart
  <1>30. ASSUME NEW c \in Conns, JobChunk(c) PROVE (\A x \in Conns : SaidS(x))
    BY <1>30, SaidLess DEF JobChunk
  <1>31. ASSUME NEW c \in Conns, JobReceived(c) PROVE (\A x \in Conns : SaidS(x))
    BY <1>31, SaidLess DEF JobReceived
  <1>32. ASSUME NEW c \in Conns, JobValidate(c) PROVE (\A x \in Conns : SaidS(x))
    BY <1>32, SaidLess DEF JobValidate
  <1>33. ASSUME NEW c \in Conns, JobPlace(c) PROVE (\A x \in Conns : SaidS(x))
    BY <1>33, SaidLess DEF JobPlace
  <1>34. ASSUME NEW c \in Conns, JobPost(c) PROVE (\A x \in Conns : SaidS(x))
    BY <1>34, SaidLess DEF JobPost
  <1>35. ASSUME NEW c \in Conns, JobCanceled(c) PROVE (\A x \in Conns : SaidS(x))
    BY <1>35, SaidLess DEF JobCanceled
  <1>36. ASSUME NEW c \in Conns, Drained(c) PROVE (\A x \in Conns : SaidS(x))
    <2>1. Local(c) /\ toS'[c] = <<>>
      BY <1>36, LocalSteps DEF Drained, Leave, TypeInv
    <2> QED
      BY <2>1, SaidLess, SaidLocal
  <1>37. ASSUME NEW c \in Conns, Finalize(c) PROVE (\A x \in Conns : SaidS(x))
    BY <1>37, SaidLess DEF Finalize
  <1>38. ASSUME NEW c \in Conns, ServerBreak(c) PROVE (\A x \in Conns : SaidS(x))
    <2>1. Local(c) /\ toS'[c] = <<>>
      BY <1>38, LocalSteps DEF ServerBreak, Leave, TypeInv
    <2> QED
      BY <2>1, SaidLess, SaidLocal
  <1>39. CASE UNCHANGED vars
    BY <1>39, SaidLess DEF vars
  <1> QED
    BY <1>1, <1>2, <1>3, <1>4, <1>5, <1>6, <1>7, <1>8, <1>9, <1>10, <1>11, <1>12,
       <1>13, <1>14, <1>15, <1>16, <1>17, <1>18, <1>19, <1>20, <1>21, <1>22, <1>23, <1>24,
       <1>25, <1>26, <1>27, <1>28, <1>29, <1>30, <1>31, <1>32, <1>33, <1>34, <1>35, <1>36,
       <1>37, <1>38, <1>39
       DEF Next, Environment, Running

-----------------------------------------------------------------------------
(* Rejected.                                                               *)

LEMMA RefusedKept ==
  ASSUME NEW c, RefusedAt(c), Lasting, SameC(c),
         sv'[c] = "run" /\ cl'[c] = "run" => sv[c] = "run" /\ cl[c] = "run"
  PROVE  RefusedAt(c)'
  <1>1. "Done" \in Verdicts /\ "Reject" \in Verdicts /\ {"Reject", "Error"} \in SUBSET Verdicts
    BY DEF Verdicts
  <1>2. After(toC[c], "Done", {"Reject", "Error"}) => After(toC'[c], "Done", {"Reject", "Error"})
    BY <1>1 DEF SameC
  <1>3. Has(toC[c], "Reject") => Has(toC'[c], "Reject")
    BY <1>1 DEF SameC
  <1> QED
    BY <1>2, <1>3 DEF RefusedAt, Lasting

\* A step of c.
LEMMA RefuseMoved ==
  ASSUME RefuseInv, Lasting, \A x \in Conns : SaidS(x), NEW c \in Conns, Local(c),
         rstat' = "Rejected" => rstat = "Rejected",
         sstat' = "Completed" => sstat = "Completed" \/ ver # "v6" \/ rstat # "Rejected",
         ver = "v6" /\ rstat = "Rejected" /\ RefusedAt(c) => RefusedAt(c)'
  PROVE  RefuseInv'
  <1> SUFFICES ASSUME ver = "v6" PROVE RefuseInv'
    BY DEF RefuseInv, Lasting
  <1>1. ASSUME NEW x \in Conns, Has(toS'[x], "Reject") PROVE sstat' = "Rejected"
    BY <1>1 DEF SaidS, RefuseInv, Lasting
  <1>2. ASSUME rstat' = "Rejected" PROVE sstat' # "Completed" /\ \A x \in Conns : RefusedAt(x)'
    <2>1. sstat' # "Completed" /\ \A x \in Conns : RefusedAt(x)
      BY <1>2 DEF RefuseInv
    <2>2. RefusedAt(c)'
      BY <1>2, <2>1
    <2>3. ASSUME NEW x \in Conns, x # c PROVE RefusedAt(x)'
      <3>1. SameC(x) /\ sv'[x] = sv[x] /\ cl'[x] = cl[x]
        BY <2>3, SameSame DEF Local
      <3> QED
        BY <2>1, <3>1, RefusedKept
    <2> QED
      BY <2>1, <2>2, <2>3
  <1> QED
    BY <1>1, <1>2 DEF RefuseInv

\* A step that leaves the verdicts on their way to the client alone.
LEMMA RefuseSame ==
  ASSUME RefuseInv, Lasting, \A x \in Conns : SaidS(x) /\ SameC(x),
         rstat' = "Rejected" => rstat = "Rejected",
         sstat' = "Completed" => sstat = "Completed",
         \A x \in Conns : sv'[x] = "run" /\ cl'[x] = "run" => sv[x] = "run" /\ cl[x] = "run"
  PROVE  RefuseInv'
  <1> SUFFICES ASSUME ver = "v6" PROVE RefuseInv'
    BY DEF RefuseInv, Lasting
  <1>1. ASSUME NEW x \in Conns, Has(toS'[x], "Reject") PROVE sstat' = "Rejected"
    BY <1>1 DEF SaidS, RefuseInv, Lasting
  <1>2. ASSUME rstat' = "Rejected" PROVE sstat' # "Completed" /\ \A x \in Conns : RefusedAt(x)'
    BY <1>2, RefusedKept DEF RefuseInv
  <1> QED
    BY <1>1, <1>2 DEF RefuseInv

\* The sender has a verdict of its own.
LEMMA RefuseVerdict ==
  ASSUME RefuseInv, Lasting, \A x \in Conns : SaidS(x), sstat' \in {"Failed", "Rejected"}
  PROVE  RefuseInv'
  <1>1. ASSUME ver = "v6", NEW x \in Conns, Has(toS'[x], "Reject") PROVE sstat' = "Rejected"
    BY <1>1 DEF SaidS, RefuseInv, Lasting
  <1> QED
    BY <1>1 DEF RefuseInv, RefusedAt, Lasting

LEMMA RefuseInit == Init => RefuseInv
  <1> SUFFICES ASSUME Init PROVE RefuseInv
    OBVIOUS
  <1>1. (\A x \in Conns : toS[x] = <<>>) /\ rstat = "Idle"
    BY DEF Init
  <1> QED
    BY <1>1, NothingSaid DEF RefuseInv

LEMMA RefuseStep == TypeInv /\ ConnInv /\ FileInv /\ ServeInv /\ PlaceInv /\ RefuseInv /\ [Next]_vars => RefuseInv'
  <1> SUFFICES ASSUME TypeInv, ConnInv, FileInv, ServeInv, PlaceInv, RefuseInv, [Next]_vars PROVE RefuseInv'
    OBVIOUS
  <1> USE DEF fixed, sender, client, wire, receiver, server, task, disk
  <1>0. Lasting /\ \A x \in Conns : SaidS(x)
    BY VerdictsLast, SaidStep
  <1>1. CASE ApiDownload
    <2>1. \A x \in Conns : SameC(x)
      BY <1>1, SameSame DEF ApiDownload
    <2> QED
      BY <1>1, <1>0, <2>1, RefuseSame DEF ApiDownload
  <1>2. CASE Modify
    <2>1. \A x \in Conns : SameC(x)
      BY <1>2, SameSame DEF Modify
    <2> QED
      BY <1>2, <1>0, <2>1, RefuseSame DEF Modify
  <1>3. CASE ApiSenderReject
    BY <1>3, <1>0, RefuseVerdict DEF ApiSenderReject
  <1>4. CASE ApiReject
    <2>1. /\ rstat \notin Ended /\ rstat' = "Rejected" /\ UNCHANGED <<sstat, sv, cl>>
          /\ Live => SendC(conn, <<RejectMsg>>)
          /\ ~Live => toC' = toC
      BY <1>4 DEF ApiReject, Ended
    <2>2. sstat # "Completed" /\ \A x \in Conns : ~Has(toC[x], "Done")
      BY <2>1 DEF PlaceInv, DoneAt
    <2>3. ASSUME ver = "v6", NEW x \in Conns PROVE RefusedAt(x)'
      <3>1. CASE Live /\ conn = x
        <4>1. RejectMsg \in Message /\ RejectMsg.k = "Reject" /\ SendC(x, <<RejectMsg>>)
          BY <2>1, <2>3, <3>1, RejectMessage, NoteTyped DEF RejectMsg, Kinds
        <4>2. toC[x] \in Seq(Message) /\ After(toC[x], "Done", {"Reject", "Error"})
          BY <2>2 DEF Has, After, TypeInv
        <4>3. CASE cl[x] = "run"
          <5>1. toC'[x] = Append(toC[x], RejectMsg)
            BY <4>1, <4>3, SendCIs
          <5>2. Has(toC'[x], "Reject")
            BY <4>1, <4>2, <5>1, HasAppend
          <5>3. After(toC'[x], "Done", {"Reject", "Error"})
            BY <4>1, <4>2, <5>1, AfterAppend
          <5> QED
            BY <5>2, <5>3 DEF RefusedAt
        <4>4. CASE cl[x] # "run"
          <5>1. toC'[x] = toC[x]
            BY <4>1, <4>4, SendCIs
          <5> QED
            BY <2>1, <4>2, <4>4, <5>1 DEF RefusedAt
        <4> QED
          BY <4>3, <4>4
      <3>2. CASE ~(Live /\ conn = x)
        <4>1. toC'[x] = toC[x]
          BY <2>1, <3>2 DEF SendC, TypeInv, Live
        <4>2. sv[x] # "run"
          BY <3>2, Numbers DEF ServeInv, ServeAt, Live
        <4>3. After(toC'[x], "Done", {"Reject", "Error"})
          BY <2>2, <4>1 DEF Has, After
        <4> QED
          BY <2>1, <4>2, <4>3 DEF RefusedAt
      <3> QED
        BY <3>1, <3>2
    <2>4. ASSUME ver = "v6", NEW x \in Conns, Has(toS'[x], "Reject") PROVE sstat' = "Rejected"
      BY <1>0, <2>4 DEF SaidS, RefuseInv, Lasting
    <2> QED
      BY <1>0, <2>1, <2>2, <2>3, <2>4 DEF RefuseInv, Lasting
  <1>5. CASE ApiCancel
    <2>1. \A x \in Conns : SameC(x)
      BY <1>5, QuietSteps
    <2>2. UNCHANGED <<rstat, sstat, cl>> /\ \A x \in Conns : sv'[x] = "run" => sv[x] = "run"
      BY <1>5 DEF ApiCancel, TypeInv
    <2> QED
      BY <1>0, <2>1, <2>2, RefuseSame
  <1>6. CASE Crash
    <2>1. \A x \in Conns : SameC(x) /\ (sv'[x] # "run")
      BY <1>6, SameSame DEF Crash
    <2> QED
      BY <1>6, <1>0, <2>1, RefuseSame DEF Crash
  <1>7. CASE SaveChecksum
    <2>1. \A x \in Conns : SameC(x)
      BY <1>7, SameSame DEF SaveChecksum
    <2> QED
      BY <1>7, <1>0, <2>1, RefuseSame DEF SaveChecksum
  <1>8. ASSUME NEW c \in Conns, Connect(c) PROVE RefuseInv'
    <2>1. Local(c) /\ rstat' = rstat /\ sstat' = sstat
      BY <1>8, LocalSteps DEF Connect
    <2>2. rstat = "Rejected" /\ ver = "v6" => ~Has(toC'[c], "Done") /\ Has(toC'[c], "Reject")
      BY <1>8, FirstRead DEF Verdicts
    <2>3. ver = "v6" /\ rstat = "Rejected" => RefusedAt(c)'
      BY <2>2 DEF RefusedAt, Has, After
    <2> QED
      BY <1>0, <2>1, <2>3, RefuseMoved
  <1>9. ASSUME NEW c \in Conns, ConnectClosed(c) PROVE RefuseInv'
    <2>1. /\ Local(c) /\ UNCHANGED <<rstat, sstat>> /\ toC'[c] = <<Note("Close")>>
          /\ sv'[c] = "drain"
      BY <1>9, LocalSteps DEF ConnectClosed, TypeInv
    <2>2. After(toC'[c], "Done", {"Reject", "Error"})
      <3>1. Note("Close") \in Message /\ Note("Close").k = "Close"
        BY NoteTyped DEF Kinds
      <3> QED
        BY <2>1, <3>1, OneSaid
    <2>3. RefusedAt(c)'
      BY <2>1, <2>2 DEF RefusedAt
    <2> QED
      BY <1>0, <2>1, <2>3, RefuseMoved
  <1>10. ASSUME NEW c \in Conns, RecvReqChsum(c) PROVE RefuseInv'
    <2>1. SameC(c) /\ Local(c)
      BY <1>10, QuietSteps, LocalSteps
    <2>2. /\ (rstat' = "Rejected" => rstat = "Rejected") /\ sstat' = sstat
          /\ sv'[c] = "run" /\ cl'[c] = "run" => sv[c] = "run" /\ cl[c] = "run"
      BY <1>10 DEF RecvReqChsum, TypeInv
    <2> QED
      BY <1>0, <2>1, <2>2, RefusedKept, RefuseMoved
  <1>11. ASSUME NEW c \in Conns, ReportChsum(c) PROVE RefuseInv'
    <2>1. SameC(c) /\ Local(c)
      BY <1>11, SameSame, LocalSteps DEF ReportChsum
    <2>2. /\ (rstat' = "Rejected" => rstat = "Rejected") /\ sstat' = sstat
          /\ sv'[c] = "run" /\ cl'[c] = "run" => sv[c] = "run" /\ cl[c] = "run"
      BY <1>11 DEF ReportChsum, TypeInv
    <2> QED
      BY <1>0, <2>1, <2>2, RefusedKept, RefuseMoved
  <1>12. ASSUME NEW c \in Conns, RecvStart(c) PROVE RefuseInv'
    <2>1. SameC(c) /\ Local(c)
      BY <1>12, QuietSteps, LocalSteps
    <2>2. /\ (rstat' = "Rejected" => rstat = "Rejected") /\ sstat' = sstat
          /\ sv'[c] = "run" /\ cl'[c] = "run" => sv[c] = "run" /\ cl[c] = "run"
      BY <1>12 DEF RecvStart, TypeInv
    <2> QED
      BY <1>0, <2>1, <2>2, RefusedKept, RefuseMoved
  <1>13. ASSUME NEW c \in Conns, UploadOpen(c) PROVE RefuseInv'
    <2>1. SameC(c) /\ Local(c)
      BY <1>13, SameSame, LocalSteps DEF UploadOpen
    <2>2. /\ (rstat' = "Rejected" => rstat = "Rejected") /\ sstat' = sstat
          /\ sv'[c] = "run" /\ cl'[c] = "run" => sv[c] = "run" /\ cl[c] = "run"
      BY <1>13 DEF UploadOpen, TypeInv
    <2> QED
      BY <1>0, <2>1, <2>2, RefusedKept, RefuseMoved
  <1>14. ASSUME NEW c \in Conns, UploadChunk(c) PROVE RefuseInv'
    <2>1. SameC(c) /\ Local(c)
      BY <1>14, SameSame, LocalSteps DEF UploadChunk
    <2>2. /\ (rstat' = "Rejected" => rstat = "Rejected") /\ sstat' = sstat
          /\ sv'[c] = "run" /\ cl'[c] = "run" => sv[c] = "run" /\ cl[c] = "run"
      BY <1>14 DEF UploadChunk, TypeInv
    <2> QED
      BY <1>0, <2>1, <2>2, RefusedKept, RefuseMoved
  <1>15. ASSUME NEW c \in Conns, UploadDone(c) PROVE RefuseInv'
    <2>1. SameC(c) /\ Local(c)
      BY <1>15, SameSame, LocalSteps DEF UploadDone
    <2>2. /\ (rstat' = "Rejected" => rstat = "Rejected") /\ sstat' = sstat
          /\ sv'[c] = "run" /\ cl'[c] = "run" => sv[c] = "run" /\ cl[c] = "run"
      BY <1>15 DEF UploadDone, TypeInv
    <2> QED
      BY <1>0, <2>1, <2>2, RefusedKept, RefuseMoved
  <1>16. ASSUME NEW c \in Conns, UploadFail(c) PROVE RefuseInv'
    <2>1. CASE sstat = "Alive"
      BY <1>16, <1>0, <2>1, RefuseVerdict DEF UploadFail
    <2>2. CASE sstat # "Alive"
      <3>1. \A x \in Conns : SameC(x)
        BY <1>16, SameSame DEF UploadFail
      <3> QED
        BY <1>16, <1>0, <2>2, <3>1, RefuseSame DEF UploadFail
    <2> QED
      BY <2>1, <2>2
  <1>17. ASSUME NEW c \in Conns, RecvVerdict(c) PROVE RefuseInv'
    <2>1. Local(c) /\ UNCHANGED rstat
      BY <1>17, LocalSteps DEF RecvVerdict
    <2>2. PICK k \in {"Done", "Error", "Reject"} :
            GotC(c, k) /\ TakeC(c) /\ sstat' = IF sstat = "Alive" THEN VerdictOf(k) ELSE sstat
      BY <1>17 DEF RecvVerdict
    <2>3. /\ toC[c] \in Seq(Message) /\ toC[c] # <<>> /\ toC'[c] = Tail(toC[c])
          /\ Head(toC[c]).k = k
      BY <2>2 DEF TypeInv, GotC, TakeC
    <2>4. sstat' # "Alive"
      BY <2>2 DEF VerdictOf
    <2>5. ASSUME ver = "v6", rstat = "Rejected", sstat = "Alive" PROVE k # "Done"
      <3>1. After(toC[c], "Done", {"Reject", "Error"})
        BY <2>5 DEF RefuseInv, RefusedAt
      <3> QED
        BY <2>3, <3>1, AfterTail
    <2>6. sstat' = "Completed" => sstat = "Completed" \/ ver # "v6" \/ rstat # "Rejected"
      BY <2>2, <2>5 DEF VerdictOf
    <2>7. RefusedAt(c)'
      BY <2>4 DEF RefusedAt
    <2> QED
      BY <1>0, <2>1, <2>6, <2>7, RefuseMoved
  <1>18. ASSUME NEW c \in Conns, RecvCancelC(c) PROVE RefuseInv'
    <2>1. SameC(c) /\ Local(c)
      BY <1>18, QuietSteps, LocalSteps
    <2>2. /\ (rstat' = "Rejected" => rstat = "Rejected") /\ sstat' = sstat
          /\ sv'[c] = "run" /\ cl'[c] = "run" => sv[c] = "run" /\ cl[c] = "run"
      BY <1>18 DEF RecvCancelC, TypeInv
    <2> QED
      BY <1>0, <2>1, <2>2, RefusedKept, RefuseMoved
  <1>19. ASSUME NEW c \in Conns, RecvClose(c) PROVE RefuseInv'
    <2>1. /\ Local(c) /\ UNCHANGED <<rstat, sstat>> /\ toC'[c] = <<>>
          /\ cl'[c] # "run"
      BY <1>19, LocalSteps DEF RecvClose, ClientEnds, TypeInv
    <2>2. RefusedAt(c)'
      BY <2>1, NothingSaid DEF RefusedAt
    <2> QED
      BY <1>0, <2>1, <2>2, RefuseMoved
  <1>20. ASSUME NEW c \in Conns, ClientBreak(c) PROVE RefuseInv'
    <2>1. /\ Local(c) /\ UNCHANGED <<rstat, sstat>> /\ toC'[c] = <<>>
          /\ cl'[c] # "run"
      BY <1>20, LocalSteps DEF ClientBreak, ClientEnds, TypeInv
    <2>2. RefusedAt(c)'
      BY <2>1, NothingSaid DEF RefusedAt
    <2> QED
      BY <1>0, <2>1, <2>2, RefuseMoved
  <1>21. ASSUME NEW c \in Conns, RecvChunk(c) PROVE RefuseInv'
    <2>1. Local(c) /\ UNCHANGED <<rstat, sstat, sv, cl>>
      BY <1>21, LocalSteps DEF RecvChunk
    <2>2. toC' = toC \/ SendC(c, <<Note("Error")>>)
      BY <1>21 DEF RecvChunk
    <2>3. Note("Error") \in Message /\ Note("Error").k = "Error"
      BY NoteTyped DEF Kinds
    <2>4. ASSUME RefusedAt(c) PROVE RefusedAt(c)'
      <3>1. CASE toC'[c] = toC[c]
        BY <2>1, <2>4, <3>1 DEF RefusedAt
      <3>2. CASE toC'[c] # toC[c]
        <4>1. toC[c] \in Seq(Message) /\ toC'[c] = Append(toC[c], Note("Error"))
          BY <2>2, <2>3, <3>2, SendCIs
        <4>2. Has(toC[c], "Reject") => Has(toC'[c], "Reject")
          BY <2>3, <4>1, HasAppend
        <4>3. After(toC[c], "Done", {"Reject", "Error"}) => After(toC'[c], "Done", {"Reject", "Error"})
          BY <2>3, <4>1, AfterAppend
        <4> QED
          BY <2>1, <2>4, <4>2, <4>3 DEF RefusedAt
      <3> QED
        BY <3>1, <3>2
    <2> QED
      BY <1>0, <2>1, <2>4, RefuseMoved
  <1>22. ASSUME NEW c \in Conns, RecvReportChsum(c) PROVE RefuseInv'
    <2>1. SameC(c) /\ Local(c)
      BY <1>22, SameSame, LocalSteps DEF RecvReportChsum
    <2>2. /\ (rstat' = "Rejected" => rstat = "Rejected") /\ sstat' = sstat
          /\ sv'[c] = "run" /\ cl'[c] = "run" => sv[c] = "run" /\ cl[c] = "run"
      BY <1>22 DEF RecvReportChsum, TypeInv
    <2> QED
      BY <1>0, <2>1, <2>2, RefusedKept, RefuseMoved
  <1>23. ASSUME NEW c \in Conns, RecvError(c) PROVE RefuseInv'
    <2>1. SameC(c) /\ Local(c)
      BY <1>23, SameSame, LocalSteps DEF RecvError
    <2>2. /\ (rstat' = "Rejected" => rstat = "Rejected") /\ sstat' = sstat
          /\ sv'[c] = "run" /\ cl'[c] = "run" => sv[c] = "run" /\ cl[c] = "run"
      BY <1>23 DEF RecvError, TypeInv
    <2> QED
      BY <1>0, <2>1, <2>2, RefusedKept, RefuseMoved
  <1>24. ASSUME NEW c \in Conns, RecvReject(c) PROVE RefuseInv'
    <2>1. Has(toS[c], "Reject") /\ sstat' = sstat
      BY <1>24, SaidTaken DEF RecvReject
    <2>2. CASE ver = "v6"
      BY <1>0, <2>1, <2>2, RefuseVerdict DEF RefuseInv
    <2>3. CASE ver # "v6"
      BY <1>0, <2>3 DEF RefuseInv, Lasting
    <2> QED
      BY <2>2, <2>3
  <1>25. ASSUME NEW c \in Conns, RecvCancel(c) PROVE RefuseInv'
    <2>1. SameC(c) /\ Local(c)
      BY <1>25, SameSame, LocalSteps DEF RecvCancel
    <2>2. /\ (rstat' = "Rejected" => rstat = "Rejected") /\ sstat' = sstat
          /\ sv'[c] = "run" /\ cl'[c] = "run" => sv[c] = "run" /\ cl[c] = "run"
      BY <1>25 DEF RecvCancel, TypeInv
    <2> QED
      BY <1>0, <2>1, <2>2, RefusedKept, RefuseMoved
  <1>26. ASSUME NEW c \in Conns, JobInit(c) PROVE RefuseInv'
    <2>1. SameC(c) /\ Local(c)
      BY <1>26, QuietSteps, LocalSteps
    <2>2. /\ (rstat' = "Rejected" => rstat = "Rejected") /\ sstat' = sstat
          /\ sv'[c] = "run" /\ cl'[c] = "run" => sv[c] = "run" /\ cl[c] = "run"
      BY <1>26 DEF JobInit, TypeInv
    <2> QED
      BY <1>0, <2>1, <2>2, RefusedKept, RefuseMoved
  <1>27. ASSUME NEW c \in Conns, JobPartial(c) PROVE RefuseInv'
    <2>1. SameC(c) /\ Local(c)
      BY <1>27, SameSame, LocalSteps DEF JobPartial
    <2>2. /\ (rstat' = "Rejected" => rstat = "Rejected") /\ sstat' = sstat
          /\ sv'[c] = "run" /\ cl'[c] = "run" => sv[c] = "run" /\ cl[c] = "run"
      BY <1>27 DEF JobPartial, TypeInv
    <2> QED
      BY <1>0, <2>1, <2>2, RefusedKept, RefuseMoved
  <1>28. ASSUME NEW c \in Conns, JobFull(c) PROVE RefuseInv'
    <2>1. SameC(c) /\ Local(c)
      BY <1>28, SameSame, LocalSteps DEF JobFull
    <2>2. /\ (rstat' = "Rejected" => rstat = "Rejected") /\ sstat' = sstat
          /\ sv'[c] = "run" /\ cl'[c] = "run" => sv[c] = "run" /\ cl[c] = "run"
      BY <1>28 DEF JobFull, TypeInv
    <2> QED
      BY <1>0, <2>1, <2>2, RefusedKept, RefuseMoved
  <1>29. ASSUME NEW c \in Conns, JobStart(c) PROVE RefuseInv'
    <2>1. SameC(c) /\ Local(c)
      BY <1>29, QuietSteps, LocalSteps
    <2>2. /\ (rstat' = "Rejected" => rstat = "Rejected") /\ sstat' = sstat
          /\ sv'[c] = "run" /\ cl'[c] = "run" => sv[c] = "run" /\ cl[c] = "run"
      BY <1>29 DEF JobStart, TypeInv
    <2> QED
      BY <1>0, <2>1, <2>2, RefusedKept, RefuseMoved
  <1>30. ASSUME NEW c \in Conns, JobChunk(c) PROVE RefuseInv'
    <2>1. SameC(c) /\ Local(c)
      BY <1>30, SameSame, LocalSteps DEF JobChunk
    <2>2. /\ (rstat' = "Rejected" => rstat = "Rejected") /\ sstat' = sstat
          /\ sv'[c] = "run" /\ cl'[c] = "run" => sv[c] = "run" /\ cl[c] = "run"
      BY <1>30 DEF JobChunk, TypeInv
    <2> QED
      BY <1>0, <2>1, <2>2, RefusedKept, RefuseMoved
  <1>31. ASSUME NEW c \in Conns, JobReceived(c) PROVE RefuseInv'
    <2>1. SameC(c) /\ Local(c)
      BY <1>31, SameSame, LocalSteps DEF JobReceived
    <2>2. /\ (rstat' = "Rejected" => rstat = "Rejected") /\ sstat' = sstat
          /\ sv'[c] = "run" /\ cl'[c] = "run" => sv[c] = "run" /\ cl[c] = "run"
      BY <1>31 DEF JobReceived, TypeInv
    <2> QED
      BY <1>0, <2>1, <2>2, RefusedKept, RefuseMoved
  <1>32. ASSUME NEW c \in Conns, JobValidate(c) PROVE RefuseInv'
    <2>1. SameC(c) /\ Local(c)
      BY <1>32, SameSame, LocalSteps DEF JobValidate
    <2>2. /\ (rstat' = "Rejected" => rstat = "Rejected") /\ sstat' = sstat
          /\ sv'[c] = "run" /\ cl'[c] = "run" => sv[c] = "run" /\ cl[c] = "run"
      BY <1>32 DEF JobValidate, TypeInv
    <2> QED
      BY <1>0, <2>1, <2>2, RefusedKept, RefuseMoved
  <1>33. ASSUME NEW c \in Conns, JobPlace(c) PROVE RefuseInv'
    <2>1. SameC(c) /\ Local(c)
      BY <1>33, SameSame, LocalSteps DEF JobPlace
    <2>2. /\ (rstat' = "Rejected" => rstat = "Rejected") /\ sstat' = sstat
          /\ sv'[c] = "run" /\ cl'[c] = "run" => sv[c] = "run" /\ cl[c] = "run"
      BY <1>33 DEF JobPlace, TypeInv
    <2> QED
      BY <1>0, <2>1, <2>2, RefusedKept, RefuseMoved
  <1>34. ASSUME NEW c \in Conns, JobPost(c) PROVE RefuseInv'
    <2>1. Local(c) /\ UNCHANGED <<sstat, sv, cl>>
      BY <1>34, LocalSteps DEF JobPost
    <2>2. rstat' = "Rejected" => rstat = "Rejected"
      BY <1>34 DEF JobPost
    <2>3. /\ Note("Error") \in Message /\ Note("Error").k = "Error"
          /\ Note("Done") \in Message /\ Note("Done").k = "Done"
      BY NoteTyped DEF Kinds
    <2>4. PICK m \in Message : toC' = toC \/ (sv[c] = "run" /\ SendC(c, <<m>>))
      BY <1>34, <2>3 DEF JobPost
    <2>5. ASSUME RefusedAt(c) PROVE RefusedAt(c)'
      <3>1. CASE toC'[c] = toC[c]
        BY <2>1, <2>5, <3>1 DEF RefusedAt
      <3>2. CASE toC'[c] # toC[c]
        <4>1. /\ toC[c] \in Seq(Message) /\ sv[c] = "run" /\ cl[c] = "run"
              /\ toC'[c] = Append(toC[c], m)
          BY <2>4, <3>2, SendCIs
        <4>2. Has(toC[c], "Reject") => Has(toC'[c], "Reject")
          BY <4>1, HasAppend
        <4>3. After(toC[c], "Done", {"Reject", "Error"}) /\ Has(toC[c], "Reject") =>
                After(toC'[c], "Done", {"Reject", "Error"})
          BY <4>1, AfterAppend
        <4> QED
          BY <2>1, <2>5, <4>1, <4>2, <4>3 DEF RefusedAt
      <3> QED
        BY <3>1, <3>2
    <2> QED
      BY <1>0, <2>1, <2>2, <2>5, RefuseMoved
  <1>35. ASSUME NEW c \in Conns, JobCanceled(c) PROVE RefuseInv'
    <2>1. SameC(c) /\ Local(c)
      BY <1>35, SameSame, LocalSteps DEF JobCanceled
    <2>2. /\ (rstat' = "Rejected" => rstat = "Rejected") /\ sstat' = sstat
          /\ sv'[c] = "run" /\ cl'[c] = "run" => sv[c] = "run" /\ cl[c] = "run"
      BY <1>35 DEF JobCanceled, TypeInv
    <2> QED
      BY <1>0, <2>1, <2>2, RefusedKept, RefuseMoved
  <1>36. ASSUME NEW c \in Conns, Drained(c) PROVE RefuseInv'
    <2>1. SameC(c) /\ Local(c)
      BY <1>36, SameSame, LocalSteps DEF Drained
    <2>2. /\ (rstat' = "Rejected" => rstat = "Rejected") /\ sstat' = sstat
          /\ sv'[c] = "run" /\ cl'[c] = "run" => sv[c] = "run" /\ cl[c] = "run"
      BY <1>36 DEF Drained, TypeInv, Leave
    <2> QED
      BY <1>0, <2>1, <2>2, RefusedKept, RefuseMoved
  <1>37. ASSUME NEW c \in Conns, Finalize(c) PROVE RefuseInv'
    <2>1. SameC(c) /\ Local(c)
      BY <1>37, SameSame, LocalSteps DEF Finalize
    <2>2. /\ (rstat' = "Rejected" => rstat = "Rejected") /\ sstat' = sstat
          /\ sv'[c] = "run" /\ cl'[c] = "run" => sv[c] = "run" /\ cl[c] = "run"
      BY <1>37 DEF Finalize, TypeInv
    <2> QED
      BY <1>0, <2>1, <2>2, RefusedKept, RefuseMoved
  <1>38. ASSUME NEW c \in Conns, ServerBreak(c) PROVE RefuseInv'
    <2>1. SameC(c) /\ Local(c)
      BY <1>38, SameSame, LocalSteps DEF ServerBreak
    <2>2. /\ (rstat' = "Rejected" => rstat = "Rejected") /\ sstat' = sstat
          /\ sv'[c] = "run" /\ cl'[c] = "run" => sv[c] = "run" /\ cl[c] = "run"
      BY <1>38 DEF ServerBreak, TypeInv, Leave
    <2> QED
      BY <1>0, <2>1, <2>2, RefusedKept, RefuseMoved
  <1>39. CASE UNCHANGED vars
    <2>1. \A x \in Conns : SameC(x)
      BY <1>39, SameSame DEF vars
    <2> QED
      BY <1>39, <1>0, <2>1, RefuseSame DEF vars
  <1> QED
    BY <1>1, <1>2, <1>3, <1>4, <1>5, <1>6, <1>7, <1>8, <1>9, <1>10, <1>11, <1>12,
       <1>13, <1>14, <1>15, <1>16, <1>17, <1>18, <1>19, <1>20, <1>21, <1>22, <1>23, <1>24,
       <1>25, <1>26, <1>27, <1>28, <1>29, <1>30, <1>31, <1>32, <1>33, <1>34, <1>35, <1>36,
       <1>37, <1>38, <1>39
       DEF Next, Environment, Running

-----------------------------------------------------------------------------
(* A file that was not touched.                                            *)

LEMMA TrueNothing == TrueC(<<>>) /\ TrueS(<<>>) /\ TrueD(<<>>)
  BY DEF TrueC, TrueS, TrueD

LEMMA TrueAppended ==
  ASSUME NEW s \in Seq(Message), NEW m \in Message
  PROVE  /\ TrueC(s) /\ (m.k = "Start" => m.n <= size) => TrueC(Append(s, m))
         /\ TrueS(s) /\ Truthful(m) => TrueS(Append(s, m))
  <1> DEFINE t == Append(s, m)
  <1>1. /\ Len(s) \in Nat /\ DOMAIN s = 1 .. Len(s) /\ DOMAIN t = 1 .. Len(s) + 1
        /\ \A i \in 1 .. Len(s) : t[i] = s[i]
        /\ t[Len(s) + 1] = m
    BY AppendElements
  <1> HIDE DEF t
  <1>2. \A i \in DOMAIN t : (i \in DOMAIN s /\ t[i] = s[i]) \/ t[i] = m
    BY <1>1
  <1>3. TrueC(s) /\ (m.k = "Start" => m.n <= size) => TrueC(t)
    BY <1>2 DEF TrueC
  <1>4. TrueS(s) /\ Truthful(m) => TrueS(t)
    BY <1>2 DEF TrueS
  <1> QED
    BY <1>3, <1>4 DEF t

LEMMA TrueTaken ==
  ASSUME NEW s \in Seq(Message), s # <<>>
  PROVE  /\ TrueC(s) => TrueC(Tail(s)) /\ (Head(s).k = "Start" => Head(s).n <= size)
         /\ TrueS(s) => TrueS(Tail(s)) /\ Truthful(Head(s))
  <1> DEFINE t == Tail(s)
  <1>1. /\ Len(s) \in Nat /\ Len(s) >= 1 /\ DOMAIN s = 1 .. Len(s) /\ DOMAIN t = 1 .. Len(s) - 1
        /\ \A i \in 1 .. Len(s) - 1 : t[i] = s[i + 1]
        /\ Head(s) = s[1]
    BY TailElements
  <1> HIDE DEF t
  <1>2. 1 \in DOMAIN s /\ \A i \in DOMAIN t : i + 1 \in DOMAIN s /\ t[i] = s[i + 1]
    BY <1>1
  <1>3. TrueC(s) => TrueC(t) /\ (Head(s).k = "Start" => Head(s).n <= size)
    BY <1>1, <1>2 DEF TrueC
  <1>4. TrueS(s) => TrueS(t) /\ Truthful(Head(s))
    BY <1>1, <1>2 DEF TrueS
  <1> QED
    BY <1>3, <1>4 DEF t

LEMMA TrueData ==
  ASSUME NEW s \in Seq(Seq(Block))
  PROVE  /\ \A d \in Seq(Block) : TrueD(s) /\ Within(d) => TrueD(Append(s, d))
         /\ s # <<>> /\ TrueD(s) => TrueD(Tail(s)) /\ Within(Head(s))
  <1>1. ASSUME NEW d \in Seq(Block), TrueD(s), Within(d) PROVE TrueD(Append(s, d))
    <2> DEFINE t == Append(s, d)
    <2>1. /\ Len(s) \in Nat /\ DOMAIN s = 1 .. Len(s) /\ DOMAIN t = 1 .. Len(s) + 1
          /\ \A i \in 1 .. Len(s) : t[i] = s[i]
          /\ t[Len(s) + 1] = d
      BY AppendElements
    <2> HIDE DEF t
    <2>2. \A i \in DOMAIN t : (i \in DOMAIN s /\ t[i] = s[i]) \/ t[i] = d
      BY <2>1
    <2>3. TrueD(t)
      BY <1>1, <2>2 DEF TrueD
    <2> QED
      BY <2>3 DEF t
  <1>2. ASSUME s # <<>>, TrueD(s) PROVE TrueD(Tail(s)) /\ Within(Head(s))
    <2> DEFINE t == Tail(s)
    <2>1. /\ Len(s) \in Nat /\ Len(s) >= 1 /\ DOMAIN s = 1 .. Len(s) /\ DOMAIN t = 1 .. Len(s) - 1
          /\ \A i \in 1 .. Len(s) - 1 : t[i] = s[i + 1]
          /\ Head(s) = s[1]
      BY <1>2, TailElements
    <2> HIDE DEF t
    <2>2. 1 \in DOMAIN s /\ \A i \in DOMAIN t : i + 1 \in DOMAIN s /\ t[i] = s[i + 1]
      BY <2>1
    <2>3. TrueD(t) /\ Within(Head(s))
      BY <1>2, <2>1, <2>2 DEF TrueD
    <2> QED
      BY <2>3 DEF t
  <1> QED
    BY <1>1, <1>2

\* What c has afterwards, as far as it says something of the file.
LEMMA TrueHere ==
  ASSUME NEW c \in Conns, size' = size, src' = src,
         \A t \in sums'[c] : t.seen = src,
         upload'[c].pos <= size, upload'[c].pc = "read" => upload'[c].meta = src,
         TrueC(toC'[c]), TrueS(toS'[c]), TrueD(chunks'[c]), cell'[c] \in {NoSum, Whole}
  PROVE  TrueAt(c)'
  BY DEF TrueAt, TrueC, TrueS, TrueD, Truthful, Within, Whole

\* Nothing is said that was not said before.
KeptTrue(c) == /\ sums'[c] \subseteq sums[c]
               /\ upload'[c] \in {upload[c], NoUpload}
               /\ TrueC(toC[c]) => TrueC(toC'[c])
               /\ TrueS(toS[c]) => TrueS(toS'[c])
               /\ TrueD(chunks[c]) => TrueD(chunks'[c])
               /\ cell'[c] = cell[c]

LEMMA TrueKept ==
  ASSUME TypeInv, NEW c \in Conns, size' = size, src' = src, KeptTrue(c), TrueAt(c)
  PROVE  TrueAt(c)'
  <1>1. NoUpload.pos <= size /\ NoUpload.pc # "read"
    BY Constructors DEF TypeInv
  <1>2. upload'[c].pos <= size /\ (upload'[c].pc = "read" => upload'[c].meta = src)
    BY <1>1 DEF KeptTrue, TrueAt
  <1> QED
    BY <1>2, TrueHere DEF KeptTrue, TrueAt

\* A step of c.
LEMMA TrueMoved ==
  ASSUME TypeInv, TrueInv, Lasting, NEW c \in Conns, Local(c),
         \A x \in Conns \ {c} : sums'[x] = sums[x] /\ cell'[x] = cell[x],
         src.mtime = 0 => dbsum' \in {NoSum, Whole} /\ saves' \subseteq {Whole},
         src.mtime = 0 /\ src.len = size /\ src' = src /\ TrueAt(c) => TrueAt(c)'
  PROVE  TrueInv'
  <1> SUFFICES ASSUME src'.mtime = 0
               PROVE  /\ src'.len = size' /\ dbsum' \in {NoSum, Whole'} /\ saves' \subseteq {Whole'}
                      /\ \A x \in Conns : TrueAt(x)'
    BY DEF TrueInv
  <1>1. src' = src /\ size' = size /\ src.mtime = 0 /\ src.len = size /\ Whole' = Whole
    BY DEF Lasting, TrueInv, Whole
  <1>2. ASSUME NEW x \in Conns PROVE TrueAt(x)'
    <2>1. TrueAt(x)
      BY <1>1 DEF TrueInv
    <2>2. CASE x = c
      BY <1>1, <2>1, <2>2
    <2>3. CASE x # c
      <3>1. KeptTrue(x)
        BY <2>3 DEF Local, KeptTrue
      <3> QED
        BY <1>1, <2>1, <3>1, TrueKept
    <2> QED
      BY <2>2, <2>3
  <1> QED
    BY <1>1, <1>2

LEMMA TrueSame ==
  ASSUME TypeInv, TrueInv, Lasting, \A x \in Conns : KeptTrue(x),
         dbsum' = dbsum, saves' \subseteq saves
  PROVE  TrueInv'
  <1> SUFFICES ASSUME src'.mtime = 0
               PROVE  /\ src'.len = size' /\ dbsum' \in {NoSum, Whole'} /\ saves' \subseteq {Whole'}
                      /\ \A x \in Conns : TrueAt(x)'
    BY DEF TrueInv
  <1>1. src' = src /\ size' = size /\ src.mtime = 0 /\ src.len = size /\ Whole' = Whole
    BY DEF Lasting, TrueInv, Whole
  <1>2. \A x \in Conns : TrueAt(x)'
    BY <1>1, TrueKept DEF TrueInv
  <1> QED
    BY <1>1, <1>2 DEF TrueInv

\* Messages that say nothing of the file.
LEMMA TrueSentC ==
  ASSUME TypeInv, NEW c \in Conns, NEW m \in Message, m.k = "Start" => m.n <= size, SendC(c, <<m>>),
         TrueC(toC[c])
  PROVE  TrueC(toC'[c])
  BY SendCIs, TrueAppended

LEMMA TrueSentS ==
  ASSUME TypeInv, NEW c \in Conns, NEW m \in Message, Truthful(m), SendS(c, <<m>>), TrueS(toS[c])
  PROVE  TrueS(toS'[c])
  BY SendSIs, TrueAppended

LEMMA TrueTakenC ==
  ASSUME TypeInv, NEW c \in Conns, NEW k, GotC(c, k), TakeC(c), TrueC(toC[c])
  PROVE  TrueC(toC'[c]) /\ (k = "Start" => Head(toC[c]).n <= size)
  <1>1. /\ toC[c] \in Seq(Message) /\ toC[c] # <<>> /\ toC'[c] = Tail(toC[c])
        /\ Head(toC[c]).k = k
    BY DEF TypeInv, GotC, TakeC
  <1> QED
    BY <1>1, TrueTaken

LEMMA TrueTakenS ==
  ASSUME TypeInv, NEW c \in Conns, NEW k, GotS(c, k), TakeS(c), TrueS(toS[c])
  PROVE  TrueS(toS'[c]) /\ Truthful(Head(toS[c]))
  <1>1. /\ toS[c] \in Seq(Message) /\ toS[c] # <<>> /\ toS'[c] = Tail(toS[c])
        /\ Head(toS[c]).k = k
    BY DEF TypeInv, GotS, TakeS
  <1> QED
    BY <1>1, TrueTaken

LEMMA TrueInit == Init => TrueInv
  <1> SUFFICES ASSUME Init PROVE TrueInv
    OBVIOUS
  <1>1. ASSUME NEW x \in Conns PROVE TrueAt(x)
    <2>1. /\ sums[x] = {} /\ upload[x] = NoUpload /\ toC[x] = <<>> /\ toS[x] = <<>> /\ chunks[x] = <<>>
          /\ cell[x] = NoSum
      BY DEF Init
    <2>2. NoUpload.pos <= size /\ NoUpload.pc # "read"
      BY Constructors, TypeInit DEF TypeInv
    <2> QED
      BY <2>1, <2>2, TrueNothing DEF TrueAt
  <1>2. src.len = size /\ dbsum = NoSum /\ saves = {}
    BY DEF Init
  <1> QED
    BY <1>1, <1>2 DEF TrueInv

LEMMA PendingSays == \A i \in DOMAIN PendingS : PendingS[i].k \notin {"Chunk", "ReportChsum"}
  <1>1. Note("Error").k = "Error"
    BY NoteTyped DEF Kinds
  <1>2. CASE sstat = "Rejected"
    BY <1>2, RejectMessage DEF PendingS
  <1>3. CASE sstat = "Failed"
    BY <1>1, <1>3 DEF PendingS
  <1>4. CASE sstat \notin {"Rejected", "Failed"}
    BY <1>4 DEF PendingS
  <1> QED
    BY <1>2, <1>3, <1>4

LEMMA TrueStep == TypeInv /\ ConnInv /\ FileInv /\ TrueInv /\ [Next]_vars => TrueInv'
  <1> SUFFICES ASSUME TypeInv, ConnInv, FileInv, TrueInv, [Next]_vars PROVE TrueInv'
    OBVIOUS
  <1> USE DEF fixed, sender, client, wire, receiver, server, task, disk
  <1>0. Lasting
    BY VerdictsLast
  <1>1. CASE ApiDownload
    <2>1. \A x \in Conns : KeptTrue(x)
      BY <1>1 DEF ApiDownload, KeptTrue
    <2> QED
      BY <1>1, <1>0, <2>1, TrueSame DEF ApiDownload
  <1>2. CASE Modify
    <2>1. PICK n \in NewLens : src' = [mtime |-> src.mtime + 1, len |-> n]
      BY <1>2 DEF Modify
    <2>2. src.mtime \in Nat /\ src'.mtime = src.mtime + 1
      BY <2>1 DEF TypeInv, Source
    <2>3. src'.mtime # 0
      BY <2>2
    <2> QED
      BY <2>3 DEF TrueInv
  <1>3. CASE ApiSenderReject
    <2>1. ASSUME NEW x \in Conns PROVE KeptTrue(x)
      <3>1. toS[x] \in Seq(Message) /\ (toS'[x] = toS[x] \/ toS'[x] = Append(toS[x], RejectMsg))
        BY <1>3 DEF ApiSenderReject, TypeInv
      <3>2. RejectMsg \in Message /\ Truthful(RejectMsg)
        BY RejectMessage DEF Truthful
      <3>3. TrueS(toS[x]) => TrueS(toS'[x])
        BY <3>1, <3>2, TrueAppended
      <3>4. upload'[x] \in {upload[x], NoUpload}
        BY <1>3 DEF ApiSenderReject
      <3> QED
        BY <1>3, <3>3, <3>4 DEF ApiSenderReject, KeptTrue
    <2> QED
      BY <1>3, <1>0, <2>1, TrueSame DEF ApiSenderReject
  <1>4. CASE ApiReject
    <2>1. RejectMsg \in Message /\ RejectMsg.k # "Start"
      BY RejectMessage
    <2>2. ASSUME NEW x \in Conns PROVE KeptTrue(x)
      <3>1. toC'[x] = toC[x] \/ SendC(x, <<RejectMsg>>)
        BY <1>4 DEF ApiReject, SendC, Live, TypeInv
      <3>2. TrueC(toC[x]) => TrueC(toC'[x])
        BY <2>1, <3>1, TrueSentC
      <3> QED
        BY <1>4, <3>2 DEF ApiReject, KeptTrue
    <2> QED
      BY <1>4, <1>0, <2>2, TrueSame DEF ApiReject
  <1>5. CASE ApiCancel
    <2>1. Note("Close") \in Message /\ Note("Close").k # "Start"
      BY NoteTyped DEF Kinds
    <2>2. ASSUME NEW x \in Conns PROVE KeptTrue(x)
      <3>1. toC'[x] = toC[x] \/ SendC(x, <<Note("Close")>>)
        BY <1>5 DEF ApiCancel, SendC, Live, TypeInv
      <3>2. TrueC(toC[x]) => TrueC(toC'[x])
        BY <2>1, <3>1, TrueSentC
      <3> QED
        BY <1>5, <3>2 DEF ApiCancel, KeptTrue
    <2> QED
      BY <1>5, <1>0, <2>2, TrueSame DEF ApiCancel
  <1>6. CASE Crash
    <2>1. \A x \in Conns : KeptTrue(x)
      BY <1>6, TrueNothing DEF Crash, KeptTrue
    <2> QED
      BY <1>6, <1>0, <2>1, TrueSame DEF Crash
  <1>7. CASE SaveChecksum
    <2>1. \A x \in Conns : KeptTrue(x)
      BY <1>7 DEF SaveChecksum, KeptTrue
    <2>2. /\ UNCHANGED <<src, size>> /\ saves' \subseteq saves
          /\ src.mtime = 0 => dbsum' \in {NoSum, Whole}
      BY <1>7 DEF SaveChecksum, TrueInv
    <2>3. src.mtime = 0 => \A x \in Conns : TrueAt(x)'
      BY <2>1, <2>2, TrueKept DEF TrueInv
    <2> QED
      BY <2>2, <2>3 DEF TrueInv, Whole
  <1>8. ASSUME NEW c \in Conns, Connect(c) PROVE TrueInv'
    <2>1. /\ Local(c) /\ UNCHANGED <<dbsum, saves, sums, upload, chunks>> /\ toS'[c] = PendingS
          /\ (cell' = cell \/ cell' = [cell EXCEPT ![c] = dbsum])
      BY <1>8, LocalSteps DEF Connect, TypeInv, UpgradeV2, UpgradeV4
    <2>2. \A x \in Conns \ {c} : sums'[x] = sums[x] /\ cell'[x] = cell[x]
      BY <2>1 DEF TypeInv
    <2>3. cell'[c] \in {cell[c], dbsum}
      BY <2>1 DEF TypeInv
    <2>4. TrueC(toC[c]) => TrueC(toC'[c])
      <3> DEFINE m == Msg("ReqChsum", size, <<>>)
      <3>1. m \in Message /\ m.k # "Start"
        BY RequestTyped DEF TypeInv
      <3>2. toC'[c] = toC[c] \/ toC'[c] = PendingC \/ toC'[c] = Append(PendingC, m)
        BY <1>8 DEF Connect, UpgradeV2, UpgradeV4, TypeInv
      <3> HIDE DEF m
      <3>3. PendingC \in Seq(Message) /\ TrueC(PendingC)
        BY PendingTyped DEF TrueC
      <3> QED
        BY <3>1, <3>2, <3>3, TrueAppended
    <2>5. TrueS(toS'[c])
      BY <2>1, PendingSays DEF TrueS, Truthful
    <2>6. ASSUME src.mtime = 0, src' = src, TrueAt(c) PROVE TrueAt(c)'
      BY <1>0, <2>1, <2>3, <2>4, <2>5, <2>6, TrueHere DEF TrueInv, TrueAt, Lasting
    <2> QED
      BY <1>0, <2>1, <2>2, <2>6, TrueMoved DEF TrueInv
  <1>9. ASSUME NEW c \in Conns, ConnectClosed(c) PROVE TrueInv'
    <2>1. Local(c) /\ UNCHANGED <<dbsum, saves, sums, upload, toS, chunks, cell>>
      BY <1>9, LocalSteps DEF ConnectClosed
    <2>2. Note("Close") \in Message /\ Note("Close").k = "Close" /\ toC'[c] = <<Note("Close")>>
      BY <1>9, NoteTyped DEF ConnectClosed, TypeInv, Kinds
    <2>3. TrueC(toC'[c])
      BY <2>2 DEF TrueC
    <2>4. KeptTrue(c)
      BY <2>1, <2>2, <2>3 DEF KeptTrue
    <2>5. \A x \in Conns \ {c} : sums'[x] = sums[x] /\ cell'[x] = cell[x]
      BY <1>9 DEF ConnectClosed, TypeInv
    <2> QED
      BY <1>0, <2>1, <2>4, <2>5, TrueKept, TrueMoved DEF Lasting, TrueInv
  <1>10. ASSUME NEW c \in Conns, RecvReqChsum(c) PROVE TrueInv'
    <2>1. /\ Local(c) /\ UNCHANGED <<dbsum, saves, upload, toS, chunks, cell>>
          /\ sums' = [sums EXCEPT ![c] = @ \cup {[limit |-> Head(toC[c]).n, seen |-> src]}]
      BY <1>10, LocalSteps DEF RecvReqChsum
    <2>2. \A t \in sums'[c] : t \in sums[c] \/ t.seen = src
      BY <2>1 DEF TypeInv
    <2>3. \A x \in Conns \ {c} : sums'[x] = sums[x] /\ cell'[x] = cell[x]
      BY <2>1 DEF TypeInv
    <2>4. TrueC(toC[c]) => TrueC(toC'[c])
      BY <1>10, TrueTakenC DEF RecvReqChsum
    <2>5. ASSUME src' = src, TrueAt(c) PROVE TrueAt(c)'
      BY <1>0, <2>1, <2>2, <2>4, <2>5, TrueHere DEF TrueAt, Lasting
    <2> QED
      BY <1>0, <2>1, <2>3, <2>5, TrueMoved DEF TrueInv
  <1>11. ASSUME NEW c \in Conns, ReportChsum(c) PROVE TrueInv'
    <2>1. Local(c) /\ UNCHANGED <<dbsum, saves, upload, toC, chunks, cell>>
      BY <1>11, LocalSteps DEF ReportChsum
    <2>2. PICK t \in sums[c] :
            /\ sums' = [sums EXCEPT ![c] = @ \ {t}]
            /\ IF sstat = "Alive"
               THEN \E b \in Checksums(t) : SendS(c, <<Msg("ReportChsum", t.limit, b)>>)
               ELSE SendS(c, <<Note("Error")>>)
      BY <1>11 DEF ReportChsum
    <2>3. sums'[c] \subseteq sums[c] /\ \A x \in Conns \ {c} : sums'[x] = sums[x]
      BY <2>2 DEF TypeInv
    <2>4. ASSUME src.mtime = 0, src.len = size, TrueAt(c) PROVE TrueS(toS'[c])
      <3>1. CASE sstat = "Alive"
        <4>1. PICK b \in Checksums(t) : SendS(c, <<Msg("ReportChsum", t.limit, b)>>)
          BY <2>2, <3>1
        <4>2. t \in [limit : Nat, seen : Source] /\ t.seen = src
          BY <2>4 DEF TypeInv, TrueAt
        <4>3. b \in Seq(Block) /\ t.limit \in Nat
          BY <4>2, ChecksumsTyped
        <4>4. b = Blocks(0, Min({t.limit, size}))
          BY <2>4, <4>1, <4>2 DEF Checksums
        <4>5. t.limit = size => Min({t.limit, size}) = size
          <5>1. size \in Int
            BY DEF TypeInv
          <5> QED
            BY <5>1, MinMax
        <4> DEFINE m == Msg("ReportChsum", t.limit, b)
        <4>6. m \in Message /\ m.k = "ReportChsum" /\ m.n = t.limit /\ m.d = b
          BY <4>3 DEF Msg, Message, Kinds
        <4> HIDE DEF m
        <4>7. Truthful(m)
          BY <4>4, <4>5, <4>6 DEF Truthful, Whole
        <4> QED
          BY <2>4, <4>1, <4>6, <4>7, TrueSentS DEF TrueAt, m
      <3>2. CASE sstat # "Alive"
        <4>1. Note("Error") \in Message /\ Note("Error").k = "Error"
          BY NoteTyped DEF Kinds
        <4>2. Truthful(Note("Error"))
          BY <4>1 DEF Truthful
        <4> QED
          BY <2>2, <2>4, <3>2, <4>1, <4>2, TrueSentS DEF TrueAt
      <3> QED
        BY <3>1, <3>2
    <2>5. ASSUME src.mtime = 0, src.len = size, src' = src, TrueAt(c) PROVE TrueAt(c)'
      BY <1>0, <2>1, <2>3, <2>4, <2>5, TrueHere DEF TrueAt, Lasting
    <2> QED
      BY <1>0, <2>1, <2>3, <2>5, TrueMoved DEF TrueInv
  <1>12. ASSUME NEW c \in Conns, RecvStart(c) PROVE TrueInv'
    <2>1. Local(c) /\ UNCHANGED <<dbsum, saves, sums, chunks, cell>>
      BY <1>12, LocalSteps DEF RecvStart
    <2>2. /\ upload'[c].pc = "open" \/ upload'[c] = upload[c]
          /\ upload'[c].pos \in {0, Head(toC[c]).n} \/ upload'[c] = upload[c]
      <3>1. upload'[c] \in {upload[c], [NoUpload EXCEPT !.pc = "open"],
                            [NoUpload EXCEPT !.pc = "open", !.pos = Head(toC[c]).n]}
        BY <1>12 DEF RecvStart, OnStart, OnDownload, TypeInv
      <3> QED
        BY <3>1 DEF NoUpload
    <2>3. toS' = toS \/ SendS(c, <<Note("Error")>>)
      BY <1>12 DEF RecvStart, OnStart, OnDownload
    <2>4. Note("Error") \in Message /\ Truthful(Note("Error"))
      BY NoteTyped DEF Kinds, Truthful
    <2>5. TrueS(toS[c]) => TrueS(toS'[c])
      BY <2>3, <2>4, TrueSentS
    <2>6. TrueC(toC[c]) => TrueC(toC'[c]) /\ Head(toC[c]).n <= size
      BY <1>12, TrueTakenC DEF RecvStart
    <2>7. 0 <= size
      BY DEF TypeInv
    <2>8. ASSUME src' = src, TrueAt(c) PROVE TrueAt(c)'
      BY <1>0, <2>1, <2>2, <2>5, <2>6, <2>7, <2>8, TrueHere DEF TrueAt, Lasting
    <2> QED
      BY <1>0, <2>1, <2>8, TrueMoved DEF TrueInv
  <1>13. ASSUME NEW c \in Conns, UploadOpen(c) PROVE TrueInv'
    <2>1. Local(c) /\ UNCHANGED <<dbsum, saves, sums, toC, toS, chunks, cell>>
      BY <1>13, LocalSteps DEF UploadOpen
    <2>2. upload'[c].pos = upload[c].pos /\ upload'[c].meta = src
      <3>1. upload[c] \in Uploads /\ upload'[c] = [upload[c] EXCEPT !.pc = "read", !.meta = src]
        BY <1>13 DEF UploadOpen, TypeInv
      <3> QED
        BY <3>1 DEF Uploads
    <2>3. ASSUME src' = src, TrueAt(c) PROVE TrueAt(c)'
      BY <1>0, <2>1, <2>2, <2>3, TrueHere DEF TrueAt, Lasting
    <2> QED
      BY <1>0, <2>1, <2>3, TrueMoved DEF TrueInv
  <1>14. ASSUME NEW c \in Conns, UploadChunk(c) PROVE TrueInv'
    <2>1. Local(c) /\ UNCHANGED <<dbsum, saves, sums, toC, chunks, cell>>
      BY <1>14, LocalSteps DEF UploadChunk
    <2> DEFINE n == Readable(c)
    <2>2. n \in Nat /\ n > 0 /\ ReadOk(c) /\ upload[c].pc = "read"
      BY <1>14, ReadableIs DEF UploadChunk
    <2>3. upload[c] \in Uploads /\ upload[c].pos \in Nat /\ size \in Nat
      BY DEF TypeInv, Uploads
    <2>4. upload'[c].pos = upload[c].pos + n /\ upload'[c].meta = upload[c].meta
      <3>1. upload'[c] = [upload[c] EXCEPT !.pos = upload[c].pos + n]
        BY <1>14 DEF UploadChunk, TypeInv
      <3> HIDE DEF n
      <3> QED
        BY <2>3, <3>1 DEF Uploads
    <2>5. upload[c].pos + n <= upload[c].meta.len
      BY <2>2 DEF ReadOk
    <2>6. PICK m : /\ m.k = "Chunk" /\ SendS(c, <<m>>) /\ m \in Message
                   /\ m.d = [i \in 1 .. n |-> <<src.mtime, upload[c].pos + i>>]
      BY <1>14, ChunkTyped
    <2> HIDE DEF n
    <2>7. ASSUME src.mtime = 0, src.len = size, src' = src, TrueAt(c) PROVE TrueAt(c)'
      <3>1. upload[c].meta = src /\ upload[c].pos + n <= size
        BY <2>2, <2>5, <2>7 DEF TrueAt
      <3>2. Within(m.d)
        <4> SUFFICES ASSUME NEW i \in 1 .. n PROVE upload[c].pos + i <= size
          BY <2>6 DEF Within
        <4> QED
          BY <2>2, <2>3, <3>1
      <3>3. TrueS(toS'[c])
        BY <2>6, <2>7, <3>2, TrueSentS DEF TrueAt, Truthful
      <3> QED
        BY <1>0, <2>1, <2>4, <2>7, <3>1, <3>3, TrueHere DEF TrueAt, Lasting
    <2> QED
      BY <1>0, <2>1, <2>7, TrueMoved DEF TrueInv
  <1>15. ASSUME NEW c \in Conns, UploadDone(c) PROVE TrueInv'
    <2>1. Local(c) /\ UNCHANGED <<dbsum, saves, sums, toC, chunks, cell>>
      BY <1>15, LocalSteps DEF UploadDone
    <2>2. upload'[c].pos = upload[c].pos /\ upload'[c].pc = "end"
      <3>1. upload[c] \in Uploads /\ upload'[c] = [upload[c] EXCEPT !.pc = "end"]
        BY <1>15 DEF UploadDone, TypeInv
      <3> QED
        BY <3>1 DEF Uploads
    <2>3. toS' = toS \/ SendS(c, <<Note("Error")>>)
      BY <1>15 DEF UploadDone
    <2>4. Note("Error") \in Message /\ Truthful(Note("Error"))
      BY NoteTyped DEF Kinds, Truthful
    <2>5. TrueS(toS[c]) => TrueS(toS'[c])
      BY <2>3, <2>4, TrueSentS
    <2>6. ASSUME src' = src, TrueAt(c) PROVE TrueAt(c)'
      BY <1>0, <2>1, <2>2, <2>5, <2>6, TrueHere DEF TrueAt, Lasting
    <2> QED
      BY <1>0, <2>1, <2>6, TrueMoved DEF TrueInv
  <1>16. ASSUME NEW c \in Conns, UploadFail(c) PROVE TrueInv'
    <2>1. Local(c) /\ UNCHANGED <<dbsum, saves, sums, toC, chunks, cell>>
      BY <1>16, LocalSteps DEF UploadFail
    <2>2. upload'[c].pos = upload[c].pos /\ upload'[c].pc = "end"
      <3>1. upload[c] \in Uploads /\ upload'[c] = [upload[c] EXCEPT !.pc = "end"]
        BY <1>16 DEF UploadFail, TypeInv
      <3> QED
        BY <3>1 DEF Uploads
    <2>3. toS' = toS \/ SendS(c, <<Note("Error")>>)
      BY <1>16 DEF UploadFail
    <2>4. Note("Error") \in Message /\ Truthful(Note("Error"))
      BY NoteTyped DEF Kinds, Truthful
    <2>5. TrueS(toS[c]) => TrueS(toS'[c])
      BY <2>3, <2>4, TrueSentS
    <2>6. ASSUME src' = src, TrueAt(c) PROVE TrueAt(c)'
      BY <1>0, <2>1, <2>2, <2>5, <2>6, TrueHere DEF TrueAt, Lasting
    <2> QED
      BY <1>0, <2>1, <2>6, TrueMoved DEF TrueInv
  <1>17. ASSUME NEW c \in Conns, RecvVerdict(c) PROVE TrueInv'
    <2>1. Local(c) /\ UNCHANGED <<dbsum, saves, sums, toS, chunks, cell>>
      BY <1>17, LocalSteps DEF RecvVerdict
    <2>2. TrueC(toC[c]) => TrueC(toC'[c])
      BY <1>17, TrueTakenC DEF RecvVerdict
    <2>3. upload'[c] = NoUpload
      BY <1>17 DEF RecvVerdict, TypeInv
    <2>4. KeptTrue(c)
      BY <2>1, <2>2, <2>3 DEF KeptTrue
    <2>5. \A x \in Conns \ {c} : sums'[x] = sums[x] /\ cell'[x] = cell[x]
      BY <1>17 DEF RecvVerdict, TypeInv
    <2> QED
      BY <1>0, <2>1, <2>4, <2>5, TrueKept, TrueMoved DEF Lasting, TrueInv
  <1>18. ASSUME NEW c \in Conns, RecvCancelC(c) PROVE TrueInv'
    <2>1. Local(c) /\ UNCHANGED <<dbsum, saves, sums, toS, chunks, cell>>
      BY <1>18, LocalSteps DEF RecvCancelC
    <2>2. TrueC(toC[c]) => TrueC(toC'[c])
      BY <1>18, TrueTakenC DEF RecvCancelC
    <2>3. upload'[c] = NoUpload
      BY <1>18 DEF RecvCancelC, TypeInv
    <2>4. KeptTrue(c)
      BY <2>1, <2>2, <2>3 DEF KeptTrue
    <2>5. \A x \in Conns \ {c} : sums'[x] = sums[x] /\ cell'[x] = cell[x]
      BY <1>18 DEF RecvCancelC, TypeInv
    <2> QED
      BY <1>0, <2>1, <2>4, <2>5, TrueKept, TrueMoved DEF Lasting, TrueInv
  <1>19. ASSUME NEW c \in Conns, RecvClose(c) PROVE TrueInv'
    <2>1. Local(c) /\ UNCHANGED <<dbsum, saves, toS, chunks, cell>>
      BY <1>19, LocalSteps DEF RecvClose
    <2>2. TrueC(toC'[c])
      BY <1>19, TrueNothing DEF RecvClose, ClientEnds, TypeInv
    <2>3. upload'[c] = NoUpload /\ sums'[c] = {}
      BY <1>19 DEF RecvClose, ClientEnds, TypeInv
    <2>4. KeptTrue(c)
      BY <2>1, <2>2, <2>3 DEF KeptTrue
    <2>5. \A x \in Conns \ {c} : sums'[x] = sums[x] /\ cell'[x] = cell[x]
      BY <1>19 DEF RecvClose, TypeInv, ClientEnds
    <2> QED
      BY <1>0, <2>1, <2>4, <2>5, TrueKept, TrueMoved DEF Lasting, TrueInv
  <1>20. ASSUME NEW c \in Conns, ClientBreak(c) PROVE TrueInv'
    <2>1. Local(c) /\ UNCHANGED <<dbsum, saves, toS, chunks, cell>>
      BY <1>20, LocalSteps DEF ClientBreak
    <2>2. TrueC(toC'[c])
      BY <1>20, TrueNothing DEF ClientBreak, ClientEnds, TypeInv
    <2>3. upload'[c] = NoUpload /\ sums'[c] = {}
      BY <1>20 DEF ClientBreak, ClientEnds, TypeInv
    <2>4. KeptTrue(c)
      BY <2>1, <2>2, <2>3 DEF KeptTrue
    <2>5. \A x \in Conns \ {c} : sums'[x] = sums[x] /\ cell'[x] = cell[x]
      BY <1>20 DEF ClientBreak, TypeInv, ClientEnds
    <2> QED
      BY <1>0, <2>1, <2>4, <2>5, TrueKept, TrueMoved DEF Lasting, TrueInv
  <1>21. ASSUME NEW c \in Conns, RecvChunk(c) PROVE TrueInv'
    <2>1. Local(c) /\ UNCHANGED <<dbsum, saves, sums, upload, cell>>
      BY <1>21, LocalSteps DEF RecvChunk
    <2>2. toC' = toC \/ SendC(c, <<Note("Error")>>)
      BY <1>21 DEF RecvChunk
    <2>3. Note("Error") \in Message /\ Note("Error").k = "Error"
      BY NoteTyped DEF Kinds
    <2>4. TrueC(toC[c]) => TrueC(toC'[c])
      BY <2>2, <2>3, TrueSentC
    <2>5. TrueS(toS[c]) => TrueS(toS'[c]) /\ Truthful(Head(toS[c]))
      BY <1>21, TrueTakenS DEF RecvChunk
    <2>6. /\ Head(toS[c]).k = "Chunk" /\ Head(toS[c]) \in Message
          /\ chunks[c] \in Seq(Seq(Block))
          /\ chunks'[c] \in {chunks[c], Append(chunks[c], Head(toS[c]).d)}
      BY <1>21, TailElements DEF RecvChunk, GotS, TypeInv
    <2>7. Head(toS[c]).d \in Seq(Block)
      BY <2>6 DEF Message
    <2>8. TrueD(chunks[c]) /\ Truthful(Head(toS[c])) => TrueD(chunks'[c])
      BY <2>6, <2>7, TrueData DEF Truthful
    <2>9. ASSUME src' = src, TrueAt(c) PROVE TrueAt(c)'
      BY <1>0, <2>1, <2>4, <2>5, <2>8, <2>9, TrueHere DEF TrueAt, Lasting
    <2> QED
      BY <1>0, <2>1, <2>9, TrueMoved DEF TrueInv
  <1>22. ASSUME NEW c \in Conns, RecvReportChsum(c) PROVE TrueInv'
    <2> DEFINE m == Head(toS[c])
    <2>1. Local(c) /\ UNCHANGED <<dbsum, sums, upload, toC, chunks>>
      BY <1>22, LocalSteps DEF RecvReportChsum
    <2>2. TrueS(toS[c]) => TrueS(toS'[c]) /\ Truthful(m)
      BY <1>22, TrueTakenS DEF RecvReportChsum
    <2>3. m.k = "ReportChsum"
      BY <1>22 DEF RecvReportChsum, GotS
    <2>4. /\ cell'[c] = cell[c] \/ (m.n = size /\ cell'[c] = m.d)
          /\ saves' = saves \/ (m.n = size /\ saves' = saves \cup {m.d})
          /\ \A x \in Conns \ {c} : cell'[x] = cell[x]
      BY <1>22 DEF RecvReportChsum, TypeInv
    <2> HIDE DEF m
    <2>5. ASSUME src.mtime = 0, src' = src, TrueAt(c) PROVE TrueAt(c)' /\ saves' \subseteq {Whole}
      <3>1. m.n = size => m.d = Whole
        BY <2>2, <2>3, <2>5 DEF TrueAt, Truthful
      <3>2. cell'[c] \in {NoSum, Whole} /\ saves' \subseteq {Whole}
        BY <2>4, <2>5, <3>1 DEF TrueInv, TrueAt
      <3> QED
        BY <1>0, <2>1, <2>2, <2>5, <3>2, TrueHere DEF TrueAt, Lasting
    <2>6. src' = src
      BY <1>22 DEF RecvReportChsum
    <2> QED
      BY <1>0, <2>1, <2>4, <2>5, <2>6, TrueMoved DEF TrueInv
  <1>23. ASSUME NEW c \in Conns, RecvError(c) PROVE TrueInv'
    <2>1. Local(c) /\ UNCHANGED <<dbsum, saves, sums, upload, toC, chunks, cell>>
      BY <1>23, LocalSteps DEF RecvError
    <2>2. TrueS(toS[c]) => TrueS(toS'[c])
      BY <1>23, TrueTakenS DEF RecvError
    <2>3. KeptTrue(c)
      BY <2>1, <2>2 DEF KeptTrue
    <2>4. \A x \in Conns \ {c} : sums'[x] = sums[x] /\ cell'[x] = cell[x]
      BY <1>23 DEF RecvError, TypeInv
    <2> QED
      BY <1>0, <2>1, <2>3, <2>4, TrueKept, TrueMoved DEF Lasting, TrueInv
  <1>24. ASSUME NEW c \in Conns, RecvReject(c) PROVE TrueInv'
    <2>1. Local(c) /\ UNCHANGED <<dbsum, saves, sums, upload, toC, chunks, cell>>
      BY <1>24, LocalSteps DEF RecvReject
    <2>2. TrueS(toS[c]) => TrueS(toS'[c])
      BY <1>24, TrueTakenS DEF RecvReject
    <2>3. KeptTrue(c)
      BY <2>1, <2>2 DEF KeptTrue
    <2>4. \A x \in Conns \ {c} : sums'[x] = sums[x] /\ cell'[x] = cell[x]
      BY <1>24 DEF RecvReject, TypeInv
    <2> QED
      BY <1>0, <2>1, <2>3, <2>4, TrueKept, TrueMoved DEF Lasting, TrueInv
  <1>25. ASSUME NEW c \in Conns, RecvCancel(c) PROVE TrueInv'
    <2>1. Local(c) /\ UNCHANGED <<dbsum, saves, sums, upload, toC, chunks, cell>>
      BY <1>25, LocalSteps DEF RecvCancel
    <2>2. TrueS(toS[c]) => TrueS(toS'[c])
      BY <1>25, TrueTakenS DEF RecvCancel
    <2>3. KeptTrue(c)
      BY <2>1, <2>2 DEF KeptTrue
    <2>4. \A x \in Conns \ {c} : sums'[x] = sums[x] /\ cell'[x] = cell[x]
      BY <1>25 DEF RecvCancel, TypeInv
    <2> QED
      BY <1>0, <2>1, <2>3, <2>4, TrueKept, TrueMoved DEF Lasting, TrueInv
  <1>26. ASSUME NEW c \in Conns, JobInit(c) PROVE TrueInv'
    <2>1. Local(c) /\ UNCHANGED <<dbsum, saves, sums, upload, toS, chunks, cell>>
      BY <1>26, LocalSteps DEF JobInit
    <2>2. toC' # toC => tmp # NoIno /\ SendC(c, <<Msg("ReqChsum", Len(ino[tmp]), <<>>)>>)
      BY <1>26 DEF JobInit, InitV2, InitV4
    <2>3. tmp # NoIno => Len(ino[tmp]) \in Nat
      BY SeqDomain DEF TypeInv
    <2>4. TrueC(toC[c]) => TrueC(toC'[c])
      BY <2>2, <2>3, RequestTyped, TrueSentC
    <2>5. KeptTrue(c)
      BY <2>1, <2>2, <2>3, <2>4 DEF KeptTrue
    <2>6. \A x \in Conns \ {c} : sums'[x] = sums[x] /\ cell'[x] = cell[x]
      BY <1>26 DEF JobInit, TypeInv
    <2> QED
      BY <1>0, <2>1, <2>5, <2>6, TrueKept, TrueMoved DEF Lasting, TrueInv
  <1>27. ASSUME NEW c \in Conns, JobPartial(c) PROVE TrueInv'
    <2>1. \A x \in Conns : KeptTrue(x)
      BY <1>27 DEF JobPartial, KeptTrue
    <2>2. UNCHANGED <<dbsum, saves>>
      BY <1>27 DEF JobPartial
    <2> QED
      BY <1>0, <2>1, <2>2, TrueSame
  <1>28. ASSUME NEW c \in Conns, JobFull(c) PROVE TrueInv'
    <2>1. \A x \in Conns : KeptTrue(x)
      BY <1>28 DEF JobFull, KeptTrue
    <2>2. UNCHANGED <<dbsum, saves>>
      BY <1>28 DEF JobFull
    <2> QED
      BY <1>0, <2>1, <2>2, TrueSame
  <1>29. ASSUME NEW c \in Conns, JobStart(c) PROVE TrueInv'
    <2>1. Local(c) /\ UNCHANGED <<dbsum, saves, sums, upload, toS, chunks, cell>>
      BY <1>29, LocalSteps DEF JobStart
    <2>2. toC' # toC => SendC(c, <<Msg("Start", job[c].offset, <<>>)>>)
      BY <1>29 DEF JobStart
    <2>3. job[c].offset \in Nat /\ job[c].offset <= size
      BY <1>29 DEF JobStart, JobAt, TypeInv, Jobs, FileInv, FileAt
    <2>4. TrueC(toC[c]) => TrueC(toC'[c])
      BY <2>2, <2>3, RequestTyped, TrueSentC
    <2>5. KeptTrue(c)
      BY <2>1, <2>2, <2>3, <2>4 DEF KeptTrue
    <2>6. \A x \in Conns \ {c} : sums'[x] = sums[x] /\ cell'[x] = cell[x]
      BY <1>29 DEF JobStart, TypeInv
    <2> QED
      BY <1>0, <2>1, <2>5, <2>6, TrueKept, TrueMoved DEF Lasting, TrueInv
  <1>30. ASSUME NEW c \in Conns, JobChunk(c) PROVE TrueInv'
    <2>1. Local(c) /\ UNCHANGED <<dbsum, saves, sums, upload, toC, toS, cell>>
      BY <1>30, LocalSteps DEF JobChunk
    <2>2. TrueD(chunks[c]) => TrueD(chunks'[c])
      BY <1>30, TrueData DEF JobChunk, TypeInv
    <2>3. KeptTrue(c)
      BY <2>1, <2>2 DEF KeptTrue
    <2>4. \A x \in Conns \ {c} : sums'[x] = sums[x] /\ cell'[x] = cell[x]
      BY <1>30 DEF JobChunk, TypeInv
    <2> QED
      BY <1>0, <2>1, <2>3, <2>4, TrueKept, TrueMoved DEF Lasting, TrueInv
  <1>31. ASSUME NEW c \in Conns, JobReceived(c) PROVE TrueInv'
    <2>1. \A x \in Conns : KeptTrue(x)
      BY <1>31 DEF JobReceived, KeptTrue
    <2>2. UNCHANGED <<dbsum, saves>>
      BY <1>31 DEF JobReceived
    <2> QED
      BY <1>0, <2>1, <2>2, TrueSame
  <1>32. ASSUME NEW c \in Conns, JobValidate(c) PROVE TrueInv'
    <2>1. \A x \in Conns : KeptTrue(x)
      BY <1>32 DEF JobValidate, KeptTrue
    <2>2. UNCHANGED <<dbsum, saves>>
      BY <1>32 DEF JobValidate
    <2> QED
      BY <1>0, <2>1, <2>2, TrueSame
  <1>33. ASSUME NEW c \in Conns, JobPlace(c) PROVE TrueInv'
    <2>1. \A x \in Conns : KeptTrue(x)
      BY <1>33 DEF JobPlace, KeptTrue
    <2>2. UNCHANGED <<dbsum, saves>>
      BY <1>33 DEF JobPlace
    <2> QED
      BY <1>0, <2>1, <2>2, TrueSame
  <1>34. ASSUME NEW c \in Conns, JobPost(c) PROVE TrueInv'
    <2>1. Local(c) /\ UNCHANGED <<dbsum, saves, sums, upload, toS, cell>>
      BY <1>34, LocalSteps DEF JobPost
    <2>2. TrueD(chunks'[c])
      BY <1>34, TrueNothing DEF JobPost, JobEnds, TypeInv
    <2>3. /\ Note("Done") \in Message /\ Note("Done").k = "Done"
          /\ Note("Error") \in Message /\ Note("Error").k = "Error"
      BY NoteTyped DEF Kinds
    <2>4. \E m \in Message : m.k # "Start" /\ (toC' = toC \/ SendC(c, <<m>>))
      BY <1>34, <2>3 DEF JobPost
    <2>5. TrueC(toC[c]) => TrueC(toC'[c])
      BY <2>4, TrueSentC
    <2>6. KeptTrue(c)
      BY <2>1, <2>2, <2>3, <2>4, <2>5 DEF KeptTrue
    <2>7. \A x \in Conns \ {c} : sums'[x] = sums[x] /\ cell'[x] = cell[x]
      BY <1>34 DEF JobPost, TypeInv
    <2> QED
      BY <1>0, <2>1, <2>6, <2>7, TrueKept, TrueMoved DEF Lasting, TrueInv
  <1>35. ASSUME NEW c \in Conns, JobCanceled(c) PROVE TrueInv'
    <2>1. Local(c) /\ UNCHANGED <<dbsum, saves, sums, upload, toC, toS, cell>>
      BY <1>35, LocalSteps DEF JobCanceled
    <2>2. TrueD(chunks'[c])
      BY <1>35, TrueNothing DEF JobCanceled, JobEnds, TypeInv
    <2>3. KeptTrue(c)
      BY <2>1, <2>2 DEF KeptTrue
    <2>4. \A x \in Conns \ {c} : sums'[x] = sums[x] /\ cell'[x] = cell[x]
      BY <1>35 DEF JobCanceled, TypeInv
    <2> QED
      BY <1>0, <2>1, <2>3, <2>4, TrueKept, TrueMoved DEF Lasting, TrueInv
  <1>36. ASSUME NEW c \in Conns, Drained(c) PROVE TrueInv'
    <2>1. Local(c) /\ UNCHANGED <<dbsum, saves, sums, upload, toC, chunks, cell>>
      BY <1>36, LocalSteps DEF Drained
    <2>2. TrueS(toS'[c])
      BY <1>36, TrueNothing DEF Drained, Leave, TypeInv
    <2>3. KeptTrue(c)
      BY <2>1, <2>2 DEF KeptTrue
    <2>4. \A x \in Conns \ {c} : sums'[x] = sums[x] /\ cell'[x] = cell[x]
      BY <1>36 DEF Drained, TypeInv
    <2> QED
      BY <1>0, <2>1, <2>3, <2>4, TrueKept, TrueMoved DEF Lasting, TrueInv
  <1>37. ASSUME NEW c \in Conns, Finalize(c) PROVE TrueInv'
    <2>1. \A x \in Conns : KeptTrue(x)
      BY <1>37 DEF Finalize, KeptTrue
    <2>2. UNCHANGED <<dbsum, saves>>
      BY <1>37 DEF Finalize
    <2> QED
      BY <1>0, <2>1, <2>2, TrueSame
  <1>38. ASSUME NEW c \in Conns, ServerBreak(c) PROVE TrueInv'
    <2>1. Local(c) /\ UNCHANGED <<dbsum, saves, sums, upload, toC, chunks, cell>>
      BY <1>38, LocalSteps DEF ServerBreak
    <2>2. TrueS(toS'[c])
      BY <1>38, TrueNothing DEF ServerBreak, Leave, TypeInv
    <2>3. KeptTrue(c)
      BY <2>1, <2>2 DEF KeptTrue
    <2>4. \A x \in Conns \ {c} : sums'[x] = sums[x] /\ cell'[x] = cell[x]
      BY <1>38 DEF ServerBreak, TypeInv
    <2> QED
      BY <1>0, <2>1, <2>3, <2>4, TrueKept, TrueMoved DEF Lasting, TrueInv
  <1>39. CASE UNCHANGED vars
    <2>1. \A x \in Conns : KeptTrue(x)
      BY <1>39 DEF vars, KeptTrue
    <2> QED
      BY <1>39, <1>0, <2>1, TrueSame DEF vars
  <1> QED
    BY <1>1, <1>2, <1>3, <1>4, <1>5, <1>6, <1>7, <1>8, <1>9, <1>10, <1>11, <1>12,
       <1>13, <1>14, <1>15, <1>16, <1>17, <1>18, <1>19, <1>20, <1>21, <1>22, <1>23, <1>24,
       <1>25, <1>26, <1>27, <1>28, <1>29, <1>30, <1>31, <1>32, <1>33, <1>34, <1>35, <1>36,
       <1>37, <1>38, <1>39
       DEF Next, Environment, Running

-----------------------------------------------------------------------------
(* No download fails of itself.                                            *)

LEMMA SoundSame ==
  ASSUME SoundInv, Lasting, UNCHANGED <<job, tmp>>
  PROVE  SoundInv'
  BY DEF SoundInv, SoundAt, Relies, Lasting, Ended

\* A step of the job of c.
LEMMA SoundMoved ==
  ASSUME SoundInv, Lasting, NEW c \in Conns, \A x \in Conns \ {c} : job'[x] = job[x],
         \/ tmp' = tmp \/ tmp' # NoIno
         \/ \A x \in Conns \ {c} : ~Relies(x),
         src.mtime = 0 /\ SoundAt(c) => SoundAt(c)'
  PROVE  SoundInv'
  <1> SUFFICES ASSUME src'.mtime = 0, rstat' # "Rejected", NEW x \in Conns PROVE SoundAt(x)'
    BY DEF SoundInv
  <1>1. src.mtime = 0 /\ \A y \in Conns : SoundAt(y)
    BY DEF SoundInv, Lasting, Ended
  <1> QED
    BY <1>1 DEF SoundAt, Relies

LEMMA SoundInit == Init => SoundInv
  <1> SUFFICES ASSUME Init, NEW c \in Conns PROVE SoundAt(c)
    BY DEF SoundInv
  <1>1. job[c].pc = "none"
    BY Constructors DEF Init
  <1> QED
    BY <1>1 DEF SoundAt, Relies

\* Only one job counts on the temporary file.
LEMMA OneRelies ==
  ASSUME ConnInv, NEW c \in Conns, job[c].pc \in Abortable
  PROVE  \A x \in Conns \ {c} : ~Relies(x)
  <1> SUFFICES ASSUME NEW x \in Conns \ {c}, Relies(x) PROVE FALSE
    OBVIOUS
  <1>1. job[x].pc \in Abortable
    BY DEF Relies, Abortable
  <1> QED
    BY <1>1, OneJob

\* Pieces of an untouched file: one of its size is the whole file, and none goes past its end.
LEMMA IsWhole ==
  ASSUME size \in Nat, NEW d \in Seq(Block), Len(d) = size, IsData(d, 0)
  PROVE  d = Whole
  <1>1. Whole \in Seq(Block) /\ Len(Whole) = size
    BY BlocksTyped DEF Whole
  <1>2. ASSUME NEW i \in 1 .. size PROVE d[i] = Whole[i]
    <2>1. i \in DOMAIN d
      OBVIOUS
    <2>2. d[i] = <<0, 0 + i>> /\ 0 + i = i
      BY <2>1 DEF IsData
    <2>3. Whole[i] = <<0, i>>
      BY DEF Whole, Blocks
    <2> QED
      BY <2>2, <2>3
  <1> QED
    BY <1>1, <1>2, SameSeq

LEMMA NotPast ==
  ASSUME size \in Nat, NEW d \in Seq(Block), NEW p \in Nat, p <= size, IsData(d, p), Within(d)
  PROVE  p + Len(d) <= size
  <1>1. CASE Len(d) = 0
    BY <1>1
  <1>2. CASE Len(d) # 0
    <2>1. Len(d) \in DOMAIN d
      BY <1>2, SeqDomain
    <2>2. d[Len(d)] = <<0, p + Len(d)>> /\ d[Len(d)][2] <= size
      BY <2>1 DEF IsData, Within
    <2> QED
      BY <2>2
  <1> QED
    BY <1>1, <1>2

LEMMA SoundStep == TypeInv /\ ConnInv /\ FileInv /\ PipeInv /\ TrueInv /\ SoundInv /\ [Next]_vars => SoundInv'
  <1> SUFFICES ASSUME TypeInv, ConnInv, FileInv, PipeInv, TrueInv, SoundInv, [Next]_vars PROVE SoundInv'
    OBVIOUS
  <1> USE DEF fixed, sender, client, wire, receiver, server, task, disk
  <1>0. Lasting
    BY VerdictsLast
  <1>1. CASE ApiDownload
    <2>1. tmp' = tmp /\ \A x \in Conns : job'[x] = job[x] \/ job'[x] = [job[x] EXCEPT !.pc = "load"]
      BY <1>1 DEF ApiDownload, TypeInv
    <2>2. \A x \in Conns : SoundAt(x) => SoundAt(x)'
      <3>0. \A j \in Jobs : [j EXCEPT !.pc = "load"].pc = "load"
        BY DEF Jobs
      <3>1. ASSUME NEW x \in Conns PROVE job'[x] = job[x] \/ job'[x].pc = "load"
        <4>1. job[x] \in Jobs
          BY DEF TypeInv
        <4>2. CASE job'[x] = [job[x] EXCEPT !.pc = "load"]
          BY <3>0, <4>1, <4>2
        <4> QED
          BY <2>1, <4>2
      <3> QED
        BY <2>1, <3>1 DEF SoundAt, Relies
    <2> QED
      BY <1>0, <2>2 DEF SoundInv, Lasting, Ended
  <1>2. CASE Modify
    BY <1>2, <1>0, SoundSame DEF Modify
  <1>3. CASE ApiSenderReject
    BY <1>3, <1>0, SoundSame DEF ApiSenderReject
  <1>4. CASE ApiReject
    BY <1>4 DEF ApiReject, SoundInv
  <1>5. CASE ApiCancel
    BY <1>5, <1>0, SoundSame DEF ApiCancel
  <1>6. CASE Crash
    <2>1. \A x \in Conns : job'[x].pc \in {"none", "end"}
      BY <1>6, Constructors DEF Crash
    <2> QED
      BY <2>1 DEF SoundInv, SoundAt, Relies
  <1>7. CASE SaveChecksum
    BY <1>7, <1>0, SoundSame DEF SaveChecksum
  <1>8. ASSUME NEW c \in Conns, Connect(c) PROVE SoundInv'
    <2>1. CASE rstat = "Rejected"
      BY <1>8, <2>1 DEF Connect, SoundInv
    <2>2. CASE rstat # "Rejected"
      <3>1. tmp' = tmp /\ (job' = job \/ job' = [job EXCEPT ![c].pc = "load"])
        BY <1>8, <2>2 DEF Connect
      <3>2. \A x \in Conns \ {c} : job'[x] = job[x]
        BY <3>1 DEF TypeInv
      <3>3. job'[c] = job[c] \/ job'[c].pc = "load"
        BY <3>1 DEF TypeInv, Jobs
      <3>4. SoundAt(c) => SoundAt(c)'
        BY <3>1, <3>3 DEF SoundAt, Relies
      <3> QED
        BY <1>0, <3>1, <3>2, <3>4, SoundMoved
    <2> QED
      BY <2>1, <2>2
  <1>9. ASSUME NEW c \in Conns, ConnectClosed(c) PROVE SoundInv'
    BY <1>9, <1>0, SoundSame DEF ConnectClosed
  <1>10. ASSUME NEW c \in Conns, RecvReqChsum(c) PROVE SoundInv'
    BY <1>10, <1>0, SoundSame DEF RecvReqChsum
  <1>11. ASSUME NEW c \in Conns, ReportChsum(c) PROVE SoundInv'
    BY <1>11, <1>0, SoundSame DEF ReportChsum
  <1>12. ASSUME NEW c \in Conns, RecvStart(c) PROVE SoundInv'
    BY <1>12, <1>0, SoundSame DEF RecvStart
  <1>13. ASSUME NEW c \in Conns, UploadOpen(c) PROVE SoundInv'
    BY <1>13, <1>0, SoundSame DEF UploadOpen
  <1>14. ASSUME NEW c \in Conns, UploadChunk(c) PROVE SoundInv'
    BY <1>14, <1>0, SoundSame DEF UploadChunk
  <1>15. ASSUME NEW c \in Conns, UploadDone(c) PROVE SoundInv'
    BY <1>15, <1>0, SoundSame DEF UploadDone
  <1>16. ASSUME NEW c \in Conns, UploadFail(c) PROVE SoundInv'
    BY <1>16, <1>0, SoundSame DEF UploadFail
  <1>17. ASSUME NEW c \in Conns, RecvVerdict(c) PROVE SoundInv'
    BY <1>17, <1>0, SoundSame DEF RecvVerdict
  <1>18. ASSUME NEW c \in Conns, RecvCancelC(c) PROVE SoundInv'
    BY <1>18, <1>0, SoundSame DEF RecvCancelC
  <1>19. ASSUME NEW c \in Conns, RecvClose(c) PROVE SoundInv'
    BY <1>19, <1>0, SoundSame DEF RecvClose
  <1>20. ASSUME NEW c \in Conns, ClientBreak(c) PROVE SoundInv'
    BY <1>20, <1>0, SoundSame DEF ClientBreak
  <1>21. ASSUME NEW c \in Conns, RecvChunk(c) PROVE SoundInv'
    BY <1>21, <1>0, SoundSame DEF RecvChunk
  <1>22. ASSUME NEW c \in Conns, RecvReportChsum(c) PROVE SoundInv'
    BY <1>22, <1>0, SoundSame DEF RecvReportChsum
  <1>23. ASSUME NEW c \in Conns, RecvError(c) PROVE SoundInv'
    BY <1>23, <1>0, SoundSame DEF RecvError
  <1>24. ASSUME NEW c \in Conns, RecvReject(c) PROVE SoundInv'
    <2>1. CASE rstat \in Ended
      BY <1>24, <1>0, <2>1, SoundSame DEF RecvReject
    <2>2. CASE rstat \notin Ended
      BY <1>24, <2>2 DEF RecvReject, SoundInv
    <2> QED
      BY <2>1, <2>2
  <1>25. ASSUME NEW c \in Conns, RecvCancel(c) PROVE SoundInv'
    BY <1>25, <1>0, SoundSame DEF RecvCancel
  <1>26. ASSUME NEW c \in Conns, JobInit(c) PROVE SoundInv'
    <2>1. job[c] \in Jobs /\ \A x \in Conns \ {c} : job'[x] = job[x]
      BY <1>26, LocalSteps DEF Local, TypeInv
    <2>2. UNCHANGED <<tmp, ino>>
      BY <1>26 DEF JobInit
    <2>3. job'[c].pc # "bad" /\ (tmp = NoIno => job'[c].pc = "start" /\ job'[c].offset = 0)
      <3>1. job[c].offset = 0
        BY <1>26 DEF JobInit, JobAt, FileInv, FileAt
      <3>2. CASE ver = "v2" \/ tmp = NoIno
        <4>1. job'[c] = [job[c] EXCEPT !.pc = "start"]
          BY <1>26, <3>2 DEF JobInit, InitV2, InitV4, TypeInv
        <4> QED
          BY <2>1, <3>1, <4>1 DEF Jobs
      <3>3. CASE ver # "v2" /\ tmp # NoIno
        <4>1. job'[c] = [job[c] EXCEPT !.len = Len(ino[tmp]), !.csum = ino[tmp],
                                       !.pc = CASE Len(ino[tmp]) < size -> "partial"
                                                [] Len(ino[tmp]) = size -> "full"
                                                [] OTHER                -> "start"]
          BY <1>26, <3>3 DEF JobInit, InitV4, TypeInv
        <4>2. job'[c].pc = CASE Len(ino[tmp]) < size -> "partial"
                             [] Len(ino[tmp]) = size -> "full"
                             [] OTHER                -> "start"
          BY <2>1, <4>1 DEF Jobs
        <4> QED
          BY <3>3, <4>2
      <3> QED
        BY <3>2, <3>3
    <2>4. SoundAt(c) => SoundAt(c)'
      BY <2>2, <2>3 DEF SoundAt, Relies
    <2> QED
      BY <1>0, <2>1, <2>2, <2>3, <2>4, SoundMoved
  <1>27. ASSUME NEW c \in Conns, JobPartial(c) PROVE SoundInv'
    <2>1. job[c] \in Jobs /\ \A x \in Conns \ {c} : job'[x] = job[x]
      BY <1>27, LocalSteps DEF Local, TypeInv
    <2>2. tmp' = tmp /\ job[c].pc = "partial"
      BY <1>27 DEF JobPartial, JobAt
    <2>3. job'[c].pc # "bad"
      BY <1>27, <2>1 DEF JobPartial, TypeInv, Jobs, JobTo
    <2>4. SoundAt(c) => SoundAt(c)'
      BY <2>2, <2>3 DEF SoundAt, Relies
    <2> QED
      BY <1>0, <2>1, <2>2, <2>3, <2>4, SoundMoved
  <1>28. ASSUME NEW c \in Conns, JobFull(c) PROVE SoundInv'
    <2>1. job[c] \in Jobs /\ \A x \in Conns \ {c} : job'[x] = job[x]
      BY <1>28, LocalSteps DEF Local, TypeInv
    <2>2. tmp' = tmp /\ job[c].pc = "full"
      BY <1>28 DEF JobFull, JobAt
    <2>3. job'[c].pc # "bad"
      BY <1>28, <2>1 DEF JobFull, TypeInv, Jobs, JobTo
    <2>4. SoundAt(c) => SoundAt(c)'
      BY <2>2, <2>3 DEF SoundAt, Relies
    <2> QED
      BY <1>0, <2>1, <2>2, <2>3, <2>4, SoundMoved
  <1>29. ASSUME NEW c \in Conns, JobStart(c) PROVE SoundInv'
    <2>1. job[c] \in Jobs /\ \A x \in Conns \ {c} : job'[x] = job[x]
      BY <1>29, LocalSteps DEF Local, TypeInv
    <2>2. tmp' = tmp \/ tmp' # NoIno
      BY <1>29, Numbers DEF JobStart
    <2>3. ASSUME SoundAt(c) PROVE SoundAt(c)'
      <3>1. CASE job[c].offset = 0
        <4> DEFINE i == IF tmp = NoIno THEN c ELSE tmp
        <4>1. tmp' # NoIno /\ job'[c] = [job[c] EXCEPT !.pc = "recv", !.fd = i]
          BY <1>29, <3>1, Numbers DEF JobStart, TypeInv
        <4> HIDE DEF i
        <4>2. job'[c].pc = "recv"
          BY <2>1, <4>1 DEF Jobs
        <4> QED
          BY <4>1, <4>2 DEF SoundAt
      <3>2. CASE job[c].offset # 0
        <4>1. tmp # NoIno
          BY <1>29, <2>3, <3>2 DEF JobStart, JobAt, SoundAt, Relies
        <4>2. /\ tmp' = tmp
              /\ job'[c] = [job[c] EXCEPT !.pc = "recv", !.fd = tmp, !.received = job[c].offset]
          BY <1>29, <3>2, <4>1 DEF JobStart, TypeInv
        <4>3. job'[c].pc = "recv"
          BY <2>1, <4>2 DEF Jobs
        <4> QED
          BY <4>1, <4>2, <4>3 DEF SoundAt
      <3> QED
        BY <3>1, <3>2
    <2> QED
      BY <1>0, <2>1, <2>2, <2>3, SoundMoved
  <1>30. ASSUME NEW c \in Conns, JobChunk(c) PROVE SoundInv'
    <2>1. job[c] \in Jobs /\ \A x \in Conns \ {c} : job'[x] = job[x]
      BY <1>30, LocalSteps DEF Local, TypeInv
    <2>2. job[c].pc = "recv" /\ chunks[c] # <<>>
      BY <1>30 DEF JobChunk, JobAt
    <2>3. \A x \in Conns \ {c} : ~Relies(x)
      BY <2>2, OneRelies DEF Abortable
    <2>4. ASSUME src.mtime = 0, SoundAt(c) PROVE SoundAt(c)'
      <3> DEFINE d == Head(chunks[c])
      <3>1. /\ chunks[c] \in Seq(Seq(Block)) /\ d \in Seq(Block) /\ size \in Nat
            /\ job[c].received \in Nat /\ job[c].received <= size
        BY <2>1, <2>2, TailElements DEF TypeInv, Jobs, FileInv, FileAt
      <3>2. IsData(d, job[c].received)
        <4>1. PICK m \in Nat : Chain(chunks[c], job[c].received, m)
          BY <2>2, <2>4 DEF PipeInv, PipeAt, Flow
        <4> QED
          BY <2>2, <3>1, <4>1, ChainTail
      <3>3. Within(d)
        <4>1. d = chunks[c][1] /\ 1 \in DOMAIN chunks[c]
          BY <2>2, <3>1, TailElements
        <4> QED
          BY <2>4, <4>1 DEF TrueInv, TrueAt, TrueD
      <3>4. job[c].received + Len(d) <= size
        BY <3>1, <3>2, <3>3, NotPast
      <3>5. ~(job[c].received + Len(d) > size)
        BY <3>1, <3>4, SeqDomain
      <3>6. tmp' = tmp /\ job'[c] = [job[c] EXCEPT !.received = job[c].received + Len(d)]
        BY <1>30, <3>5 DEF JobChunk, TypeInv
      <3> HIDE DEF d
      <3>7. job'[c].pc = "recv"
        BY <2>1, <2>2, <3>6 DEF Jobs
      <3> QED
        BY <2>2, <2>4, <3>6, <3>7 DEF SoundAt, Relies
    <2> QED
      BY <1>0, <2>1, <2>2, <2>3, <2>4, SoundMoved
  <1>31. ASSUME NEW c \in Conns, JobReceived(c) PROVE SoundInv'
    <2>1. job[c] \in Jobs /\ \A x \in Conns \ {c} : job'[x] = job[x]
      BY <1>31, LocalSteps DEF Local, TypeInv
    <2>2. tmp' = tmp /\ job[c].pc = "recv"
      BY <1>31 DEF JobReceived, JobAt
    <2>3. job'[c].pc # "bad"
      BY <1>31, <2>1 DEF JobReceived, TypeInv, Jobs, JobTo
    <2>4. SoundAt(c) => SoundAt(c)'
      BY <2>2, <2>3 DEF SoundAt, Relies
    <2> QED
      BY <1>0, <2>1, <2>2, <2>3, <2>4, SoundMoved
  <1>32. ASSUME NEW c \in Conns, JobValidate(c) PROVE SoundInv'
    <2>1. job[c] \in Jobs /\ \A x \in Conns \ {c} : job'[x] = job[x]
      BY <1>32, LocalSteps DEF Local, TypeInv
    <2>2. job[c].pc = "check"
      BY <1>32 DEF JobValidate, JobAt
    <2>3. \A x \in Conns \ {c} : ~Relies(x)
      BY <2>2, OneRelies DEF Abortable
    <2>4. ASSUME src.mtime = 0, SoundAt(c) PROVE SoundAt(c)'
      <3>1. tmp # NoIno /\ tmp \in Conns
        BY <2>2, <2>4 DEF SoundAt, Relies, TypeInv
      <3>2. /\ ino[tmp] \in Seq(Block) /\ size \in Nat /\ Len(ino[tmp]) = size
            /\ IsData(ino[tmp], 0)
        BY <2>2, <2>4, <3>1 DEF TypeInv, FileInv, FileAt, PipeInv
      <3>3. ino[tmp] = Whole
        BY <3>2, IsWhole
      <3>4. ver # "v2" => ValidV4(c)
        BY <1>32, <2>4, <3>1, <3>3 DEF JobValidate, ValidV4, TrueInv, TrueAt
      <3>5. JobTo(c, "place") /\ tmp' = tmp
        BY <1>32, <3>4 DEF JobValidate, ValidV2
      <3>6. job'[c].pc = "place"
        BY <2>1, <3>5 DEF JobTo, TypeInv, Jobs
      <3> QED
        BY <3>1, <3>5, <3>6 DEF SoundAt
    <2> QED
      BY <1>0, <2>1, <2>2, <2>3, <2>4, SoundMoved
  <1>33. ASSUME NEW c \in Conns, JobPlace(c) PROVE SoundInv'
    <2>1. job[c] \in Jobs /\ \A x \in Conns \ {c} : job'[x] = job[x]
      BY <1>33, LocalSteps DEF Local, TypeInv
    <2>2. job[c].pc = "place"
      BY <1>33 DEF JobPlace, JobAt
    <2>3. \A x \in Conns \ {c} : ~Relies(x)
      BY <2>2, OneRelies DEF Abortable
    <2>4. ASSUME SoundAt(c) PROVE SoundAt(c)'
      <3>1. JobTo(c, "ok")
        BY <1>33, <2>2, <2>4 DEF JobPlace, SoundAt, Relies
      <3>2. job'[c].pc = "ok"
        BY <2>1, <3>1 DEF JobTo, TypeInv, Jobs
      <3> QED
        BY <3>2 DEF SoundAt, Relies
    <2> QED
      BY <1>0, <2>1, <2>2, <2>3, <2>4, SoundMoved
  <1>34. ASSUME NEW c \in Conns, JobPost(c) PROVE SoundInv'
    <2>1. job[c] \in Jobs /\ \A x \in Conns \ {c} : job'[x] = job[x]
      BY <1>34, LocalSteps DEF Local, TypeInv
    <2>2. tmp' = tmp /\ job'[c].pc = "end"
      BY <1>34, Constructors DEF JobPost, JobEnds, TypeInv
    <2>3. SoundAt(c)'
      BY <2>2 DEF SoundAt, Relies
    <2> QED
      BY <1>0, <2>1, <2>2, <2>3, SoundMoved
  <1>35. ASSUME NEW c \in Conns, JobCanceled(c) PROVE SoundInv'
    <2>1. job[c] \in Jobs /\ \A x \in Conns \ {c} : job'[x] = job[x]
      BY <1>35, LocalSteps DEF Local, TypeInv
    <2>2. tmp' = tmp /\ job'[c].pc = "end"
      BY <1>35, Constructors DEF JobCanceled, JobEnds, TypeInv
    <2>3. SoundAt(c)'
      BY <2>2 DEF SoundAt, Relies
    <2> QED
      BY <1>0, <2>1, <2>2, <2>3, SoundMoved
  <1>36. ASSUME NEW c \in Conns, Drained(c) PROVE SoundInv'
    BY <1>36, <1>0, SoundSame DEF Drained
  <1>37. ASSUME NEW c \in Conns, Finalize(c) PROVE SoundInv'
    <2>1. job' = job /\ sv[c] \in {"ok", "err"} /\ (tmp' = tmp \/ sv[c] = "ok")
      BY <1>37 DEF Finalize
    <2>2. ASSUME NEW x \in Conns PROVE ~Relies(x)
      <3> SUFFICES ASSUME Relies(x) PROVE FALSE
        OBVIOUS
      <3>1. job[x].pc \in Abortable
        BY DEF Relies, Abortable
      <3>2. x # c /\ sv[x] \notin {"off", "fin", "end"}
        BY <1>37, <3>1 DEF Finalize, ConnInv
      <3> QED
        BY <2>1, <3>2, Numbers DEF ConnInv
    <2>3. \A x \in Conns : SoundAt(x) => SoundAt(x)'
      BY <2>1, <2>2 DEF SoundAt, Relies
    <2> QED
      BY <1>0, <2>3 DEF SoundInv, Lasting, Ended
  <1>38. ASSUME NEW c \in Conns, ServerBreak(c) PROVE SoundInv'
    BY <1>38, <1>0, SoundSame DEF ServerBreak
  <1>39. CASE UNCHANGED vars
    BY <1>39, <1>0, SoundSame DEF vars
  <1> QED
    BY <1>1, <1>2, <1>3, <1>4, <1>5, <1>6, <1>7, <1>8, <1>9, <1>10, <1>11, <1>12,
       <1>13, <1>14, <1>15, <1>16, <1>17, <1>18, <1>19, <1>20, <1>21, <1>22, <1>23, <1>24,
       <1>25, <1>26, <1>27, <1>28, <1>29, <1>30, <1>31, <1>32, <1>33, <1>34, <1>35, <1>36,
       <1>37, <1>38, <1>39
       DEF Next, Environment, Running

-----------------------------------------------------------------------------
(* No Error is read too early.                                             *)

\* An upload of an untouched file reads it to its end.
LEMMA ReadsOn ==
  ASSUME TypeInv, TrueInv, src.mtime = 0, NEW c \in Conns, upload[c].pc = "read"
  PROVE  ReadOk(c)
  <1>1. upload[c].meta = src /\ upload[c].pos <= size /\ src.len = size
    BY DEF TrueInv, TrueAt
  <1>2. upload[c].pos \in Nat /\ size \in Nat
    BY DEF TypeInv, Uploads
  <1> DEFINE r == src.len - upload[c].pos
             m == Max({0, r})
  <1>3. r \in Int /\ 0 \in Int /\ ~(r < 0)
    BY <1>1, <1>2
  <1> HIDE DEF r
  <1>4. m = IF 0 >= r THEN 0 ELSE r
    BY <1>3, MinMax, Zenon
  <1>5. m = r
    BY <1>3, <1>4
  <1> HIDE DEF m
  <1>6. Min({CHUNK_SIZE, m}) = IF CHUNK_SIZE <= m THEN CHUNK_SIZE ELSE m
    BY <1>3, <1>5, MinMax DEF CHUNK_SIZE
  <1>7. Readable(c) = Min({CHUNK_SIZE, m})
    BY DEF Readable, m, r
  <1>8. Readable(c) = 0 => r = 0
    BY <1>3, <1>5, <1>6, <1>7 DEF CHUNK_SIZE
  <1>9. Readable(c) = 0 => upload[c].pos = src.len
    BY <1>1, <1>2, <1>8 DEF r
  <1>10. upload[c].pos + Readable(c) <= src.len
    BY <1>1, ReadableIs
  <1> QED
    BY <1>1, <1>9, <1>10 DEF ReadOk, Intact

\* What is clear was clear, and a sender without a verdict had none.
LEMMA StaysClear ==
  ASSUME TypeInv, PlaceInv, Lasting, ClearInv, Clear'
  PROVE  /\ Clear /\ src.mtime = 0 /\ src' = src /\ (sstat' = "Alive" => sstat = "Alive")
         /\ sstat # "Failed" /\ rstat # "Failed" /\ \A c \in Conns : ClearAt(c)
         /\ sstat # "Alive" => rstat = "Completed"
  <1>1. Clear
    BY DEF Lasting, Clear, Ended
  <1>2. sstat # "Alive" => rstat = "Completed"
    BY <1>1 DEF ClearInv, Clear, PlaceInv, TypeInv, Ended
  <1> QED
    BY <1>1, <1>2 DEF ClearInv, Clear, Lasting

LEMMA ClearErrors ==
  ASSUME TypeInv, PlaceInv, TrueInv, Lasting, ClearInv, Clear', \A x \in Conns : SaidS(x)
  PROVE  \A x \in Conns : Has(toS'[x], "Error") => rstat' = "Completed"
  <1>1. /\ src.mtime = 0 /\ (\A c \in Conns : ClearAt(c))
        /\ sstat # "Alive" => rstat = "Completed"
    BY StaysClear
  <1>2. \A c \in Conns : upload[c].pc = "read" => ReadOk(c)
    BY <1>1, ReadsOn
  <1>3. rstat = "Completed" => rstat' = "Completed"
    BY DEF Lasting, Ended
  <1> QED
    BY <1>1, <1>2, <1>3 DEF SaidS, ClearAt

LEMMA ToldKept ==
  ASSUME Lasting, NEW c, ToldAt(c), SameC(c), Over(c)' => Over(c)
  PROVE  ToldAt(c)'
  <1>1. "Error" \in Verdicts /\ "Done" \in Verdicts /\ {"Done"} \in SUBSET Verdicts
    BY DEF Verdicts
  <1>2. After(toC[c], "Error", {"Done"}) => After(toC'[c], "Error", {"Done"})
    BY <1>1 DEF SameC
  <1>3. Has(toC[c], "Done") => Has(toC'[c], "Done")
    BY <1>1 DEF SameC
  <1> QED
    BY <1>2, <1>3 DEF ToldAt, Lasting

\* A step of c.
LEMMA ClearMoved ==
  ASSUME TypeInv, PlaceInv, TrueInv, ClearInv, Lasting, \A x \in Conns : SaidS(x),
         NEW c \in Conns, Local(c),
         Clear /\ Clear' => sstat' # "Failed" /\ rstat' # "Failed",
         Clear /\ ToldAt(c) => ToldAt(c)'
  PROVE  ClearInv'
  <1> SUFFICES ASSUME Clear'
               PROVE  sstat' # "Failed" /\ rstat' # "Failed" /\ \A x \in Conns : ClearAt(x)'
    BY DEF ClearInv
  <1>1. Clear /\ \A x \in Conns : ClearAt(x)
    BY StaysClear
  <1>2. \A x \in Conns : Has(toS'[x], "Error") => rstat' = "Completed"
    BY ClearErrors
  <1>3. ASSUME NEW x \in Conns, x # c PROVE ToldAt(x)'
    <2>1. SameC(x) /\ (Over(x)' => Over(x))
      BY <1>3, SameSame DEF Local, Over
    <2> QED
      BY <1>1, <2>1, ToldKept DEF ClearAt
  <1> QED
    BY <1>1, <1>2, <1>3 DEF ClearAt

\* A step that leaves the verdicts alone.
LEMMA ClearSame ==
  ASSUME TypeInv, PlaceInv, TrueInv, ClearInv, Lasting,
         \A x \in Conns : SaidS(x) /\ SameC(x) /\ (Over(x)' => Over(x)),
         UNCHANGED sstat, rstat' = "Failed" => rstat = "Failed"
  PROVE  ClearInv'
  <1> SUFFICES ASSUME Clear'
               PROVE  sstat' # "Failed" /\ rstat' # "Failed" /\ \A x \in Conns : ClearAt(x)'
    BY DEF ClearInv
  <1>1. sstat # "Failed" /\ rstat # "Failed" /\ \A x \in Conns : ClearAt(x)
    BY StaysClear
  <1>2. \A x \in Conns : Has(toS'[x], "Error") => rstat' = "Completed"
    BY ClearErrors
  <1>3. \A x \in Conns : ToldAt(x)'
    BY <1>1, ToldKept DEF ClearAt
  <1> QED
    BY <1>1, <1>2, <1>3 DEF ClearAt

LEMMA ClearInit == Init => ClearInv
  <1> SUFFICES ASSUME Init PROVE ClearInv
    OBVIOUS
  <1>1. \A x \in Conns : toC[x] = <<>> /\ toS[x] = <<>> /\ ~held[x]
    BY DEF Init
  <1>2. sstat = "Alive" /\ rstat = "Idle"
    BY DEF Init
  <1> QED
    BY <1>1, <1>2, NothingSaid DEF ClearInv, ClearAt, ToldAt, Over

LEMMA ClearStep == TypeInv /\ ConnInv /\ FileInv /\ ServeInv /\ PlaceInv /\ TrueInv /\ SoundInv /\ ClearInv /\ [Next]_vars => ClearInv'
  <1> SUFFICES ASSUME TypeInv, ConnInv, FileInv, ServeInv, PlaceInv, TrueInv, SoundInv, ClearInv, [Next]_vars PROVE ClearInv'
    OBVIOUS
  <1> USE DEF fixed, sender, client, wire, receiver, server, task, disk
  <1>0. Lasting /\ \A x \in Conns : SaidS(x)
    BY VerdictsLast, SaidStep
  <1>1. CASE ApiDownload
    <2>1. rstat = "Idle" /\ UNCHANGED <<sstat, toC>> /\ rstat' = "InFlight"
      BY <1>1 DEF ApiDownload
    <2>2. \A x \in Conns : job'[x] = job[x] \/ job'[x] = [job[x] EXCEPT !.pc = "load"]
      BY <1>1 DEF ApiDownload, TypeInv
    <2>3. ASSUME NEW x \in Conns PROVE job'[x].pc # "end"
      <3>1. job[x] \in Jobs /\ job[x].pc = "none"
        BY <2>1 DEF TypeInv, ConnInv
      <3> QED
        BY <2>2, <3>1 DEF Jobs
    <2>4. \A x \in Conns : SameC(x) /\ (Over(x)' => Over(x))
      BY <2>1, <2>3, SameSame DEF Over
    <2> QED
      BY <1>0, <2>1, <2>4, ClearSame
  <1>2. CASE Modify
    <2>1. \A x \in Conns : SameC(x) /\ (Over(x)' => Over(x))
      BY <1>2, SameSame DEF Modify, Over
    <2> QED
      BY <1>2, <1>0, <2>1, ClearSame DEF Modify
  <1>3. CASE ApiSenderReject
    BY <1>3 DEF ApiSenderReject, ClearInv, Clear
  <1>4. CASE ApiReject
    BY <1>4 DEF ApiReject, ClearInv, Clear
  <1>5. CASE ApiCancel
    <2>1. \A x \in Conns : SameC(x)
      BY <1>5, QuietSteps
    <2>2. /\ UNCHANGED <<sstat, rstat, cl, job>>
          /\ \A x \in Conns : (sv'[x] = "run" => sv[x] = "run") /\ (held'[x] => held[x])
      BY <1>5 DEF ApiCancel, TypeInv
    <2>3. \A x \in Conns : Over(x)' => Over(x)
      BY <2>2 DEF Over
    <2> QED
      BY <1>0, <2>1, <2>2, <2>3, ClearSame
  <1>6. CASE Crash
    <2>1. \A x \in Conns : SameC(x) /\ ~held'[x]
      BY <1>6, SameSame DEF Crash
    <2>2. \A x \in Conns : Over(x)' => Over(x)
      BY <2>1 DEF Over
    <2> QED
      BY <1>6, <1>0, <2>1, <2>2, ClearSame DEF Crash
  <1>7. CASE SaveChecksum
    <2>1. \A x \in Conns : SameC(x) /\ (Over(x)' => Over(x))
      BY <1>7, SameSame DEF SaveChecksum, Over
    <2> QED
      BY <1>7, <1>0, <2>1, ClearSame DEF SaveChecksum
  <1>8. ASSUME NEW c \in Conns, Connect(c) PROVE ClearInv'
    <2>1. Local(c) /\ rstat' = rstat /\ sstat' = sstat
      BY <1>8, LocalSteps DEF Connect
    <2>2. held'[c] => job'[c].pc = "load"
      BY <1>8 DEF Connect, TypeInv, Jobs
    <2>3. ASSUME Clear PROVE ToldAt(c)'
      <3>1. ~Has(toC'[c], "Error")
        BY <1>8, <2>3, FirstRead DEF Verdicts, ClearInv
      <3>2. After(toC'[c], "Error", {"Done"})
        BY <3>1 DEF Has, After
      <3> QED
        BY <2>2, <3>2 DEF ToldAt, Over
    <2> QED
      BY <1>0, <2>1, <2>3, ClearMoved DEF ClearInv
  <1>9. ASSUME NEW c \in Conns, ConnectClosed(c) PROVE ClearInv'
    <2>1. /\ Local(c) /\ UNCHANGED <<rstat, sstat>> /\ toC'[c] = <<Note("Close")>>
          /\ sv'[c] = "drain"
      BY <1>9, LocalSteps DEF ConnectClosed, TypeInv
    <2>2. After(toC'[c], "Error", {"Done"})
      <3>1. Note("Close") \in Message /\ Note("Close").k = "Close"
        BY NoteTyped DEF Kinds
      <3> QED
        BY <2>1, <3>1, OneSaid
    <2>3. ToldAt(c)'
      BY <2>1, <2>2 DEF ToldAt, Over
    <2> QED
      BY <1>0, <2>1, <2>3, ClearMoved DEF ClearInv
  <1>10. ASSUME NEW c \in Conns, RecvReqChsum(c) PROVE ClearInv'
    <2>1. SameC(c) /\ Local(c)
      BY <1>10, QuietSteps, LocalSteps
    <2>2. Over(c)' => Over(c)
      BY <1>10 DEF RecvReqChsum, TypeInv, Over
    <2>3. UNCHANGED <<sstat>> /\ rstat' \in {rstat, "Rejected"}
      BY <1>10 DEF RecvReqChsum
    <2> QED
      BY <1>0, <2>1, <2>2, <2>3, ToldKept, ClearMoved DEF Clear, ClearInv
  <1>11. ASSUME NEW c \in Conns, ReportChsum(c) PROVE ClearInv'
    <2>1. SameC(c) /\ Local(c)
      BY <1>11, SameSame, LocalSteps DEF ReportChsum
    <2>2. Over(c)' => Over(c)
      BY <1>11 DEF ReportChsum, TypeInv, Over
    <2>3. UNCHANGED <<sstat>> /\ rstat' \in {rstat, "Rejected"}
      BY <1>11 DEF ReportChsum
    <2> QED
      BY <1>0, <2>1, <2>2, <2>3, ToldKept, ClearMoved DEF Clear, ClearInv
  <1>12. ASSUME NEW c \in Conns, RecvStart(c) PROVE ClearInv'
    <2>1. SameC(c) /\ Local(c)
      BY <1>12, QuietSteps, LocalSteps
    <2>2. Over(c)' => Over(c)
      BY <1>12 DEF RecvStart, TypeInv, Over
    <2>3. UNCHANGED <<sstat>> /\ rstat' \in {rstat, "Rejected"}
      BY <1>12 DEF RecvStart
    <2> QED
      BY <1>0, <2>1, <2>2, <2>3, ToldKept, ClearMoved DEF Clear, ClearInv
  <1>13. ASSUME NEW c \in Conns, UploadOpen(c) PROVE ClearInv'
    <2>1. SameC(c) /\ Local(c)
      BY <1>13, SameSame, LocalSteps DEF UploadOpen
    <2>2. Over(c)' => Over(c)
      BY <1>13 DEF UploadOpen, TypeInv, Over
    <2>3. UNCHANGED <<sstat>> /\ rstat' \in {rstat, "Rejected"}
      BY <1>13 DEF UploadOpen
    <2> QED
      BY <1>0, <2>1, <2>2, <2>3, ToldKept, ClearMoved DEF Clear, ClearInv
  <1>14. ASSUME NEW c \in Conns, UploadChunk(c) PROVE ClearInv'
    <2>1. SameC(c) /\ Local(c)
      BY <1>14, SameSame, LocalSteps DEF UploadChunk
    <2>2. Over(c)' => Over(c)
      BY <1>14 DEF UploadChunk, TypeInv, Over
    <2>3. UNCHANGED <<sstat>> /\ rstat' \in {rstat, "Rejected"}
      BY <1>14 DEF UploadChunk
    <2> QED
      BY <1>0, <2>1, <2>2, <2>3, ToldKept, ClearMoved DEF Clear, ClearInv
  <1>15. ASSUME NEW c \in Conns, UploadDone(c) PROVE ClearInv'
    <2>1. SameC(c) /\ Local(c)
      BY <1>15, SameSame, LocalSteps DEF UploadDone
    <2>2. Over(c)' => Over(c)
      BY <1>15 DEF UploadDone, TypeInv, Over
    <2>3. UNCHANGED <<sstat>> /\ rstat' \in {rstat, "Rejected"}
      BY <1>15 DEF UploadDone
    <2> QED
      BY <1>0, <2>1, <2>2, <2>3, ToldKept, ClearMoved DEF Clear, ClearInv
  <1>16. ASSUME NEW c \in Conns, UploadFail(c) PROVE ClearInv'
    <2>1. SameC(c) /\ Local(c)
      BY <1>16, SameSame, LocalSteps DEF UploadFail
    <2>2. ~Clear
      <3>1. upload[c].pc = "read" /\ ~ReadOk(c)
        BY <1>16 DEF UploadFail
      <3> QED
        BY <3>1, ReadsOn DEF Clear
    <2> QED
      BY <1>0, <2>1, <2>2, ClearMoved
  <1>17. ASSUME NEW c \in Conns, RecvVerdict(c) PROVE ClearInv'
    <2>1. Local(c) /\ UNCHANGED rstat
      BY <1>17, LocalSteps DEF RecvVerdict
    <2>2. PICK k \in {"Done", "Error", "Reject"} :
            GotC(c, k) /\ TakeC(c) /\ sstat' = IF sstat = "Alive" THEN VerdictOf(k) ELSE sstat
      BY <1>17 DEF RecvVerdict
    <2>3. /\ toC[c] \in Seq(Message) /\ toC[c] # <<>> /\ toC'[c] = Tail(toC[c])
          /\ Head(toC[c]).k = k
      BY <2>2 DEF TypeInv, GotC, TakeC
    <2>4. ToldAt(c)'
      BY <2>2 DEF VerdictOf, ToldAt
    <2>5. ASSUME Clear, sstat = "Alive" PROVE k # "Error"
      <3>1. After(toC[c], "Error", {"Done"})
        BY <2>5 DEF ClearInv, ClearAt, ToldAt
      <3> QED
        BY <2>3, <3>1, AfterTail
    <2>6. Clear => sstat' # "Failed" /\ rstat' # "Failed"
      BY <2>1, <2>2, <2>5 DEF VerdictOf, ClearInv
    <2> QED
      BY <1>0, <2>1, <2>4, <2>6, ClearMoved
  <1>18. ASSUME NEW c \in Conns, RecvCancelC(c) PROVE ClearInv'
    <2>1. SameC(c) /\ Local(c)
      BY <1>18, QuietSteps, LocalSteps
    <2>2. Over(c)' => Over(c)
      BY <1>18 DEF RecvCancelC, TypeInv, Over
    <2>3. UNCHANGED <<sstat>> /\ rstat' \in {rstat, "Rejected"}
      BY <1>18 DEF RecvCancelC
    <2> QED
      BY <1>0, <2>1, <2>2, <2>3, ToldKept, ClearMoved DEF Clear, ClearInv
  <1>19. ASSUME NEW c \in Conns, RecvClose(c) PROVE ClearInv'
    <2>1. /\ Local(c) /\ UNCHANGED <<rstat, sstat>> /\ toC'[c] = <<>>
          /\ cl'[c] # "run"
      BY <1>19, LocalSteps DEF RecvClose, ClientEnds, TypeInv
    <2>2. ToldAt(c)'
      BY <2>1, NothingSaid DEF ToldAt, Over
    <2> QED
      BY <1>0, <2>1, <2>2, ClearMoved DEF ClearInv
  <1>20. ASSUME NEW c \in Conns, ClientBreak(c) PROVE ClearInv'
    <2>1. /\ Local(c) /\ UNCHANGED <<rstat, sstat>> /\ toC'[c] = <<>>
          /\ cl'[c] # "run"
      BY <1>20, LocalSteps DEF ClientBreak, ClientEnds, TypeInv
    <2>2. ToldAt(c)'
      BY <2>1, NothingSaid DEF ToldAt, Over
    <2> QED
      BY <1>0, <2>1, <2>2, ClearMoved DEF ClearInv
  <1>21. ASSUME NEW c \in Conns, RecvChunk(c) PROVE ClearInv'
    <2>1. Local(c) /\ UNCHANGED <<rstat, sstat, job, held, sv, cl>> /\ sv[c] = "run"
      BY <1>21, LocalSteps DEF RecvChunk, GotS
    <2>2. ASSUME ToldAt(c) PROVE ToldAt(c)'
      <3>1. CASE held[c] /\ job[c].pc = "end" /\ cl[c] = "run" /\ sstat = "Alive"
        <4>1. Note("Error") \in Message /\ Note("Error").k = "Error" /\ SendC(c, <<Note("Error")>>)
          BY <1>21, <3>1, NoteTyped DEF RecvChunk, Kinds
        <4>2. toC[c] \in Seq(Message) /\ toC'[c] = Append(toC[c], Note("Error"))
          BY <3>1, <4>1, SendCIs
        <4>3. After(toC[c], "Error", {"Done"}) /\ Has(toC[c], "Done")
          BY <2>1, <2>2, <3>1 DEF ToldAt, Over
        <4>4. Has(toC'[c], "Done")
          BY <4>1, <4>2, <4>3, HasAppend
        <4>5. After(toC'[c], "Error", {"Done"})
          BY <4>1, <4>2, <4>3, AfterAppend
        <4> QED
          BY <4>4, <4>5 DEF ToldAt
      <3>2. CASE sstat # "Alive"
        BY <2>1, <3>2 DEF ToldAt
      <3>3. CASE ~(held[c] /\ job[c].pc = "end" /\ cl[c] = "run")
        <4>1. toC' = toC
          BY <1>21, <3>3 DEF RecvChunk, SendC
        <4> QED
          BY <2>1, <2>2, <4>1 DEF ToldAt, Over
      <3> QED
        BY <3>1, <3>2, <3>3
    <2> QED
      BY <1>0, <2>1, <2>2, ClearMoved DEF ClearInv
  <1>22. ASSUME NEW c \in Conns, RecvReportChsum(c) PROVE ClearInv'
    <2>1. SameC(c) /\ Local(c)
      BY <1>22, SameSame, LocalSteps DEF RecvReportChsum
    <2>2. Over(c)' => Over(c)
      BY <1>22 DEF RecvReportChsum, TypeInv, Over
    <2>3. UNCHANGED <<sstat>> /\ rstat' \in {rstat, "Rejected"}
      BY <1>22 DEF RecvReportChsum
    <2> QED
      BY <1>0, <2>1, <2>2, <2>3, ToldKept, ClearMoved DEF Clear, ClearInv
  <1>23. ASSUME NEW c \in Conns, RecvError(c) PROVE ClearInv'
    <2>1. Local(c) /\ UNCHANGED <<sstat, toC>> /\ ~held'[c]
      BY <1>23, LocalSteps DEF RecvError, StopTask, TypeInv
    <2>2. Has(toS[c], "Error") /\ (rstat \in Ended => rstat' = rstat)
      BY <1>23, SaidTaken DEF RecvError
    <2>3. ASSUME Clear PROVE rstat' # "Failed" /\ sstat' # "Failed"
      BY <2>1, <2>2, <2>3 DEF ClearInv, ClearAt, Ended
    <2>4. ToldAt(c) => ToldAt(c)'
      BY <2>1 DEF ToldAt, Over
    <2> QED
      BY <1>0, <2>1, <2>3, <2>4, ClearMoved
  <1>24. ASSUME NEW c \in Conns, RecvReject(c) PROVE ClearInv'
    <2>1. SameC(c) /\ Local(c)
      BY <1>24, SameSame, LocalSteps DEF RecvReject
    <2>2. Over(c)' => Over(c)
      BY <1>24 DEF RecvReject, TypeInv, Over, StopTask
    <2>3. UNCHANGED <<sstat>> /\ rstat' \in {rstat, "Rejected"}
      BY <1>24 DEF RecvReject
    <2> QED
      BY <1>0, <2>1, <2>2, <2>3, ToldKept, ClearMoved DEF Clear, ClearInv
  <1>25. ASSUME NEW c \in Conns, RecvCancel(c) PROVE ClearInv'
    <2>1. SameC(c) /\ Local(c)
      BY <1>25, SameSame, LocalSteps DEF RecvCancel
    <2>2. Over(c)' => Over(c)
      BY <1>25 DEF RecvCancel, TypeInv, Over, StopTask
    <2>3. UNCHANGED <<sstat>> /\ rstat' \in {rstat, "Rejected"}
      BY <1>25 DEF RecvCancel
    <2> QED
      BY <1>0, <2>1, <2>2, <2>3, ToldKept, ClearMoved DEF Clear, ClearInv
  <1>26. ASSUME NEW c \in Conns, JobInit(c) PROVE ClearInv'
    <2>0. job[c] \in Jobs
      BY DEF TypeInv
    <2>1. SameC(c) /\ Local(c)
      BY <1>26, QuietSteps, LocalSteps
    <2>2. job'[c].pc = "end" => job[c].pc = "end"
      BY <1>26, <2>0 DEF JobInit, TypeInv, Jobs, InitV2, InitV4
    <2>3. UNCHANGED <<held, sv, cl, sstat, rstat>>
      BY <1>26 DEF JobInit
    <2>4. Over(c)' => Over(c)
      BY <2>2, <2>3 DEF Over
    <2> QED
      BY <1>0, <2>1, <2>3, <2>4, ToldKept, ClearMoved DEF Clear, ClearInv
  <1>27. ASSUME NEW c \in Conns, JobPartial(c) PROVE ClearInv'
    <2>0. job[c] \in Jobs
      BY DEF TypeInv
    <2>1. SameC(c) /\ Local(c)
      BY <1>27, SameSame, LocalSteps DEF JobPartial
    <2>2. job'[c].pc = "end" => job[c].pc = "end"
      BY <1>27, <2>0 DEF JobPartial, TypeInv, Jobs
    <2>3. UNCHANGED <<held, sv, cl, sstat, rstat>>
      BY <1>27 DEF JobPartial
    <2>4. Over(c)' => Over(c)
      BY <2>2, <2>3 DEF Over
    <2> QED
      BY <1>0, <2>1, <2>3, <2>4, ToldKept, ClearMoved DEF Clear, ClearInv
  <1>28. ASSUME NEW c \in Conns, JobFull(c) PROVE ClearInv'
    <2>0. job[c] \in Jobs
      BY DEF TypeInv
    <2>1. SameC(c) /\ Local(c)
      BY <1>28, SameSame, LocalSteps DEF JobFull
    <2>2. job'[c].pc = "end" => job[c].pc = "end"
      BY <1>28, <2>0 DEF JobFull, TypeInv, Jobs
    <2>3. UNCHANGED <<held, sv, cl, sstat, rstat>>
      BY <1>28 DEF JobFull
    <2>4. Over(c)' => Over(c)
      BY <2>2, <2>3 DEF Over
    <2> QED
      BY <1>0, <2>1, <2>3, <2>4, ToldKept, ClearMoved DEF Clear, ClearInv
  <1>29. ASSUME NEW c \in Conns, JobStart(c) PROVE ClearInv'
    <2>1. SameC(c) /\ Local(c)
      BY <1>29, QuietSteps, LocalSteps
    <2>2. job'[c].pc = "end" => job[c].pc = "end"
      BY <1>29, JobGoesOn
    <2>3. UNCHANGED <<held, sv, cl, sstat, rstat>>
      BY <1>29 DEF JobStart
    <2>4. Over(c)' => Over(c)
      BY <2>2, <2>3 DEF Over
    <2> QED
      BY <1>0, <2>1, <2>3, <2>4, ToldKept, ClearMoved DEF Clear, ClearInv
  <1>30. ASSUME NEW c \in Conns, JobChunk(c) PROVE ClearInv'
    <2>1. SameC(c) /\ Local(c)
      BY <1>30, SameSame, LocalSteps DEF JobChunk
    <2>2. job'[c].pc = "end" => job[c].pc = "end"
      BY <1>30, JobGoesOn
    <2>3. UNCHANGED <<held, sv, cl, sstat, rstat>>
      BY <1>30 DEF JobChunk
    <2>4. Over(c)' => Over(c)
      BY <2>2, <2>3 DEF Over
    <2> QED
      BY <1>0, <2>1, <2>3, <2>4, ToldKept, ClearMoved DEF Clear, ClearInv
  <1>31. ASSUME NEW c \in Conns, JobReceived(c) PROVE ClearInv'
    <2>0. job[c] \in Jobs
      BY DEF TypeInv
    <2>1. SameC(c) /\ Local(c)
      BY <1>31, SameSame, LocalSteps DEF JobReceived
    <2>2. job'[c].pc = "end" => job[c].pc = "end"
      BY <1>31, <2>0 DEF JobReceived, TypeInv, Jobs, JobTo
    <2>3. UNCHANGED <<held, sv, cl, sstat, rstat>>
      BY <1>31 DEF JobReceived
    <2>4. Over(c)' => Over(c)
      BY <2>2, <2>3 DEF Over
    <2> QED
      BY <1>0, <2>1, <2>3, <2>4, ToldKept, ClearMoved DEF Clear, ClearInv
  <1>32. ASSUME NEW c \in Conns, JobValidate(c) PROVE ClearInv'
    <2>0. job[c] \in Jobs
      BY DEF TypeInv
    <2>1. SameC(c) /\ Local(c)
      BY <1>32, SameSame, LocalSteps DEF JobValidate
    <2>2. job'[c].pc = "end" => job[c].pc = "end"
      BY <1>32, <2>0 DEF JobValidate, TypeInv, Jobs, JobTo
    <2>3. UNCHANGED <<held, sv, cl, sstat, rstat>>
      BY <1>32 DEF JobValidate
    <2>4. Over(c)' => Over(c)
      BY <2>2, <2>3 DEF Over
    <2> QED
      BY <1>0, <2>1, <2>3, <2>4, ToldKept, ClearMoved DEF Clear, ClearInv
  <1>33. ASSUME NEW c \in Conns, JobPlace(c) PROVE ClearInv'
    <2>0. job[c] \in Jobs
      BY DEF TypeInv
    <2>1. SameC(c) /\ Local(c)
      BY <1>33, SameSame, LocalSteps DEF JobPlace
    <2>2. job'[c].pc = "end" => job[c].pc = "end"
      BY <1>33, <2>0 DEF JobPlace, TypeInv, Jobs, JobTo
    <2>3. UNCHANGED <<held, sv, cl, sstat, rstat>>
      BY <1>33 DEF JobPlace
    <2>4. Over(c)' => Over(c)
      BY <2>2, <2>3 DEF Over
    <2> QED
      BY <1>0, <2>1, <2>3, <2>4, ToldKept, ClearMoved DEF Clear, ClearInv
  <1>34. ASSUME NEW c \in Conns, JobPost(c) PROVE ClearInv'
    <2>1. Local(c) /\ UNCHANGED <<sstat, held, sv, cl>>
      BY <1>34, LocalSteps DEF JobPost
    <2>2. ASSUME Clear PROVE job[c].pc = "ok"
      BY <1>34, <2>2 DEF JobPost, JobAt, SoundInv, SoundAt, Clear
    <2>3. Clear => rstat' # "Failed" /\ sstat' # "Failed"
      BY <1>34, <2>1, <2>2 DEF JobPost, JobAt, ClearInv
    <2>4. ASSUME Clear, ToldAt(c) PROVE ToldAt(c)'
      <3>1. Note("Done") \in Message /\ Note("Done").k = "Done"
        BY NoteTyped DEF Kinds
      <3>2. CASE sv[c] = "run" /\ cl[c] = "run"
        <4>1. SendC(c, <<Note("Done")>>)
          BY <1>34, <2>2, <2>4, <3>2 DEF JobPost, JobAt
        <4>2. toC[c] \in Seq(Message) /\ toC'[c] = Append(toC[c], Note("Done"))
          BY <3>1, <3>2, <4>1, SendCIs
        <4>3. Has(toC'[c], "Done")
          BY <3>1, <4>2, HasAppend
        <4>4. After(toC[c], "Error", {"Done"}) => After(toC'[c], "Error", {"Done"})
          BY <3>1, <4>2, AfterAppend
        <4> QED
          BY <2>1, <2>4, <4>3, <4>4 DEF ToldAt
      <3>3. CASE ~(sv[c] = "run" /\ cl[c] = "run")
        <4>1. toC' = toC
          BY <1>34, <3>3 DEF JobPost, SendC
        <4> QED
          BY <2>1, <2>4, <3>3, <4>1 DEF ToldAt, Over
      <3> QED
        BY <3>2, <3>3
    <2> QED
      BY <1>0, <2>1, <2>3, <2>4, ClearMoved
  <1>35. ASSUME NEW c \in Conns, JobCanceled(c) PROVE ClearInv'
    <2>1. Local(c) /\ UNCHANGED <<sstat, rstat, held, sv, cl, toC>>
      BY <1>35, LocalSteps DEF JobCanceled
    <2>2. ~(held[c] /\ sv[c] = "run")
      <3> SUFFICES ASSUME held[c], sv[c] = "run" PROVE FALSE
        OBVIOUS
      <3>1. ~aborted[c]
        BY DEF ServeInv, ServeAt
      <3>2. ~Removed
        BY Numbers DEF Removed, ConnInv
      <3> QED
        BY <1>35, <3>1, <3>2 DEF JobCanceled
    <2>3. ToldAt(c) => ToldAt(c)'
      BY <2>1, <2>2 DEF ToldAt, Over
    <2> QED
      BY <1>0, <2>1, <2>3, ClearMoved DEF ClearInv
  <1>36. ASSUME NEW c \in Conns, Drained(c) PROVE ClearInv'
    <2>1. SameC(c) /\ Local(c)
      BY <1>36, SameSame, LocalSteps DEF Drained
    <2>2. Over(c)' => Over(c)
      BY <1>36 DEF Drained, TypeInv, Over, Leave
    <2>3. UNCHANGED <<sstat>> /\ rstat' \in {rstat, "Rejected"}
      BY <1>36 DEF Drained
    <2> QED
      BY <1>0, <2>1, <2>2, <2>3, ToldKept, ClearMoved DEF Clear, ClearInv
  <1>37. ASSUME NEW c \in Conns, Finalize(c) PROVE ClearInv'
    <2>1. SameC(c) /\ Local(c)
      BY <1>37, SameSame, LocalSteps DEF Finalize
    <2>2. Over(c)' => Over(c)
      BY <1>37 DEF Finalize, TypeInv, Over
    <2>3. UNCHANGED <<sstat>> /\ rstat' \in {rstat, "Rejected"}
      BY <1>37 DEF Finalize
    <2> QED
      BY <1>0, <2>1, <2>2, <2>3, ToldKept, ClearMoved DEF Clear, ClearInv
  <1>38. ASSUME NEW c \in Conns, ServerBreak(c) PROVE ClearInv'
    <2>1. SameC(c) /\ Local(c)
      BY <1>38, SameSame, LocalSteps DEF ServerBreak
    <2>2. Over(c)' => Over(c)
      BY <1>38 DEF ServerBreak, TypeInv, Over, Leave
    <2>3. UNCHANGED <<sstat>> /\ rstat' \in {rstat, "Rejected"}
      BY <1>38 DEF ServerBreak
    <2> QED
      BY <1>0, <2>1, <2>2, <2>3, ToldKept, ClearMoved DEF Clear, ClearInv
  <1>39. CASE UNCHANGED vars
    <2>1. \A x \in Conns : SameC(x) /\ (Over(x)' => Over(x))
      BY <1>39, SameSame DEF vars, Over
    <2> QED
      BY <1>39, <1>0, <2>1, ClearSame DEF vars
  <1> QED
    BY <1>1, <1>2, <1>3, <1>4, <1>5, <1>6, <1>7, <1>8, <1>9, <1>10, <1>11, <1>12,
       <1>13, <1>14, <1>15, <1>16, <1>17, <1>18, <1>19, <1>20, <1>21, <1>22, <1>23, <1>24,
       <1>25, <1>26, <1>27, <1>28, <1>29, <1>30, <1>31, <1>32, <1>33, <1>34, <1>35, <1>36,
       <1>37, <1>38, <1>39
       DEF Next, Environment, Running

-----------------------------------------------------------------------------
LEMMA VerdictInit == Overlap = FALSE /\ Init => VerdictInv
  BY StreamInit, ServeInit, PlaceInit, RefuseInit, TrueInit, SoundInit, ClearInit DEF VerdictInv

LEMMA VerdictStep == VerdictInv /\ [Next]_vars => VerdictInv'
  <1> SUFFICES ASSUME VerdictInv, [Next]_vars PROVE VerdictInv'
    OBVIOUS
  <1>1. /\ StreamInv /\ ServeInv /\ PlaceInv /\ RefuseInv /\ TrueInv /\ SoundInv /\ ClearInv
        /\ Overlap = FALSE /\ TypeInv /\ ConnInv /\ FileInv /\ PipeInv
    BY DEF VerdictInv, StreamInv
  <1>2. StreamInv'
    BY <1>1, StreamStep
  <1>3. ServeInv'
    BY <1>1, ServeStep
  <1>4. PlaceInv'
    BY <1>1, PlaceStep
  <1>5. RefuseInv'
    BY <1>1, RefuseStep
  <1>6. TrueInv'
    BY <1>1, TrueStep
  <1>7. SoundInv'
    BY <1>1, SoundStep
  <1>8. ClearInv'
    BY <1>1, ClearStep
  <1> QED
    BY <1>2, <1>3, <1>4, <1>5, <1>6, <1>7, <1>8 DEF VerdictInv

\* The verdicts of the two sides, of the messages between them and of the jobs fit together,
\* as long as connections do not overlap.
THEOREM VerdictsAgree == Overlap = FALSE /\ Spec => []VerdictInv
  BY VerdictInit, VerdictStep, PTL DEF Spec

\* The sender says Completed (outgoing_terminal_recv of a Done) only of a file that is at its
\* destination; with v6 and an untouched file the receiver has it as Completed too, though
\* either application may reject it while the Done is on its way.
THEOREM StreamDeliveredIsPlaced == Overlap = FALSE /\ Spec => []DeliveredIsPlaced
  <1>1. VerdictInv => DeliveredIsPlaced
    <2> SUFFICES ASSUME VerdictInv, sstat = "Completed"
                 PROVE  dest # {} /\ (ver = "v6" /\ src.mtime = 0 => rstat = "Completed")
      BY DEF DeliveredIsPlaced
    <2>1. rstat \in Ended /\ dest # {}
      BY DEF VerdictInv, PlaceInv
    <2>2. ver = "v6" => rstat # "Rejected"
      BY DEF VerdictInv, RefuseInv
    <2>3. src.mtime = 0 /\ rstat # "Rejected" => rstat # "Failed"
      BY DEF VerdictInv, ClearInv, Clear
    <2> QED
      BY <2>1, <2>2, <2>3 DEF Ended
  <1> QED
    BY <1>1, VerdictsAgree, PTL

\* A file the sender did not touch and nobody rejected is never called Failed by either side:
\* no broken connection, kill, resumption or repeated verdict makes a download fail.
THEOREM StreamNoFalseFailure == Overlap = FALSE /\ Spec => []NoFalseFailure
  <1>1. VerdictInv => NoFalseFailure
    BY DEF VerdictInv, ClearInv, Clear, NoFalseFailure
  <1> QED
    BY <1>1, VerdictsAgree, PTL
=============================================================================
