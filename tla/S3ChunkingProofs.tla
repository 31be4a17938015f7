-------------------------- MODULE S3ChunkingProofs --------------------------
(***************************************************************************)
(* Proofs about S3Chunking, for any number of events, workers, chunks and  *)
(* failing uploads.                                                        *)
(***************************************************************************)
EXTENDS S3Chunking, FunctionTheorems, FiniteSetTheorems, TLAPS

-----------------------------------------------------------------------------
(* Chunks suffice                                                          *)

(* A function has at most as many values as arguments.                     *)
LEMMA ImageBound ==
    ASSUME NEW S, IsFiniteSet(S), NEW f, DOMAIN f = S, f = [x \in S |-> f[x]]
    PROVE  LET T == {f[x] : x \in S} IN IsFiniteSet(T) /\ Cardinality(T) <= Cardinality(S)
<1> DEFINE T == {f[x] : x \in S}
<1>1. f \in Surjection(S, T)
  BY DEF Surjection
<1> QED
  BY <1>1, FS_Surjection

(* There are more chunks than chunk and upload workers can use.            *)
LEMMA FreshChunk ==
    TypeOK => /\ Fresh \in Chunk
              /\ \A w \in Worker : cur[w] # Fresh
              /\ \A u \in Uploader : up[u] # Fresh
<1> SUFFICES ASSUME TypeOK PROVE Fresh \in Chunk /\ Fresh \notin InUse
  BY DEF InUse
<1> DEFINE A == {cur[w] : w \in Worker}
           B == {up[u] : u \in Uploader}
<1>1. IsFiniteSet(Worker) /\ Cardinality(Worker) = S3Concurrency /\ Uploader = Worker
  BY FS_Interval, S3Sizes DEF Worker, Uploader
<1>2. IsFiniteSet(A) /\ Cardinality(A) <= S3Concurrency
  BY <1>1, ImageBound DEF TypeOK
<1>3. IsFiniteSet(B) /\ Cardinality(B) <= S3Concurrency
  BY <1>1, ImageBound DEF TypeOK
<1>4. IsFiniteSet(A \cup B) /\ Cardinality(A \cup B) <= 2 * S3Concurrency
  <2> HIDE DEF A, B
  <2>1. IsFiniteSet(A \cap B)
    BY <1>2, FS_Intersection
  <2>2. Cardinality(A) \in Nat /\ Cardinality(B) \in Nat /\ Cardinality(A \cap B) \in Nat
    BY <1>2, <1>3, <2>1, FS_CardinalityType
  <2>3. /\ IsFiniteSet(A \cup B)
        /\ Cardinality(A \cup B) = Cardinality(A) + Cardinality(B) - Cardinality(A \cap B)
    BY <1>2, <1>3, FS_Union
  <2> QED
    BY <1>2, <1>3, <2>2, <2>3, S3Sizes
<1>5. ~(Chunk \subseteq A \cup B)
  BY <1>4, FS_Subset, FS_CardinalityType, S3Sizes
<1>6. \E c \in Chunk : c \notin InUse
  BY <1>5 DEF InUse
<1> QED
  BY <1>6 DEF Fresh

LEMMA FirstChunksDiffer ==
    /\ FirstChunks \in [Worker -> Chunk]
    /\ \A v, w \in Worker : FirstChunks[v] = FirstChunks[w] => v = w
<1>1. PICK b \in Bijection(1..Cardinality(Chunk), Chunk) : TRUE
  BY S3Sizes, FS_CardinalityType DEF ExistsBijection
<1> DEFINE f == [w \in Worker |-> b[w]]
<1>2. Worker \subseteq 1..Cardinality(Chunk)
  BY S3Sizes, FS_CardinalityType DEF Worker
<1>3. f \in [Worker -> Chunk] /\ \A v, w \in Worker : f[v] = f[w] => v = w
  BY <1>1, <1>2 DEF Bijection, Injection, Surjection, IsInjective
<1> QED
  BY <1>3 DEF FirstChunks

-----------------------------------------------------------------------------
(* Types                                                                   *)

LEMMA AdvanceType ==
    TypeOK /\ Advance => pos' \in Worker /\ out' \in {"select", "roll"}
BY S3Sizes DEF TypeOK, Advance, Worker

LEMMA TypeInit == Init => TypeOK
BY FirstChunksDiffer, S3Sizes DEF Init, TypeOK, Worker, Uploader

LEMMA TypeKept == TypeOK /\ [Next]_vars => TypeOK'
<1> SUFFICES ASSUME TypeOK, [Next]_vars PROVE TypeOK' OBVIOUS
<1> USE DEF TypeOK
<1>1. CASE UNCHANGED vars
  BY <1>1 DEF vars, outVars, workVars, chunkVars, upVars, eventVars
<1>2. ASSUME NEW e \in Event, HandleMessage(e) PROVE TypeOK'
  BY <1>2 DEF HandleMessage, workVars, chunkVars, upVars
<1>3. CASE HandleTick \/ HandleTerm
  <2>1. 1 \in Worker
    BY S3Sizes DEF Worker
  <2>2. CASE HandleTick
    BY <2>1, <2>2 DEF HandleTick, workVars, chunkVars, upVars, eventVars
  <2>3. CASE HandleTerm
    BY <2>3 DEF HandleTerm, workVars, chunkVars, upVars, eventVars
  <2> QED
    BY <1>3, <2>2, <2>3
<1>4. CASE OutputStep
  <2>1. ASSUME NEW w \in Worker, HandOver(w) PROVE TypeOK'
    BY <2>1 DEF HandOver, chunkVars, upVars, eventVars
  <2>2. CASE SkipChunker
    BY <2>2, AdvanceType DEF SkipChunker, workVars, chunkVars, upVars, eventVars
  <2>7. CASE RollChunker
    BY <2>7 DEF RollChunker, chunkVars, upVars, eventVars
  <2>3. CASE OutputCloses
    BY <2>3 DEF OutputCloses, CloseChunk, workVars, upVars, eventVars
  <2>4. CASE OutputRolls
    BY <2>4, FreshChunk DEF OutputRolls, NewChunk, upVars, eventVars
  <2>5. CASE OutputSends
    BY <2>5, AdvanceType DEF OutputSends, SendChunk, eventVars
  <2>6. CASE InputsExited \/ UploadsExited
    BY <2>6 DEF InputsExited, UploadsExited, workVars, chunkVars, upVars, eventVars
  <2> QED
    BY <1>4, <2>1, <2>2, <2>3, <2>4, <2>5, <2>6, <2>7 DEF OutputStep
<1>5. ASSUME NEW w \in Worker, WorkerStep(w) PROVE TypeOK'
  <2>1. CASE StartWorker(w) \/ LockChunker(w) \/ InputEnds(w)
    BY <2>1 DEF StartWorker, LockChunker, InputEnds, outVars, chunkVars, upVars, eventVars
  <2>6. CASE WorkerPanics(w)
    BY <2>6 DEF WorkerPanics, outVars, workVars, chunkVars, upVars
  <2>2. ASSUME NEW full \in BOOLEAN, NEW err \in BOOLEAN, Write(w, full, err) PROVE TypeOK'
    BY <2>2 DEF Write, outVars, upVars
  <2>3. CASE WorkerCloses(w) \/ CloseCurrentChunk(w)
    BY <2>3 DEF WorkerCloses, CloseCurrentChunk, CloseChunk, outVars, upVars, eventVars
  <2>4. CASE WorkerRolls(w)
    BY <2>4, FreshChunk DEF WorkerRolls, NewChunk, outVars, upVars, eventVars
  <2>5. CASE WorkerSends(w)
    BY <2>5 DEF WorkerSends, SendChunk, outVars, eventVars
  <2> QED
    BY <1>5, <2>1, <2>2, <2>3, <2>4, <2>5, <2>6 DEF WorkerStep
<1>6. ASSUME NEW u \in Uploader, UploadStep(u) PROVE TypeOK'
  <2>1. CASE StartUploader(u)
    BY <2>1 DEF StartUploader, outVars, workVars, chunkVars, eventVars
  <2>2. CASE UploadOk(u)
    BY <2>2 DEF UploadOk, outVars, workVars
  <2>3. CASE UploadErr(u)
    BY <2>3 DEF UploadErr, outVars, workVars
  <2>4. CASE UploadsEnd(u)
    BY <2>4 DEF UploadsEnd, outVars, workVars, chunkVars, eventVars
  <2> QED
    BY <1>6, <2>1, <2>2, <2>3, <2>4 DEF UploadStep
<1> QED
  BY <1>1, <1>2, <1>3, <1>4, <1>5, <1>6 DEF Next

(* Every variable keeps its type, whatever interleaves: in particular the  *)
(* output and the workers never run out of chunks (Fresh exists).          *)
THEOREM TypeCorrect == Spec => []TypeOK
BY TypeInit, TypeKept, PTL DEF Spec

-----------------------------------------------------------------------------
(* The parts of the invariant, one by one                                  *)

(* A lock is taken when it is free and given back by who has it.           *)
LEMMA LocksKept ==
    ASSUME TypeOK, LocksHeld, [Next]_vars
    PROVE  LocksHeld'
<1>1. CASE \/ UNCHANGED vars \/ HandleTick \/ HandleTerm \/ InputsExited \/ UploadsExited
           \/ \E e \in Event : HandleMessage(e)
           \/ \E w \in Worker : WorkerPanics(w)
           \/ \E u \in Uploader : StartUploader(u) \/ UploadOk(u) \/ UploadErr(u) \/ UploadsEnd(u)
  BY <1>1 DEF TypeOK, LocksHeld, HandleMessage, HandleTick, HandleTerm, InputsExited,
      UploadsExited, WorkerPanics, StartUploader, UploadOk, UploadErr, UploadsEnd, vars,
      outVars, workVars, chunkVars, upVars, eventVars
<1>2. ASSUME NEW w \in Worker, HandOver(w) PROVE LocksHeld'
  BY <1>2 DEF TypeOK, LocksHeld, HandOver, chunkVars, upVars, eventVars
<1>3. CASE SkipChunker
  BY <1>3, AdvanceType DEF TypeOK, LocksHeld, SkipChunker, workVars, chunkVars, upVars,
      eventVars
<1>4. CASE RollChunker
  BY <1>4 DEF TypeOK, LocksHeld, RollChunker, chunkVars, upVars, eventVars
<1>5. CASE OutputCloses
  BY <1>5 DEF TypeOK, LocksHeld, OutputCloses, CloseChunk, workVars, upVars, eventVars
<1>6. CASE OutputRolls
  BY <1>6 DEF TypeOK, LocksHeld, OutputRolls, NewChunk, upVars, eventVars
<1>7. CASE OutputSends
  BY <1>7, AdvanceType DEF TypeOK, LocksHeld, OutputSends, SendChunk, eventVars
<1>8. ASSUME NEW w \in Worker, StartWorker(w) PROVE LocksHeld'
  BY <1>8 DEF TypeOK, LocksHeld, StartWorker, outVars, chunkVars, upVars, eventVars
<1>9. ASSUME NEW w \in Worker, LockChunker(w) PROVE LocksHeld'
  BY <1>9 DEF TypeOK, LocksHeld, LockChunker, outVars, chunkVars, upVars, eventVars
<1>10. ASSUME NEW w \in Worker, NEW full \in BOOLEAN, NEW err \in BOOLEAN, Write(w, full, err)
       PROVE  LocksHeld'
  BY <1>10 DEF TypeOK, LocksHeld, Write, outVars, upVars
<1>11. ASSUME NEW w \in Worker, WorkerCloses(w) PROVE LocksHeld'
  BY <1>11 DEF TypeOK, LocksHeld, WorkerCloses, CloseChunk, outVars, upVars, eventVars
<1>12. ASSUME NEW w \in Worker, WorkerRolls(w) PROVE LocksHeld'
  BY <1>12 DEF TypeOK, LocksHeld, WorkerRolls, NewChunk, outVars, upVars, eventVars
<1>13. ASSUME NEW w \in Worker, WorkerSends(w) PROVE LocksHeld'
  BY <1>13 DEF TypeOK, LocksHeld, WorkerSends, SendChunk, outVars, eventVars
<1>14. ASSUME NEW w \in Worker, InputEnds(w) PROVE LocksHeld'
  BY <1>14 DEF TypeOK, LocksHeld, InputEnds, outVars, chunkVars, upVars, eventVars
<1>15. ASSUME NEW w \in Worker, CloseCurrentChunk(w) PROVE LocksHeld'
  BY <1>15 DEF TypeOK, LocksHeld, CloseCurrentChunk, outVars, upVars, eventVars
<1> QED
  BY <1>1, <1>2, <1>3, <1>4, <1>5, <1>6, <1>7, <1>8, <1>9, <1>10, <1>11, <1>12, <1>13, <1>14,
      <1>15 DEF Next, OutputStep, WorkerStep, UploadStep

(* An upload worker takes a chunk that was not sent, and leaves it done.   *)
LEMMA ReadersKept ==
    ASSUME TypeOK, ChunksRead, OneReader, [Next]_vars
    PROVE  OneReader'
<1>1. CASE \/ UNCHANGED vars \/ HandleTick \/ HandleTerm \/ SkipChunker \/ RollChunker
           \/ OutputCloses \/ InputsExited \/ UploadsExited
           \/ \E e \in Event : HandleMessage(e)
           \/ \E w \in Worker : \E full, err \in BOOLEAN : Write(w, full, err)
           \/ \E w \in Worker : HandOver(w) \/ StartWorker(w) \/ LockChunker(w) \/ WorkerCloses(w)
                             \/ WorkerPanics(w) \/ InputEnds(w) \/ CloseCurrentChunk(w)
           \/ \E u \in Uploader : UploadsEnd(u)
  BY <1>1 DEF TypeOK, ChunksRead, OneReader, HandleMessage, HandleTick, HandleTerm, HandOver,
      SkipChunker, RollChunker, OutputCloses, InputsExited, UploadsExited, StartWorker,
      LockChunker, Write, WorkerCloses, WorkerPanics, InputEnds, CloseCurrentChunk, UploadsEnd,
      vars, outVars, workVars, chunkVars, upVars, eventVars, CloseChunk
<1>2. CASE OutputRolls
  BY <1>2, FreshChunk DEF TypeOK, ChunksRead, OneReader, OutputRolls, NewChunk, upVars,
      eventVars
<1>3. CASE OutputSends
  BY <1>3, S3Chunks DEF TypeOK, ChunksRead, OneReader, OutputSends, SendChunk, eventVars
<1>4. ASSUME NEW w \in Worker, WorkerRolls(w) PROVE OneReader'
  BY <1>4, FreshChunk DEF TypeOK, ChunksRead, OneReader, WorkerRolls, NewChunk, outVars, upVars,
      eventVars
<1>5. ASSUME NEW w \in Worker, WorkerSends(w) PROVE OneReader'
  BY <1>5, S3Chunks DEF TypeOK, ChunksRead, OneReader, WorkerSends, SendChunk, outVars,
      eventVars
<1>6. ASSUME NEW u \in Uploader, StartUploader(u) PROVE OneReader'
  BY <1>6, S3Chunks DEF TypeOK, ChunksRead, OneReader, StartUploader, outVars, workVars,
      chunkVars, eventVars
<1>7. ASSUME NEW u \in Uploader, UploadOk(u) PROVE OneReader'
  BY <1>7, S3Chunks DEF TypeOK, ChunksRead, OneReader, UploadOk, outVars, workVars
<1>8. ASSUME NEW u \in Uploader, UploadErr(u) PROVE OneReader'
  BY <1>8, S3Chunks DEF TypeOK, ChunksRead, OneReader, UploadErr, outVars, workVars
<1> QED
  BY <1>1, <1>2, <1>3, <1>4, <1>5, <1>6, <1>7, <1>8 DEF Next, OutputStep, WorkerStep, UploadStep

(* A chunk is read from the time it is sent until it is done.              *)
LEMMA ChunksKept ==
    ASSUME TypeOK, ChunksRead, OneReader, [Next]_vars
    PROVE  ChunksRead'
<1>1. CASE \/ UNCHANGED vars \/ HandleTick \/ HandleTerm \/ SkipChunker \/ RollChunker
           \/ InputsExited \/ UploadsExited
           \/ \E e \in Event : HandleMessage(e)
           \/ \E w \in Worker : \E full, err \in BOOLEAN : Write(w, full, err)
           \/ \E w \in Worker : HandOver(w) \/ StartWorker(w) \/ LockChunker(w) \/ WorkerPanics(w)
                             \/ InputEnds(w)
           \/ \E u \in Uploader : UploadsEnd(u)
  BY <1>1 DEF TypeOK, ChunksRead, OneReader, HandleMessage, HandleTick, HandleTerm, HandOver,
      SkipChunker, RollChunker, InputsExited, UploadsExited, StartWorker, LockChunker, Write,
      WorkerPanics, InputEnds, UploadsEnd, vars, outVars, workVars, chunkVars, upVars, eventVars
<1>2. CASE OutputCloses
  BY <1>2 DEF TypeOK, ChunksRead, OneReader, OutputCloses, CanClose, CloseChunk, workVars,
      upVars, eventVars
<1>3. CASE OutputRolls
  BY <1>3, FreshChunk DEF TypeOK, ChunksRead, OneReader, OutputRolls, NewChunk, upVars,
      eventVars
<1>4. CASE OutputSends
  BY <1>4, S3Chunks DEF TypeOK, ChunksRead, OneReader, OutputSends, SendChunk, eventVars
<1>5. ASSUME NEW w \in Worker, WorkerCloses(w) PROVE ChunksRead'
  BY <1>5 DEF TypeOK, ChunksRead, OneReader, WorkerCloses, CanClose, CloseChunk, outVars,
      upVars, eventVars
<1>6. ASSUME NEW w \in Worker, WorkerRolls(w) PROVE ChunksRead'
  BY <1>6, FreshChunk DEF TypeOK, ChunksRead, OneReader, WorkerRolls, NewChunk, outVars, upVars,
      eventVars
<1>7. ASSUME NEW w \in Worker, WorkerSends(w) PROVE ChunksRead'
  BY <1>7, S3Chunks DEF TypeOK, ChunksRead, OneReader, WorkerSends, SendChunk, outVars,
      eventVars
<1>8. ASSUME NEW w \in Worker, CloseCurrentChunk(w) PROVE ChunksRead'
  BY <1>8 DEF TypeOK, ChunksRead, OneReader, CloseCurrentChunk, CanClose, outVars, upVars,
      eventVars
<1>9. ASSUME NEW u \in Uploader, StartUploader(u) PROVE ChunksRead'
  BY <1>9, S3Chunks DEF TypeOK, ChunksRead, OneReader, StartUploader, outVars, workVars,
      chunkVars, eventVars
<1>10. ASSUME NEW u \in Uploader, UploadOk(u) PROVE ChunksRead'
  BY <1>10, S3Chunks DEF TypeOK, ChunksRead, OneReader, UploadOk, outVars, workVars
<1>11. ASSUME NEW u \in Uploader, UploadErr(u) PROVE ChunksRead'
  BY <1>11, S3Chunks DEF TypeOK, ChunksRead, OneReader, UploadErr, outVars, workVars
<1> QED
  BY <1>1, <1>2, <1>3, <1>4, <1>5, <1>6, <1>7, <1>8, <1>9, <1>10, <1>11
      DEF Next, OutputStep, WorkerStep, UploadStep

(* A chunker and the output goroutine do not roll the same chunk at once.  *)
LEMMA CurrentKept ==
    ASSUME TypeOK, LocksHeld, ChunksRead, OneReader, CurrentUsable, [Next]_vars
    PROVE  CurrentUsable'
<1>1. CASE \/ UNCHANGED vars \/ HandleTick \/ HandleTerm \/ InputsExited \/ UploadsExited
           \/ \E e \in Event : HandleMessage(e)
           \/ \E w \in Worker : WorkerPanics(w)
           \/ \E u \in Uploader : StartUploader(u) \/ UploadOk(u) \/ UploadErr(u) \/ UploadsEnd(u)
  BY <1>1 DEF TypeOK, LocksHeld, OneReader, CurrentUsable, HandleMessage, HandleTick,
      HandleTerm, InputsExited, UploadsExited, WorkerPanics, StartUploader, UploadOk, UploadErr,
      UploadsEnd, vars, outVars, workVars, chunkVars, upVars, eventVars
<1>2. ASSUME NEW w \in Worker, HandOver(w) PROVE CurrentUsable'
  BY <1>2 DEF TypeOK, LocksHeld, OneReader, CurrentUsable, HandOver, chunkVars, upVars,
      eventVars
<1>3. CASE SkipChunker
  BY <1>3, AdvanceType DEF TypeOK, LocksHeld, OneReader, CurrentUsable, SkipChunker, workVars,
      chunkVars, upVars, eventVars
<1>4. CASE RollChunker
  BY <1>4 DEF TypeOK, LocksHeld, OneReader, CurrentUsable, RollChunker, chunkVars, upVars,
      eventVars
<1>5. CASE OutputCloses
  BY <1>5 DEF TypeOK, LocksHeld, OneReader, CurrentUsable, OutputCloses, CloseChunk, workVars,
      upVars, eventVars
<1>6. CASE OutputRolls
  BY <1>6, FreshChunk DEF TypeOK, LocksHeld, OneReader, CurrentUsable, OutputRolls, NewChunk,
      upVars, eventVars
<1>7. CASE OutputSends
  BY <1>7, AdvanceType DEF TypeOK, LocksHeld, OneReader, CurrentUsable, OutputSends, SendChunk,
      eventVars
<1>8. ASSUME NEW w \in Worker, StartWorker(w) PROVE CurrentUsable'
  BY <1>8 DEF TypeOK, LocksHeld, OneReader, CurrentUsable, StartWorker, outVars, chunkVars,
      upVars, eventVars
<1>9. ASSUME NEW w \in Worker, LockChunker(w) PROVE CurrentUsable'
  BY <1>9 DEF TypeOK, LocksHeld, OneReader, CurrentUsable, LockChunker, outVars, chunkVars,
      upVars, eventVars
<1>10. ASSUME NEW w \in Worker, NEW full \in BOOLEAN, NEW err \in BOOLEAN, Write(w, full, err)
       PROVE  CurrentUsable'
  BY <1>10 DEF TypeOK, LocksHeld, OneReader, CurrentUsable, Write, outVars, upVars
<1>11. ASSUME NEW w \in Worker, WorkerCloses(w) PROVE CurrentUsable'
  BY <1>11 DEF TypeOK, LocksHeld, OneReader, CurrentUsable, WorkerCloses, CloseChunk, outVars,
      upVars, eventVars
<1>12. ASSUME NEW w \in Worker, WorkerRolls(w) PROVE CurrentUsable'
  BY <1>12, FreshChunk DEF TypeOK, LocksHeld, OneReader, CurrentUsable, WorkerRolls, NewChunk,
      outVars, upVars, eventVars
<1>13. ASSUME NEW w \in Worker, WorkerSends(w) PROVE CurrentUsable'
  BY <1>13 DEF TypeOK, LocksHeld, OneReader, CurrentUsable, WorkerSends, SendChunk, outVars,
      eventVars
<1>14. ASSUME NEW w \in Worker, InputEnds(w) PROVE CurrentUsable'
  BY <1>14 DEF TypeOK, LocksHeld, OneReader, CurrentUsable, InputEnds, outVars, chunkVars,
      upVars, eventVars
<1>15. ASSUME NEW w \in Worker, CloseCurrentChunk(w) PROVE CurrentUsable'
  BY <1>15 DEF TypeOK, LocksHeld, OneReader, CurrentUsable, CloseCurrentChunk, outVars, upVars,
      eventVars
<1> QED
  BY <1>1, <1>2, <1>3, <1>4, <1>5, <1>6, <1>7, <1>8, <1>9, <1>10, <1>11, <1>12, <1>13, <1>14,
      <1>15 DEF Next, OutputStep, WorkerStep, UploadStep

(* An event is handed to a worker whose hands are empty.                   *)
LEMMA HandsKept ==
    ASSUME TypeOK, HandsAccounted, [Next]_vars
    PROVE  HandsAccounted'
<1>1. CASE \/ UNCHANGED vars \/ HandleTick \/ HandleTerm \/ RollChunker \/ OutputCloses
           \/ OutputRolls \/ InputsExited \/ UploadsExited
           \/ \E w \in Worker : StartWorker(w) \/ WorkerCloses(w) \/ WorkerRolls(w)
                             \/ WorkerSends(w) \/ WorkerPanics(w) \/ InputEnds(w)
                             \/ CloseCurrentChunk(w)
           \/ \E u \in Uploader : StartUploader(u) \/ UploadOk(u) \/ UploadErr(u) \/ UploadsEnd(u)
  BY <1>1 DEF TypeOK, HandsAccounted, HandleTick, HandleTerm, RollChunker, OutputCloses,
      OutputRolls, InputsExited, UploadsExited, StartWorker, WorkerCloses, WorkerRolls,
      WorkerSends, WorkerPanics, InputEnds, CloseCurrentChunk, StartUploader, UploadOk,
      UploadErr, UploadsEnd, vars, outVars, workVars, chunkVars, upVars, eventVars, CloseChunk,
      NewChunk, SendChunk
<1>2. ASSUME NEW e \in Event, HandleMessage(e) PROVE HandsAccounted'
  BY <1>2 DEF TypeOK, HandsAccounted, HandleMessage, workVars, chunkVars, upVars
<1>3. ASSUME NEW w \in Worker, HandOver(w) PROVE HandsAccounted'
  BY <1>3 DEF TypeOK, HandsAccounted, HandOver, chunkVars, upVars, eventVars
<1>4. ASSUME NEW w \in Worker, NEW full \in BOOLEAN, NEW err \in BOOLEAN, Write(w, full, err)
      PROVE  HandsAccounted'
  BY <1>4 DEF TypeOK, HandsAccounted, Write, outVars, upVars
<1>5. CASE SkipChunker
  BY <1>5, AdvanceType DEF TypeOK, HandsAccounted, SkipChunker, workVars, chunkVars, upVars,
      eventVars
<1>6. CASE OutputSends
  BY <1>6, AdvanceType DEF TypeOK, HandsAccounted, OutputSends, SendChunk, eventVars
<1>7. ASSUME NEW w \in Worker, LockChunker(w) PROVE HandsAccounted'
  BY <1>7 DEF TypeOK, HandsAccounted, LockChunker, outVars, chunkVars, upVars, eventVars
<1> QED
  BY <1>1, <1>2, <1>3, <1>4, <1>5, <1>6, <1>7 DEF Next, OutputStep, WorkerStep, UploadStep

(* Stop waits for the chunk workers, then for the upload workers.          *)
LEMMA StopKept ==
    ASSUME TypeOK, StopWaited, [Next]_vars
    PROVE  StopWaited'
<1>1. CASE \/ UNCHANGED vars \/ HandleTick \/ RollChunker \/ OutputCloses \/ OutputRolls
           \/ \E e \in Event : HandleMessage(e)
           \/ \E w \in Worker : WorkerPanics(w)
  BY <1>1 DEF TypeOK, StopWaited, Running, HandleMessage, HandleTick, RollChunker, OutputCloses,
      OutputRolls, WorkerPanics, vars, outVars, workVars, chunkVars, upVars, eventVars,
      CloseChunk, NewChunk
<1>2. CASE HandleTerm
  BY <1>2 DEF TypeOK, StopWaited, Running, HandleTerm, workVars, chunkVars, upVars, eventVars
<1>3. ASSUME NEW w \in Worker, HandOver(w) PROVE StopWaited'
  BY <1>3 DEF TypeOK, StopWaited, Running, HandOver, chunkVars, upVars, eventVars
<1>4. CASE SkipChunker
  BY <1>4, AdvanceType DEF TypeOK, StopWaited, Running, SkipChunker, workVars, chunkVars,
      upVars, eventVars
<1>5. CASE OutputSends
  BY <1>5, AdvanceType DEF TypeOK, StopWaited, Running, OutputSends, SendChunk, eventVars
<1>6. CASE InputsExited
  BY <1>6 DEF TypeOK, StopWaited, Running, InputsExited, workVars, chunkVars, upVars, eventVars
<1>7. CASE UploadsExited
  BY <1>7, S3Chunks DEF TypeOK, StopWaited, Running, UploadsExited, workVars, chunkVars, upVars,
      eventVars
<1>8. ASSUME NEW w \in Worker, StartWorker(w) PROVE StopWaited'
  BY <1>8 DEF TypeOK, StopWaited, Running, StartWorker, outVars, chunkVars, upVars, eventVars
<1>9. ASSUME NEW w \in Worker, LockChunker(w) PROVE StopWaited'
  BY <1>9 DEF TypeOK, StopWaited, Running, LockChunker, outVars, chunkVars, upVars, eventVars
<1>10. ASSUME NEW w \in Worker, NEW full \in BOOLEAN, NEW err \in BOOLEAN, Write(w, full, err)
       PROVE  StopWaited'
  BY <1>10 DEF TypeOK, StopWaited, Running, Write, outVars, upVars
<1>11. ASSUME NEW w \in Worker, WorkerCloses(w) PROVE StopWaited'
  BY <1>11 DEF TypeOK, StopWaited, Running, WorkerCloses, CloseChunk, outVars, upVars, eventVars
<1>12. ASSUME NEW w \in Worker, WorkerRolls(w) PROVE StopWaited'
  BY <1>12 DEF TypeOK, StopWaited, Running, WorkerRolls, NewChunk, outVars, upVars, eventVars
<1>13. ASSUME NEW w \in Worker, WorkerSends(w) PROVE StopWaited'
  BY <1>13 DEF TypeOK, StopWaited, Running, WorkerSends, SendChunk, outVars, eventVars
<1>14. ASSUME NEW w \in Worker, InputEnds(w) PROVE StopWaited'
  BY <1>14 DEF TypeOK, StopWaited, Running, InputEnds, outVars, chunkVars, upVars, eventVars
<1>15. ASSUME NEW w \in Worker, CloseCurrentChunk(w) PROVE StopWaited'
  BY <1>15 DEF TypeOK, StopWaited, Running, CloseCurrentChunk, outVars, upVars, eventVars
<1>16. ASSUME NEW u \in Uploader, StartUploader(u) PROVE StopWaited'
  BY <1>16, S3Chunks DEF TypeOK, StopWaited, Running, StartUploader, outVars, workVars,
      chunkVars, eventVars
<1>17. ASSUME NEW u \in Uploader, UploadOk(u) PROVE StopWaited'
  BY <1>17, S3Chunks DEF TypeOK, StopWaited, Running, UploadOk, outVars, workVars
<1>18. ASSUME NEW u \in Uploader, UploadErr(u) PROVE StopWaited'
  BY <1>18, S3Chunks DEF TypeOK, StopWaited, Running, UploadErr, outVars, workVars
<1>19. ASSUME NEW u \in Uploader, UploadsEnd(u) PROVE StopWaited'
  BY <1>19 DEF TypeOK, StopWaited, Running, UploadsEnd, outVars, workVars, chunkVars, eventVars
<1> QED
  BY <1>1, <1>2, <1>3, <1>4, <1>5, <1>6, <1>7, <1>8, <1>9, <1>10, <1>11, <1>12, <1>13, <1>14,
      <1>15, <1>16, <1>17, <1>18, <1>19 DEF Next, OutputStep, WorkerStep, UploadStep

(* A worker that sends late had not begun when Stop was called.            *)
LEMMA PanicKept ==
    ASSUME TypeOK, StopWaited, NoPanic, [Next]_vars
    PROVE  NoPanic'
<1>1. CASE \/ UNCHANGED vars \/ HandleTick \/ SkipChunker \/ RollChunker \/ OutputCloses
           \/ OutputRolls \/ OutputSends \/ InputsExited \/ UploadsExited
           \/ \E e \in Event : HandleMessage(e)
           \/ \E w \in Worker : \E full, err \in BOOLEAN : Write(w, full, err)
           \/ \E w \in Worker : HandOver(w) \/ StartWorker(w) \/ LockChunker(w) \/ WorkerCloses(w)
                             \/ WorkerRolls(w) \/ WorkerSends(w) \/ InputEnds(w)
                             \/ CloseCurrentChunk(w)
           \/ \E u \in Uploader : StartUploader(u) \/ UploadOk(u) \/ UploadErr(u) \/ UploadsEnd(u)
  BY <1>1 DEF TypeOK, StopWaited, NoPanic, Running, HandleMessage, HandleTick, HandOver,
      SkipChunker, RollChunker, OutputCloses, OutputRolls, OutputSends, InputsExited,
      UploadsExited, StartWorker, LockChunker, Write, WorkerCloses, WorkerRolls, WorkerSends,
      InputEnds, CloseCurrentChunk, StartUploader, UploadOk, UploadErr, UploadsEnd, vars,
      outVars, workVars, chunkVars, upVars, eventVars, CloseChunk, NewChunk, SendChunk
<1>2. ASSUME NEW w \in Worker, WorkerPanics(w) PROVE NoPanic'
  BY <1>2 DEF TypeOK, StopWaited, NoPanic, Running, WorkerPanics, outVars, workVars, chunkVars,
      upVars
<1>3. CASE HandleTerm
  BY <1>3 DEF TypeOK, StopWaited, NoPanic, Running, HandleTerm, workVars, chunkVars, upVars,
      eventVars
<1> QED
  BY <1>1, <1>2, <1>3 DEF Next, OutputStep, WorkerStep, UploadStep

-----------------------------------------------------------------------------
(* No event is lost                                                        *)

(* An event in a chunk that somebody uses and whose upload has not ended.  *)
Carried(e) ==
    \E c \in Chunk \ done :
        /\ e \in data[c]
        /\ (\E w \in Worker : cur[w] = c) \/ \E u \in Uploader : up[u] = c

(* Where an accepted event is.                                             *)
Placed(e) ==
    \/ e \in message \/ \E w \in Worker : e \in hand[w]
    \/ Carried(e) \/ e \in delivered \/ e \in failed

LEMMA PlacedMeans ==
    accepted \subseteq InHand \cup InChunks \cup delivered \cup failed
        <=> \A e \in accepted : Placed(e)
<1>1. \A e : e \in InHand <=> e \in message \/ \E w \in Worker : e \in hand[w]
  BY DEF InHand
<1>2. \A e : e \in InChunks <=> Carried(e)
  BY DEF InChunks, InUse, Carried
<1> QED
  BY <1>1, <1>2 DEF Placed

LEMMA PlacedMeansNext ==
    (accepted \subseteq InHand \cup InChunks \cup delivered \cup failed)'
        <=> \A e \in accepted' : Placed(e)'
<1>1. \A e : e \in InHand' <=> e \in message' \/ \E w \in Worker : e \in hand'[w]
  BY DEF InHand
<1>2. \A e : e \in InChunks' <=> Carried(e)'
  BY DEF InChunks, InUse, Carried
<1> QED
  BY <1>1, <1>2 DEF Placed

(* A step moves events from one place to the next.                         *)
LEMMA PlacedKept ==
    ASSUME TypeOK, HandsAccounted, ChunksRead, CurrentUsable, OneReader,
           \A d \in accepted : Placed(d), [Next]_vars
    PROVE  \A d \in accepted' : Placed(d)'
<1>1. CASE \/ UNCHANGED vars \/ HandleTick \/ HandleTerm \/ SkipChunker \/ RollChunker
           \/ OutputCloses \/ InputsExited \/ UploadsExited
           \/ \E w \in Worker : StartWorker(w) \/ LockChunker(w) \/ WorkerCloses(w)
                             \/ WorkerPanics(w) \/ InputEnds(w) \/ CloseCurrentChunk(w)
           \/ \E u \in Uploader : UploadsEnd(u)
  BY <1>1 DEF TypeOK, Placed, Carried, HandleTick, HandleTerm, SkipChunker, RollChunker,
      OutputCloses, InputsExited, UploadsExited, StartWorker, LockChunker, WorkerCloses,
      WorkerPanics, InputEnds, CloseCurrentChunk, UploadsEnd, vars, outVars, workVars,
      chunkVars, upVars, eventVars, CloseChunk
<1>2. ASSUME NEW e \in Event, HandleMessage(e) PROVE \A d \in accepted' : Placed(d)'
  BY <1>2 DEF TypeOK, Placed, Carried, HandsAccounted, HandleMessage, workVars, chunkVars,
      upVars
<1>3. ASSUME NEW w \in Worker, HandOver(w) PROVE \A d \in accepted' : Placed(d)'
  BY <1>3 DEF TypeOK, Placed, Carried, HandsAccounted, HandOver, chunkVars, upVars, eventVars
<1>4. CASE OutputRolls
  BY <1>4, FreshChunk DEF TypeOK, Placed, Carried, ChunksRead, CurrentUsable, OutputRolls,
      NewChunk, upVars, eventVars
<1>5. CASE OutputSends
  BY <1>5, S3Chunks DEF TypeOK, Placed, Carried, OutputSends, SendChunk, eventVars
<1>6. ASSUME NEW w \in Worker, NEW full \in BOOLEAN, NEW err \in BOOLEAN, Write(w, full, err)
      PROVE  \A d \in accepted' : Placed(d)'
  BY <1>6 DEF TypeOK, Placed, Carried, Write, outVars, upVars
<1>7. ASSUME NEW w \in Worker, WorkerRolls(w) PROVE \A d \in accepted' : Placed(d)'
  BY <1>7, FreshChunk DEF TypeOK, Placed, Carried, ChunksRead, CurrentUsable, WorkerRolls,
      NewChunk, outVars, upVars, eventVars
<1>8. ASSUME NEW w \in Worker, WorkerSends(w) PROVE \A d \in accepted' : Placed(d)'
  BY <1>8, S3Chunks DEF TypeOK, Placed, Carried, WorkerSends, SendChunk, outVars, eventVars
<1>9. ASSUME NEW u \in Uploader, StartUploader(u) PROVE \A d \in accepted' : Placed(d)'
  BY <1>9, S3Chunks DEF TypeOK, Placed, Carried, StartUploader, outVars, workVars, chunkVars,
      eventVars
<1>10. ASSUME NEW u \in Uploader, UploadOk(u) PROVE \A d \in accepted' : Placed(d)'
  BY <1>10 DEF TypeOK, Placed, Carried, UploadOk, outVars, workVars
<1>11. ASSUME NEW u \in Uploader, UploadErr(u) PROVE \A d \in accepted' : Placed(d)'
  BY <1>11 DEF TypeOK, Placed, Carried, UploadErr, outVars, workVars
<1> QED
  BY <1>1, <1>2, <1>3, <1>4, <1>5, <1>6, <1>7, <1>8, <1>9, <1>10, <1>11
      DEF Next, OutputStep, WorkerStep, UploadStep

(* An open chunk takes what is written to it.                              *)
LEMMA FailedKept ==
    ASSUME TypeOK, LocksHeld, ChunksRead, CurrentUsable,
           (errors = 0 => failed = {}), [Next]_vars
    PROVE  (errors = 0 => failed = {})'
<1>1. CASE \/ UNCHANGED vars \/ HandleTick \/ HandleTerm \/ SkipChunker \/ RollChunker
           \/ OutputCloses \/ OutputRolls \/ OutputSends \/ InputsExited \/ UploadsExited
           \/ \E e \in Event : HandleMessage(e)
           \/ \E w \in Worker : HandOver(w) \/ StartWorker(w) \/ LockChunker(w) \/ WorkerCloses(w)
                             \/ WorkerRolls(w) \/ WorkerSends(w) \/ WorkerPanics(w) \/ InputEnds(w)
                             \/ CloseCurrentChunk(w)
           \/ \E u \in Uploader : StartUploader(u) \/ UploadOk(u) \/ UploadsEnd(u)
  BY <1>1 DEF TypeOK, HandleMessage, HandleTick, HandleTerm, HandOver, SkipChunker, RollChunker,
      OutputCloses, OutputRolls, OutputSends, InputsExited, UploadsExited, StartWorker,
      LockChunker, WorkerCloses, WorkerRolls, WorkerSends, WorkerPanics, InputEnds,
      CloseCurrentChunk, StartUploader, UploadOk, UploadsEnd, vars, outVars, workVars,
      chunkVars, upVars, eventVars, CloseChunk, NewChunk, SendChunk
<1>2. ASSUME NEW w \in Worker, NEW full \in BOOLEAN, NEW err \in BOOLEAN, Write(w, full, err)
      PROVE  (errors = 0 => failed = {})'
  BY <1>2 DEF TypeOK, LocksHeld, ChunksRead, CurrentUsable, Write, outVars, upVars
<1>3. ASSUME NEW u \in Uploader, UploadErr(u) PROVE (errors = 0 => failed = {})'
  BY <1>3 DEF TypeOK, UploadErr, outVars, workVars
<1> QED
  BY <1>1, <1>2, <1>3 DEF Next, OutputStep, WorkerStep, UploadStep

-----------------------------------------------------------------------------
(* The theorems                                                            *)

LEMMA InvInit == Init => IInv
<1> SUFFICES ASSUME Init PROVE IInv
  OBVIOUS
<1>1. TypeOK
  BY TypeInit
<1>2. LocksHeld /\ HandsAccounted /\ NoPanic
  BY DEF Init, LocksHeld, HandsAccounted, NoPanic
<1>3. ChunksRead
  BY S3Chunks DEF Init, ChunksRead
<1>4. CurrentUsable
  BY <1>1 DEF Init, CurrentUsable, TypeOK
<1>5. StopWaited
  BY DEF Init, StopWaited
<1>6. NoEventLost
  BY DEF Init, NoEventLost
<1>7. OneReader
  BY S3Chunks, FirstChunksDiffer DEF Init, OneReader
<1> QED
  BY <1>1, <1>2, <1>3, <1>4, <1>5, <1>6, <1>7 DEF IInv

LEMMA InvKept == IInv /\ [Next]_vars => IInv'
<1> SUFFICES ASSUME IInv, [Next]_vars PROVE IInv'
  OBVIOUS
<1>1. NoEventLost'
  <2>1. (\A d \in accepted : Placed(d)) /\ (errors = 0 => failed = {})
    BY PlacedMeans DEF IInv, NoEventLost
  <2>2. \A d \in accepted' : Placed(d)'
    BY <2>1, PlacedKept DEF IInv
  <2>3. (errors = 0 => failed = {})'
    BY <2>1, FailedKept DEF IInv
  <2> QED
    BY <2>2, <2>3, PlacedMeansNext DEF NoEventLost
<1> QED
  BY <1>1, TypeKept, LocksKept, ReadersKept, ChunksKept, CurrentKept, HandsKept, StopKept,
     PanicKept DEF IInv

(* The inductive invariant holds.                                          *)
THEOREM Invariance == Spec => []IInv
BY InvInit, InvKept, PTL DEF Spec

(* For any number of workers: an accepted event is with a goroutine, in a  *)
(* chunk that is being read or will be, delivered, or in an upload that    *)
(* failed, and without failing uploads no write meets a closed chunk.      *)
THEOREM NothingLost == Spec => []NoEventLost
<1>1. IInv => NoEventLost
  BY DEF IInv
<1> QED
  BY <1>1, Invariance, PTL

(* No two upload workers read one chunk, none reads a chunk twice, and no  *)
(* two chunk workers write to one.                                         *)
THEOREM SingleReader == Spec => []OneReader
<1>1. IInv => OneReader
  BY DEF IInv
<1> QED
  BY <1>1, Invariance, PTL

(* Stop closes the channel of the uploads under no chunk worker that had   *)
(* begun when Stop was called.                                             *)
THEOREM NoLateSend == Spec => []NoPanic
<1>1. IInv => NoPanic
  BY DEF IInv
<1> QED
  BY <1>1, Invariance, PTL

(* Stop has nothing left when it returns, if no upload has failed.         *)
LEMMA StopSettled == IInv => StopUploadsAll
<1> SUFFICES ASSUME IInv, out = "stopped", errors = 0, NEW e \in accepted
             PROVE  e \in delivered
  BY DEF StopUploadsAll
<1>1. Placed(e) /\ failed = {}
  BY PlacedMeans DEF IInv, NoEventLost
<1>2. message = {} /\ \A w \in Worker : hand[w] = {}
  BY DEF IInv, HandsAccounted, StopWaited
<1>3. ~Carried(e)
  <2> SUFFICES ASSUME NEW c \in Chunk, c \notin done, e \in data[c],
                      (\E w \in Worker : cur[w] = c) \/ \E u \in Uploader : up[u] = c
               PROVE  FALSE
    BY DEF Carried
  <2>1. \A u \in Uploader : up[u] # c
    BY DEF IInv, StopWaited
  <2>2. c \notin sent
    BY <2>1 DEF IInv, ChunksRead
  <2> QED
    BY <2>1, <2>2 DEF IInv, CurrentUsable
<1> QED
  BY <1>1, <1>2, <1>3 DEF Placed

(* When Stop has returned, everything accepted is uploaded, if no upload   *)
(* has failed.                                                             *)
THEOREM StopComplete == Spec => []StopUploadsAll
BY StopSettled, Invariance, PTL

-----------------------------------------------------------------------------
(* The promise to the process                                              *)

(* What a step does to the things the promise is about, other than the     *)
(* panic of a late worker and the last step of Stop: the loop does not     *)
(* jump over its clean-up and does not come back from it, and events are   *)
(* taken in the loop only.                                                 *)
PromiseFacts ==
    /\ panic' = panic /\ errors' \in {errors, errors + 1}
    /\ delivered \subseteq delivered' /\ failed \subseteq failed'
    /\ out \notin {"waitinput", "waitupload"} => out' \notin {"waitupload", "stopped"}
    /\ out \in {"waitinput", "waitupload"} => out' \in {"waitinput", "waitupload"} /\ accepted' = accepted

LEMMA StepPromise ==
    ASSUME TypeOK, Running, Next, ~UploadsExited, \A w \in Worker : ~WorkerPanics(w)
    PROVE  PromiseFacts
<1> USE DEF PromiseFacts, Running, outVars, eventVars
<1>1. CASE \E e \in Event : HandleMessage(e)
  BY <1>1 DEF HandleMessage
<1>2. CASE HandleTick \/ HandleTerm
  BY <1>2 DEF HandleTick, HandleTerm
<1>3. CASE OutputStep
  <2>1. CASE \E w \in Worker : HandOver(w)
    BY <2>1 DEF HandOver
  <2>2. CASE SkipChunker \/ RollChunker \/ OutputCloses \/ OutputRolls
    BY <2>2, AdvanceType DEF SkipChunker, RollChunker, OutputCloses, OutputRolls
  <2>3. CASE OutputSends
    BY <2>3, AdvanceType DEF OutputSends
  <2>4. CASE InputsExited
    BY <2>4 DEF InputsExited
  <2> QED
    BY <1>3, <2>1, <2>2, <2>3, <2>4 DEF OutputStep
<1>4. ASSUME NEW w \in Worker, WorkerStep(w) PROVE PromiseFacts
  <2>1. CASE \E full, err \in BOOLEAN : Write(w, full, err)
    BY <2>1 DEF Write
  <2>2. CASE StartWorker(w) \/ LockChunker(w) \/ WorkerCloses(w) \/ WorkerRolls(w) \/ WorkerSends(w)
             \/ InputEnds(w) \/ CloseCurrentChunk(w)
    BY <2>2 DEF StartWorker, LockChunker, WorkerCloses, WorkerRolls, WorkerSends, InputEnds,
        CloseCurrentChunk
  <2> QED
    BY <1>4, <2>1, <2>2 DEF WorkerStep
<1>5. ASSUME NEW u \in Uploader, UploadStep(u) PROVE PromiseFacts
  BY <1>5 DEF UploadStep, StartUploader, UploadOk, UploadErr, UploadsEnd
<1> QED
  BY <1>1, <1>2, <1>3, <1>4, <1>5 DEF Next

LEMMA PromiseStep ==
    ASSUME IInv, IInv', [Next]_vars
    PROVE  [Promise!Next]_(<<Phase, Unsettled, UploadFailed>>)
<1> DEFINE Goal == [Promise!Next]_(<<Phase, Unsettled, UploadFailed>>)
<1>type. errors \in Nat /\ accepted' \subseteq Event
  BY DEF IInv, TypeOK
<1>1. CASE UNCHANGED vars
  BY <1>1 DEF vars, outVars, eventVars, Phase, Unsettled, UploadFailed
<1>2. CASE ~Running /\ Next
  <2>1. UNCHANGED vars
    BY <1>2 DEF Next, OutputStep, WorkerStep, UploadStep, HandleMessage, HandleTick, HandleTerm,
        HandOver, SkipChunker, RollChunker, OutputCloses, OutputRolls, OutputSends, InputsExited,
        UploadsExited, StartWorker, LockChunker, Write, WorkerCloses, WorkerRolls, WorkerSends,
        WorkerPanics, InputEnds, CloseCurrentChunk, StartUploader, UploadOk, UploadErr, UploadsEnd
  <2> QED
    BY <1>1, <2>1
<1>3. ASSUME NEW w \in Worker, WorkerPanics(w) PROVE Goal
  <2>1. Phase' = "down"
    BY <1>3 DEF WorkerPanics, Phase
  <2>2. Unsettled' = {} /\ UploadFailed' = FALSE
    BY <2>1 DEF Unsettled, UploadFailed
  <2> QED
    BY <2>1, <2>2 DEF Promise!Next, Promise!Die
<1>4. CASE UploadsExited
  <2>1. /\ out' = "stopped" /\ panic' = 0 /\ panic = 0 /\ out = "waitupload"
        /\ UNCHANGED <<accepted, delivered, failed, errors>>
    BY <1>4 DEF UploadsExited, Running, eventVars
  <2>2. Phase = "cleanup" /\ Phase' = "stopped"
    BY <2>1 DEF Phase
  <2>3. Unsettled' = {} /\ UploadFailed' = UploadFailed
    BY <2>1, <2>2 DEF Unsettled, UploadFailed
  <2>4. Unsettled = {} \/ UploadFailed
    <3>1. CASE errors = 0
      <4>1. StopUploadsAll'
        BY StopSettled, PTL
      <4>2. accepted \subseteq delivered
        BY <2>1, <3>1, <4>1 DEF StopUploadsAll
      <4> QED
        BY <2>1, <2>2, <4>2 DEF Unsettled
    <3>2. CASE errors # 0
      BY <1>type, <2>2, <3>2 DEF UploadFailed
    <3> QED
      BY <3>1, <3>2
  <2> QED
    BY <2>2, <2>3, <2>4 DEF Promise!Next, Promise!Finish
<1>5. CASE Running /\ Next /\ ~UploadsExited /\ \A w \in Worker : ~WorkerPanics(w)
  <2>1. PromiseFacts /\ panic = 0
    BY <1>5, StepPromise DEF IInv, Running
  <2>2. UploadFailed' \in {UploadFailed, TRUE}
    <3>1. Phase # "down" /\ Phase' # "down"
      BY <2>1 DEF Phase, PromiseFacts
    <3>2. UploadFailed <=> errors > 0
      BY <3>1 DEF UploadFailed
    <3>3. UploadFailed' <=> errors' > 0
      BY <3>1 DEF UploadFailed
    <3>4. errors > 0 => errors' > 0
      BY <1>type, <2>1 DEF PromiseFacts
    <3> QED
      BY <3>2, <3>3, <3>4 DEF UploadFailed
  <2>3. CASE out \notin {"waitinput", "waitupload"}
    <3>1. Phase = "select" /\ Phase' \in {"select", "cleanup"}
      BY <1>5, <2>1, <2>3 DEF Phase, PromiseFacts, Running
    <3>2. Unsettled' \subseteq Event
      BY <1>type DEF Unsettled
    <3> QED
      BY <2>2, <3>1, <3>2 DEF Promise!Next, Promise!Work
  <2>4. CASE out \in {"waitinput", "waitupload"}
    <3>1. Phase = "cleanup" /\ Phase' = "cleanup"
      BY <2>1, <2>4 DEF Phase, PromiseFacts
    <3>2. Unsettled' \subseteq Unsettled
      BY <2>1, <2>4, <3>1 DEF Unsettled, PromiseFacts
    <3> QED
      BY <2>2, <3>1, <3>2 DEF Promise!Next, Promise!Settle
  <2> QED
    BY <2>3, <2>4
<1> QED
  BY <1>1, <1>2, <1>3, <1>4, <1>5

(* KeepsPromise, for any number of chunk workers, chunks and failing       *)
(* uploads: the broadcast of the exit comes when nothing is unsettled, or  *)
(* an upload has failed.                                                   *)
THEOREM PromiseKept == Spec => KeepsPromise
<1>1. Init => Promise!Init
  <2> SUFFICES ASSUME Init PROVE Promise!Init OBVIOUS
  <2>1. Phase = "select" /\ Unsettled = {}
    BY DEF Init, Phase, Unsettled
  <2>2. UploadFailed = FALSE
    BY DEF Init, UploadFailed
  <2> QED
    BY <2>1, <2>2 DEF Promise!Init
<1>2. IInv /\ IInv' /\ [Next]_vars => [Promise!Next]_(<<Phase, Unsettled, UploadFailed>>)
  BY PromiseStep
<1> QED
  BY <1>1, <1>2, Invariance, PTL DEF Spec, KeepsPromise, Promise!Spec, Promise!vars
=============================================================================
