----------------------------- MODULE S3Chunking -----------------------------
(***************************************************************************)
(* The new S3 output (pkg/outputs/ng_s3_output.go) in the loop of          *)
(* BaseOutput.Go (pkg/outputs/output_handler.go).                          *)
(*                                                                         *)
(* The output goroutine hands each event to one of S3Concurrency chunk     *)
(* workers over an unbuffered channel. A chunk worker writes to its        *)
(* current chunk, the write end of a pipe; the chunk itself was sent, when *)
(* it was still empty, to one of as many upload workers, which read the    *)
(* other end until the chunk's writers are closed. Rolling a chunk closes  *)
(* its writers and sends a new one; a chunk worker does it when a chunk is *)
(* full, the output goroutine on a tick or SIGHUP.                         *)
(*                                                                         *)
(* Abstractions: a chunk holds a set of events; how much of it the         *)
(* compressor holds back is open, so a write may or may not touch the      *)
(* pipe, and a chunk may be full after any write; elapsed time is a        *)
(* choice. A chunk that nobody uses any more may stand for a new one.      *)
(***************************************************************************)
EXTENDS Integers, FiniteSets

CONSTANTS
    Event,
    S3Concurrency,
    Chunk,          \* chunks that can exist at once
    UploadEmpty,    \* upload_empty_files
    MaxErrors       \* bound: failing uploads

Worker == 1..S3Concurrency      \* chunkers, in the order of the slice
Uploader == 1..S3Concurrency

ASSUME S3Sizes == /\ S3Concurrency \in Nat \ {0}
                  /\ IsFiniteSet(Chunk) /\ Cardinality(Chunk) > 2 * S3Concurrency
ASSUME S3Config == UploadEmpty \in BOOLEAN /\ MaxErrors \in Nat

NoChunk == "none"
NotBegun == "new"
ASSUME S3Chunks == NoChunk \notin Chunk /\ NotBegun \notin Chunk

VARIABLES
    out,        \* output goroutine
    pos,        \* chunker it looks at while rolling
    message,    \* event it has taken and is handing over (a set of at most one)
    input,      \* the channels Input and uploads: "open" or "closed"
    uploads,
    early,      \* chunk workers that had not begun when Stop was called
    wk,         \* chunk workers
    hand,       \* hand[w]: event w has taken and not written (a set of at most one)
    cur,        \* currentChunk
    lock,       \* lock[w]: "free", "worker" or "output"
    up,         \* up[u]: chunk upload worker u reads, NoChunk, or NotBegun
    gone,       \* upload workers that have exited
    sent,       \* chunks handed to an upload worker
    closed,     \* chunks whose writers are closed
    done,       \* chunks whose reader is closed
    data,       \* events written to a chunk
    accepted, delivered, failed,   \* events
    errors,     \* failed uploads
    panic       \* sends on a closed channel

outVars == <<out, pos, message, input, uploads, early>>
workVars == <<wk, hand, cur, lock>>
chunkVars == <<sent, closed, done, data>>
upVars == <<up, gone>>
eventVars == <<accepted, delivered, failed, errors, panic>>
vars == <<outVars, workVars, chunkVars, upVars, eventVars>>

Running == out # "stopped" /\ panic = 0

InUse == {cur[w] : w \in Worker} \cup {up[u] : u \in Uploader}
Fresh == CHOOSE c \in Chunk : c \notin InUse

(* Distinct chunks for the chunkers to begin with.                         *)
FirstChunks == CHOOSE f \in [Worker -> Chunk] : \A v, w \in Worker : f[v] = f[w] => v = w

Init ==
    /\ out = "select" /\ pos = 1 /\ message = {} /\ input = "open" /\ uploads = "open" /\ early = {}
    /\ wk = [w \in Worker |-> "new"] /\ hand = [w \in Worker |-> {}]
    /\ cur = FirstChunks /\ lock = [w \in Worker |-> "free"]
    /\ up = [u \in Uploader |-> NotBegun] /\ gone = {}
    /\ sent = {} /\ closed = {} /\ done = {} /\ data = [c \in Chunk |-> {}]
    /\ accepted = {} /\ delivered = {} /\ failed = {} /\ errors = 0 /\ panic = 0

-----------------------------------------------------------------------------
(* Chunks                                                                  *)

(* The compressor's trailer goes through the pipe: CloseChunkWriters       *)
(* blocks until somebody reads, or the reader is closed.                   *)
CanClose(c) == c \in closed \cup done \/ \E u \in Uploader : up[u] = c

(* RollChunk of chunker w: the current chunk is closed ...                 *)
CloseChunk(w) == CanClose(cur[w]) /\ closed' = closed \cup {cur[w]}

\* Mutant: the closed chunk is used again.
NewChunkSame(w) ==
    /\ sent' = sent \ {cur[w]}
    /\ UNCHANGED <<cur, closed, done, data>>

(* ... and a new one takes its place.                                      *)
NewChunk(w) ==
    LET c == Fresh IN
    /\ cur' = [cur EXCEPT ![w] = c]
    /\ closed' = closed \ {c} /\ sent' = sent \ {c} /\ done' = done \ {c}
    /\ data' = [data EXCEPT ![c] = {}]

(* SendChunk: an idle upload worker takes the chunk, if it was not sent.   *)
SendChunk(w) ==
    IF cur[w] \in sent THEN UNCHANGED <<up, sent>>
    ELSE /\ uploads = "open"
         /\ \E u \in Uploader \ gone : up[u] = NoChunk /\ up' = [up EXCEPT ![u] = cur[w]]
         /\ sent' = sent \cup {cur[w]}

-----------------------------------------------------------------------------
(* The chunk workers                                                       *)

StartWorker(w) ==
    /\ Running /\ wk[w] = "new" /\ lock[w] = "free"
    /\ wk' = [wk EXCEPT ![w] = "sending"] /\ lock' = [lock EXCEPT ![w] = "worker"]
    /\ UNCHANGED <<outVars, hand, cur, chunkVars, upVars, eventVars>>

\* Mutant: the message is written without the chunker's lock.
LockChunkerNot(w) ==
    /\ Running /\ wk[w] = "lock"
    /\ wk' = [wk EXCEPT ![w] = "writing"]
    /\ UNCHANGED <<outVars, hand, cur, lock, chunkVars, upVars, eventVars>>

(* output(message) begins with the chunker's lock ...                      *)
LockChunker(w) ==
    /\ Running /\ wk[w] = "lock" /\ lock[w] = "free"
    /\ wk' = [wk EXCEPT ![w] = "writing"] /\ lock' = [lock EXCEPT ![w] = "worker"]
    /\ UNCHANGED <<outVars, hand, cur, chunkVars, upVars, eventVars>>

(* ... then it writes, and a full chunk is rolled. A write that reaches    *)
(* the pipe of a finished upload fails; a write the compressor keeps does  *)
(* not, and is lost just as well. An error of the flush comes when the     *)
(* message is already in the compressor. Either error makes the worker     *)
(* return, unless the chunk is full.                                       *)
Write(w, full, err) ==
    LET c == cur[w] IN
    /\ Running /\ wk[w] = "writing"
    /\ err => c \in done \cup closed
    /\ \E put \in {{}, hand[w]} :
          /\ ~err => put = hand[w]
          /\ data' = [data EXCEPT ![c] = @ \cup put]
    /\ failed' = IF c \in done \cup closed THEN failed \cup hand[w] ELSE failed
    /\ hand' = [hand EXCEPT ![w] = {}]
    /\ wk' = [wk EXCEPT ![w] = IF full THEN "rolling" ELSE IF err THEN "leaving" ELSE "idle"]
    /\ lock' = IF full THEN lock ELSE [lock EXCEPT ![w] = "free"]
    /\ UNCHANGED <<outVars, cur, sent, closed, done, upVars, accepted, delivered, errors, panic>>

WorkerCloses(w) ==
    /\ Running /\ wk[w] = "rolling"
    /\ CloseChunk(w)
    /\ wk' = [wk EXCEPT ![w] = "replacing"]
    /\ UNCHANGED <<outVars, hand, cur, lock, sent, done, data, upVars, eventVars>>

WorkerRolls(w) ==
    /\ Running /\ wk[w] = "replacing"
    /\ NewChunk(w)
    /\ wk' = [wk EXCEPT ![w] = "sending"]
    /\ UNCHANGED <<outVars, hand, lock, upVars, eventVars>>

WorkerSends(w) ==
    /\ Running /\ wk[w] = "sending"
    /\ SendChunk(w)
    /\ wk' = [wk EXCEPT ![w] = "idle"] /\ lock' = [lock EXCEPT ![w] = "free"]
    /\ UNCHANGED <<outVars, hand, cur, closed, done, data, gone, eventVars>>

\* uploads is closed while a chunk worker still has to send.
WorkerPanics(w) ==
    /\ Running /\ wk[w] = "sending" /\ uploads = "closed" /\ cur[w] \notin sent
    /\ panic' = 1
    /\ UNCHANGED <<outVars, workVars, chunkVars, upVars, accepted, delivered, failed, errors>>

(* Input is closed: the worker leaves its loop. wg.Done comes first ...    *)
InputEnds(w) ==
    /\ Running /\ wk[w] = "idle" /\ input = "closed"
    /\ wk' = [wk EXCEPT ![w] = "leaving"]
    /\ UNCHANGED <<outVars, hand, cur, lock, chunkVars, upVars, eventVars>>

\* Mutant: a leaving worker does not close its chunk.
CloseCurrentChunkNot(w) ==
    /\ Running /\ wk[w] = "leaving" /\ lock[w] = "free"
    /\ wk' = [wk EXCEPT ![w] = "dead"]
    /\ UNCHANGED <<outVars, hand, cur, lock, chunkVars, upVars, eventVars>>

(* ... then CloseCurrentChunk, under the lock.                             *)
CloseCurrentChunk(w) ==
    /\ Running /\ wk[w] = "leaving" /\ lock[w] = "free" /\ CanClose(cur[w])
    /\ closed' = closed \cup {cur[w]}
    /\ wk' = [wk EXCEPT ![w] = "dead"]
    /\ UNCHANGED <<outVars, hand, cur, lock, sent, done, data, upVars, eventVars>>

-----------------------------------------------------------------------------
(* The upload workers                                                      *)

StartUploader(u) ==
    /\ Running /\ up[u] = NotBegun
    /\ up' = [up EXCEPT ![u] = NoChunk]
    /\ UNCHANGED <<outVars, workVars, chunkVars, gone, eventVars>>

(* The reader has reached the end of a closed chunk and S3 has it all.     *)
UploadOk(u) ==
    /\ Running /\ up[u] \in closed
    /\ delivered' = delivered \cup data[up[u]]
    /\ done' = done \cup {up[u]}
    /\ up' = [up EXCEPT ![u] = NoChunk]
    /\ UNCHANGED <<outVars, workVars, sent, closed, data, gone, accepted, failed, errors, panic>>

(* The upload fails at any point; the reader is closed all the same.       *)
UploadErr(u) ==
    /\ Running /\ up[u] \in Chunk /\ errors < MaxErrors /\ errors' = errors + 1
    /\ failed' = failed \cup data[up[u]]
    /\ done' = done \cup {up[u]}
    /\ up' = [up EXCEPT ![u] = NoChunk]
    /\ UNCHANGED <<outVars, workVars, sent, closed, data, gone, accepted, delivered, panic>>

UploadsEnd(u) ==
    /\ Running /\ u \notin gone /\ up[u] = NoChunk /\ uploads = "closed"
    /\ gone' = gone \cup {u}
    /\ UNCHANGED <<outVars, workVars, chunkVars, up, eventVars>>

-----------------------------------------------------------------------------
(* The output goroutine                                                    *)

HandleMessage(e) ==
    /\ Running /\ out = "select" /\ e \notin accepted
    /\ accepted' = accepted \cup {e} /\ message' = {e} /\ out' = "input"
    /\ UNCHANGED <<pos, input, uploads, early, workVars, chunkVars, upVars, delivered, failed, errors, panic>>

(* Input <- message: an idle chunk worker takes it.                        *)
HandOver(w) ==
    /\ Running /\ out = "input" /\ wk[w] = "idle"
    /\ wk' = [wk EXCEPT ![w] = "lock"] /\ hand' = [hand EXCEPT ![w] = message]
    /\ message' = {} /\ out' = "select"
    /\ UNCHANGED <<pos, input, uploads, early, cur, lock, chunkVars, upVars, eventVars>>

(* A tick or SIGHUP goes through the chunkers, those that have ended too.  *)
HandleTick ==
    /\ Running /\ out = "select"
    /\ out' = "roll" /\ pos' = 1
    /\ UNCHANGED <<message, input, uploads, early, workVars, chunkVars, upVars, eventVars>>

Advance == IF pos = S3Concurrency THEN out' = "select" /\ pos' = 1
                                  ELSE out' = "roll" /\ pos' = pos + 1

\* Its time has not elapsed, or it is empty.
SkipChunker ==
    /\ Running /\ out = "roll" /\ lock[pos] = "free"
    /\ Advance
    /\ UNCHANGED <<message, input, uploads, early, workVars, chunkVars, upVars, eventVars>>

\* Mutant: only an empty chunk is rolled.
RollChunkerEmpty ==
    /\ Running /\ out = "roll" /\ lock[pos] = "free"
    /\ data[cur[pos]] = {}
    /\ lock' = [lock EXCEPT ![pos] = "output"] /\ out' = "rolling"
    /\ UNCHANGED <<pos, message, input, uploads, early, wk, hand, cur, chunkVars, upVars, eventVars>>

RollChunker ==
    /\ Running /\ out = "roll" /\ lock[pos] = "free"
    /\ UploadEmpty \/ data[cur[pos]] # {}
    /\ lock' = [lock EXCEPT ![pos] = "output"] /\ out' = "rolling"
    /\ UNCHANGED <<pos, message, input, uploads, early, wk, hand, cur, chunkVars, upVars, eventVars>>

OutputCloses ==
    /\ Running /\ out = "rolling"
    /\ CloseChunk(pos)
    /\ out' = "replacing"
    /\ UNCHANGED <<pos, message, input, uploads, early, workVars, sent, done, data, upVars, eventVars>>

OutputRolls ==
    /\ Running /\ out = "replacing"
    /\ NewChunk(pos)
    /\ out' = "sending"
    /\ UNCHANGED <<pos, message, input, uploads, early, wk, hand, lock, upVars, eventVars>>

OutputSends ==
    /\ Running /\ out = "sending"
    /\ SendChunk(pos)
    /\ lock' = [lock EXCEPT ![pos] = "free"] /\ Advance
    /\ UNCHANGED <<message, input, uploads, early, wk, hand, cur, closed, done, data, gone, eventVars>>

\* Mutant: both channels are closed at once.
HandleTermAll ==
    /\ Running /\ out = "select"
    /\ input' = "closed" /\ uploads' = "closed" /\ out' = "waitinput"
    /\ early' = {w \in Worker : wk[w] = "new"}
    /\ UNCHANGED <<pos, message, workVars, chunkVars, upVars, eventVars>>

(* SIGTERM: Stop closes Input ...                                          *)
HandleTerm ==
    /\ Running /\ out = "select"
    /\ input' = "closed" /\ out' = "waitinput"
    /\ early' = {w \in Worker : wk[w] = "new"}
    /\ UNCHANGED <<pos, message, uploads, workVars, chunkVars, upVars, eventVars>>

(* ... waits for the chunk workers (of those that have begun) ...          *)
InputsExited ==
    /\ Running /\ out = "waitinput"
    /\ \A w \in Worker : wk[w] \in {"new", "leaving", "dead"}
    /\ uploads' = "closed" /\ out' = "waitupload"
    /\ UNCHANGED <<pos, message, input, early, workVars, chunkVars, upVars, eventVars>>

\* Mutant: Stop does not wait for the uploads.
UploadsExitedNot ==
    /\ Running /\ out = "waitupload"
    /\ out' = "stopped"
    /\ UNCHANGED <<pos, message, input, uploads, early, workVars, chunkVars, upVars, eventVars>>

(* ... and for the upload workers (again, of those that have begun).       *)
UploadsExited ==
    /\ Running /\ out = "waitupload" /\ \A u \in Uploader \ gone : up[u] = NotBegun
    /\ out' = "stopped"
    /\ UNCHANGED <<pos, message, input, uploads, early, workVars, chunkVars, upVars, eventVars>>

-----------------------------------------------------------------------------
WorkerStep(w) ==
    \/ StartWorker(w) \/ LockChunker(w)
    \/ \E full, err \in BOOLEAN : Write(w, full, err)
    \/ WorkerCloses(w) \/ WorkerRolls(w) \/ WorkerSends(w) \/ WorkerPanics(w)
    \/ InputEnds(w) \/ CloseCurrentChunk(w)

UploadStep(u) == StartUploader(u) \/ UploadOk(u) \/ UploadErr(u) \/ UploadsEnd(u)

OutputStep ==
    \/ \E w \in Worker : HandOver(w)
    \/ SkipChunker \/ RollChunker \/ OutputCloses \/ OutputRolls \/ OutputSends
    \/ InputsExited \/ UploadsExited

Next ==
    \/ \E e \in Event : HandleMessage(e)
    \/ HandleTick \/ HandleTerm \/ OutputStep
    \/ \E w \in Worker : WorkerStep(w)
    \/ \E u \in Uploader : UploadStep(u)
    \/ ~Running /\ UNCHANGED vars

Spec == Init /\ [][Next]_vars

(* Goroutines are scheduled fairly, a lock and a channel are in the end    *)
(* given to everyone who waits for them, the ticker ticks, and a chunk's   *)
(* time elapses. An upload whose chunk is closed ends.                     *)
Fairness ==
    /\ WF_vars(OutputStep) /\ SF_vars(HandleTick) /\ SF_vars(OutputSends)
    /\ \A w \in Worker :
          /\ WF_vars(WorkerStep(w)) /\ SF_vars(LockChunker(w)) /\ SF_vars(WorkerSends(w))
          /\ SF_vars(CloseCurrentChunk(w)) /\ SF_vars(pos = w /\ RollChunker)
    /\ \A u \in Uploader : WF_vars(StartUploader(u) \/ UploadsEnd(u)) /\ WF_vars(UploadOk(u))

FairSpec == Spec /\ Fairness

-----------------------------------------------------------------------------
(* Properties                                                              *)

(* The type invariant.                                                     *)
TypeOK ==
    /\ out \in {"select", "input", "roll", "rolling", "replacing", "sending", "waitinput", "waitupload", "stopped"}
    /\ pos \in Worker /\ message \subseteq Event
    /\ input \in {"open", "closed"} /\ uploads \in {"open", "closed"}
    /\ early \subseteq Worker
    /\ wk \in [Worker -> {"new", "idle", "lock", "writing", "rolling", "replacing", "sending", "leaving", "dead"}]
    /\ hand \in [Worker -> SUBSET Event] /\ cur \in [Worker -> Chunk]
    /\ lock \in [Worker -> {"free", "worker", "output"}]
    /\ up \in [Uploader -> Chunk \cup {NoChunk, NotBegun}] /\ gone \subseteq Uploader
    /\ sent \subseteq Chunk /\ closed \subseteq Chunk /\ done \subseteq Chunk
    /\ data \in [Chunk -> SUBSET Event]
    /\ accepted \subseteq Event /\ delivered \subseteq Event /\ failed \subseteq Event
    /\ errors \in Nat /\ panic \in Nat

InHand == message \cup UNION {hand[w] : w \in Worker}
InChunks == UNION {data[c] : c \in (InUse \cap Chunk) \ done}

(* An event taken from the channel is with a goroutine, in a chunk whose   *)
(* upload is still to end, delivered, or in a failed upload, and nothing   *)
(* fails while uploads do not: a chunker and the output goroutine that     *)
(* both want the same chunk do not write to one that is closed.            *)
NoEventLost ==
    /\ accepted \subseteq InHand \cup InChunks \cup delivered \cup failed
    /\ errors = 0 => failed = {}

(* A chunk is read by one upload worker, once.                             *)
OneReader ==
    /\ \A t, u \in Uploader : up[t] = up[u] /\ up[t] \in Chunk => t = u
    /\ \A u \in Uploader : up[u] \notin done
    /\ \A v, w \in Worker : cur[v] = cur[w] => v = w

(* Stop returns when everything accepted has been uploaded.                *)
StopUploadsAll == out = "stopped" /\ errors = 0 => accepted \subseteq delivered

(* Stop closes uploads when nobody sends on it any more, unless a chunk    *)
(* worker had not even begun: wg.Add runs in the goroutine it counts.      *)
NoPanic == panic # 0 => early # {}

(* The output keeps the promise the process relies on: SIGTERM is the last *)
(* thing it takes, and Stop returns (and the exit is broadcast) only when  *)
(* no event is left with a chunk worker, in a pipe or in an upload, unless *)
(* an upload has failed.                                                   *)
Phase ==
    CASE panic # 0 -> "down"
      [] panic = 0 /\ out \in {"waitinput", "waitupload"} -> "cleanup"
      [] panic = 0 /\ out = "stopped" -> "stopped"
      [] OTHER -> "select"
Unsettled == IF Phase \in {"select", "cleanup"} THEN accepted \ (delivered \cup failed) ELSE {}
UploadFailed == Phase # "down" /\ errors > 0
Promise == INSTANCE OutputPromise WITH phase <- Phase, held <- Unsettled, failed <- UploadFailed
KeepsPromise == Promise!Spec

(* SIGTERM ends the output (of workers that have begun).                   *)
StopEnds == out = "waitinput" /\ early = {} ~> out = "stopped"

(* Every accepted event is uploaded in the end, or its upload fails.       *)
EventsUploaded == \A e \in Event : e \in accepted ~> e \in delivered \cup failed \/ panic # 0

(* The output keeps taking events: a message does not wait for ever for a  *)
(* chunk worker.                                                           *)
KeepsTaking == out = "input" ~> out = "select"

-----------------------------------------------------------------------------
(* The inductive invariant behind the safety properties                    *)
(* (S3ChunkingProofs)                                                      *)

(* Who has a chunker's lock.                                               *)
LocksHeld ==
    /\ \A w \in Worker : wk[w] \in {"writing", "rolling", "replacing", "sending"} => lock[w] = "worker"
    /\ out \in {"rolling", "replacing", "sending"} => lock[pos] = "output"

(* A chunk that was sent has a reader until it is done, only such a chunk  *)
(* is closed, and while no upload fails only a closed one is done.         *)
ChunksRead ==
    /\ \A u \in Uploader : up[u] \in Chunk => up[u] \in sent
    /\ done \cup closed \subseteq sent
    /\ \A c \in sent : c \in done \/ \E u \in Uploader : up[u] = c
    /\ errors = 0 => done \subseteq closed

(* The current chunk of a chunker is open and sent, except in a roll.      *)
CurrentUsable ==
    \A w \in Worker :
        /\ cur[w] \in closed => wk[w] \in {"replacing", "dead"} \/ (out = "replacing" /\ pos = w)
        /\ cur[w] \notin sent => /\ data[cur[w]] = {}
                                 /\ wk[w] \in {"new", "sending"} \/ (out = "sending" /\ pos = w)
        /\ (wk[w] = "replacing" \/ (out = "replacing" /\ pos = w)) => cur[w] \in closed

(* Where an event can be in hand.                                          *)
HandsAccounted ==
    /\ out # "input" => message = {}
    /\ \A w \in Worker : wk[w] \notin {"lock", "writing"} => hand[w] = {}

(* What Stop has waited for.                                               *)
StopWaited ==
    /\ uploads = "closed" => out \in {"waitupload", "stopped"}
    /\ \A w \in Worker :
          /\ out \in {"waitinput", "waitupload", "stopped"} /\ wk[w] = "new" => w \in early
          /\ out \in {"waitupload", "stopped"} => wk[w] \in {"new", "sending", "idle", "leaving", "dead"}
          /\ out \in {"waitupload", "stopped"} /\ wk[w] \in {"new", "sending", "idle"} => early # {}
    /\ \A u \in gone : up[u] = NoChunk
    /\ out = "stopped" => \A u \in Uploader : up[u] \notin Chunk

IInv ==
    /\ TypeOK /\ LocksHeld /\ ChunksRead /\ CurrentUsable /\ HandsAccounted /\ StopWaited
    /\ NoEventLost /\ OneReader /\ NoPanic
=============================================================================
