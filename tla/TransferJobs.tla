----------------------------- MODULE TransferJobs -----------------------------
(***************************************************************************)
(* Files copied from the controlled to the controlling computer: the       *)
(* TransferJob of libs/hbb_common/src/fs.rs as a read job of the           *)
(* connection (server/connection.rs) and as a write job of the client      *)
(* (client/io_loop.rs), with the messages between them in order.           *)
(*                                                                         *)
(* For every file the reader sends a digest and waits; the writer answers  *)
(* to send from an offset or to skip, by itself or after asking the user.  *)
(* Data goes to <file>.download, with <file>.digest beside it, and the     *)
(* part is renamed when the next file starts or the job is done.  A lost   *)
(* connection leaves the part for a job that resumes, or for nobody.       *)
(*                                                                         *)
(* All jobs copy the same files to the same place; a file is a sequence of *)
(* blocks, a block its version and its number.  Sizes do not change.  The  *)
(* end of a file is sent as a block without data, the one after its last.  *)
(***************************************************************************)
EXTENDS Naturals, Sequences, FiniteSets

CONSTANTS
    Size,           \* the number of blocks of each file
    Existing,       \* sets of files the user may have there already
    OffsetWidth,    \* offset_blk is a u32: offsets are taken modulo this
    MaxJobs, MaxVersion, MaxFaults, MaxLosses,  \* bounds of the model
    MaxNet          \* messages under way before the sender waits

ASSUME TransferAssumption ==
    /\ Size \in Seq(Nat)
    /\ Existing \subseteq SUBSET (1..Len(Size))
    /\ {OffsetWidth, MaxVersion} \subseteq Nat \ {0}
    /\ {MaxJobs, MaxFaults, MaxLosses, MaxNet} \subseteq Nat

File == 1..Len(Size)
Beyond == Len(Size) + 1     \* the file_num of a job that is through
None == << <<0, 0>> >>      \* the content of a file that does not exist
Mine == << <<0, 1>> >>      \* ... of a file the user has there already

VARIABLES
    path, part, digest,     \* the files of the receiver, with their .download
                            \* and .digest (the version, 0 for no file)
    source,     \* the version of the files at the sender
    write,      \* the write job of the client, id 0 for none
    reads,      \* read_jobs of the connection
    up, down,   \* messages to the connection, to the client
    ask,        \* files whose override dialog is shown
    saved,      \* file_num of the job in the configuration, 0 for none
    failed,     \* jobs the client lists as failed
    lastId, errors, losses,
    \* bookkeeping, no part of the program's state:
    holed,      \* parts that miss a block
    agreed      \* per file of the job: no, yes, or lost for an offset that
                \* the write job ignored

transferVars == <<path, part, digest, source, write, reads, up, down, ask, saved, failed,
                  lastId, errors, losses, holed, agreed>>

disk == <<path, part, digest>>
env == <<source, saved, lastId, errors, losses>>

NoJob == [id |-> 0, file_num |-> 1, stream |-> FALSE, pos |-> 0, resume |-> FALSE,
          files |-> FALSE, digest |-> 0, strategy |-> "ask"]

Unasked == [f \in File |-> "no"]

TransferInit ==
    /\ \E E \in Existing : path = [f \in File |-> IF f \in E THEN Mine ELSE None]
    /\ part = [f \in File |-> None]
    /\ digest = [f \in File |-> 0]
    /\ source = [f \in File |-> 1]
    /\ write = NoJob
    /\ reads = <<>> /\ up = <<>> /\ down = <<>>
    /\ ask = {} /\ failed = {} /\ holed = {}
    /\ agreed = Unasked
    /\ saved = 0 /\ lastId = 0 /\ errors = 0 /\ losses = 0

-----------------------------------------------------------------------------
(* The client starts, resumes and cancels jobs.                            *)

NewJob(file_num, resume) ==
    /\ write.id = 0
    /\ lastId < MaxJobs
    /\ lastId' = lastId + 1
    /\ write' = [NoJob EXCEPT !.id = lastId', !.file_num = file_num, !.resume = resume]
    /\ up' = Append(up, [type |-> "send", id |-> lastId', file |-> file_num])
    /\ saved' = 0
    /\ UNCHANGED <<disk, source, reads, down, ask, failed, errors, losses, holed, agreed>>

(* Data::SendFiles; a job that was not resumed is forgotten.               *)
SendFiles == NewJob(1, FALSE)

(* Data::AddJob and Data::ResumeJob                                        *)
ResumeJob == saved # 0 /\ NewJob(saved, TRUE)

(* cancel_transfer_job with remove_download_file                           *)
CancelJob ==
    /\ write.id # 0
    /\ up' = Append(up, [type |-> "cancel", id |-> write.id, file |-> 0])
    /\ LET gone == write.files /\ write.file_num \in File
       IN  /\ part' = IF gone THEN [part EXCEPT ![write.file_num] = None] ELSE part
           /\ digest' = IF gone THEN [digest EXCEPT ![write.file_num] = 0] ELSE digest
    /\ write' = NoJob
    /\ agreed' = Unasked
    /\ ask' = {}
    /\ UNCHANGED <<path, env, reads, down, failed, holed>>

(* ... of a job that is only in the list of the user any more.             *)
CancelFailed(id) ==
    /\ id \in failed
    /\ failed' = failed \ {id}
    /\ up' = Append(up, [type |-> "cancel", id |-> id, file |-> 0])
    /\ UNCHANGED <<disk, env, write, reads, down, ask, holed, agreed>>

(* The connection is lost: sync_jobs_status_to_local saves gen_meta.       *)
ConnectionLost ==
    /\ losses < MaxLosses
    /\ losses' = losses + 1
    /\ saved' = IF write.id # 0 THEN write.file_num ELSE saved
    /\ write' = NoJob
    /\ agreed' = Unasked
    /\ reads' = <<>> /\ up' = <<>> /\ down' = <<>>
    /\ ask' = {} /\ failed' = {}
    /\ UNCHANGED <<disk, source, lastId, errors, holed>>

-----------------------------------------------------------------------------
(* The writing side.                                                       *)

(* confirm() of the write job: "file num truncated, ignoring" unless it is *)
(* at that file; with an offset, set_stream_offset seeks in the part.      *)
Confirmed(w, f, offset) ==
    IF w.file_num # f \/ offset = 0 THEN w ELSE [w EXCEPT !.stream = TRUE, !.pos = offset]

(* Mutant: the file number stays at the skipped file.                      *)
SkippedStays(w, f) == IF w.file_num # f THEN w ELSE [w EXCEPT !.stream = FALSE]

(* set_file_skipped                                                        *)
Skipped(w, f) ==
    IF w.file_num # f THEN w ELSE [w EXCEPT !.stream = FALSE, !.file_num = @ + 1]

Decide(w, f, skip, offset) ==
    /\ write' = IF skip THEN Skipped(w, f) ELSE Confirmed(w, f, offset)
    /\ up' = Append(up, [type |-> IF skip THEN "skip" ELSE "offset", id |-> w.id,
                         file |-> f, offset |-> offset])
    /\ agreed' = [agreed EXCEPT ![f] = IF skip THEN "no"
                                       ELSE IF offset > 0 /\ w.file_num # f THEN "lost"
                                       ELSE "yes"]

(* Mutant: a part is taken up whatever version it is of.                   *)
ResumableAny(w, f, version) ==
    w.resume /\ digest[f] # 0 /\ part[f] # None /\ Len(part[f]) > 0

(* is_write_need_confirmation: the part of an earlier job can be taken up. *)
Resumable(w, f, version) ==
    w.resume /\ digest[f] = version /\ part[f] # None /\ Len(part[f]) > 0

OnDigest(m) ==
    LET w == [write EXCEPT !.digest = m.version]
        f == m.file
    IN  IF write.id # m.id \/ ~write.files THEN UNCHANGED <<write, up, ask, agreed>>
        ELSE IF Resumable(w, f, m.version)
        THEN Decide(w, f, FALSE, Len(part[f]) % OffsetWidth) /\ UNCHANGED ask
        ELSE IF path[f] = None
        THEN Decide(w, f, FALSE, 0) /\ UNCHANGED ask
        ELSE IF w.strategy # "ask"
        THEN Decide(w, f, w.strategy = "no", 0) /\ UNCHANGED ask
        ELSE ask' = {f} /\ write' = w /\ UNCHANGED <<up, agreed>>

(* Data::SetConfirmOverrideFile                                            *)
SetConfirmOverrideFile(f, override, remember) ==
    /\ f \in ask
    /\ ask' = {}
    /\ LET w == IF remember THEN [write EXCEPT !.strategy = IF override THEN "yes" ELSE "no"]
                ELSE write
       IN  Decide(w, f, ~override, 0)
    /\ UNCHANGED <<disk, env, reads, down, failed, holed>>

(* modify_time: the part of the current file becomes the file.             *)
ModifyTime(w) ==
    LET f == w.file_num
    IN  IF ~w.files \/ f \notin File THEN disk
        ELSE <<IF part[f] = None THEN path ELSE [path EXCEPT ![f] = part[f]],
               [part EXCEPT ![f] = None],
               [digest EXCEPT ![f] = 0]>>

WriteAt(content, pos, b) ==
    IF pos < Len(content) THEN [content EXCEPT ![pos + 1] = b] ELSE Append(content, b)

(* write(): a block of another file, or the first one, closes the current  *)
(* file and creates the new part.  A failure is ignored.                   *)
OnBlock(m, fails) ==
    LET f == m.file
        renew == f # write.file_num \/ ~write.stream
        old == IF renew THEN ModifyTime(write) ELSE disk
        at == IF renew THEN 0 ELSE write.pos
        base == IF renew THEN [old[2] EXCEPT ![f] = <<>>] ELSE part
        data == m.number <= Size[f] /\ ~fails
    IN  /\ path' = old[1]
        /\ part' = IF data THEN [base EXCEPT ![f] = WriteAt(@, at, <<m.version, m.number>>)]
                   ELSE base
        /\ digest' = IF renew THEN [old[3] EXCEPT ![f] = write.digest] ELSE digest
        /\ write' = [write EXCEPT !.file_num = f, !.stream = TRUE,
                                  !.pos = IF data THEN at + 1 ELSE at]
        /\ holed' = (IF renew THEN holed \ {write.file_num, f} ELSE holed)
                       \cup (IF fails \/ (renew /\ agreed[f] = "lost") THEN {f} ELSE {})

(* The next message to the client.                                         *)
ClientReceives ==
    /\ down # <<>>
    /\ down' = Tail(down)
    /\ LET m == Head(down)
           mine == write.id # 0 /\ write.id = m.id
       IN  \/ /\ m.type = "dir"        \* set_files
              /\ write' = IF mine THEN [write EXCEPT !.files = TRUE] ELSE write
              /\ UNCHANGED <<disk, up, ask, failed, errors, holed, agreed>>
           \/ /\ m.type = "digest"
              /\ OnDigest(m)
              /\ UNCHANGED <<disk, failed, errors, holed>>
           \/ /\ m.type = "block" /\ mine
              /\ \E fails \in BOOLEAN :
                    /\ fails => m.number <= Size[m.file] /\ errors < MaxFaults
                    /\ OnBlock(m, fails)
                    /\ errors' = IF fails THEN errors + 1 ELSE errors
              /\ UNCHANGED <<up, ask, failed, agreed>>
           \/ /\ m.type = "block" /\ ~mine
              /\ UNCHANGED <<disk, write, up, ask, failed, errors, holed, agreed>>
           \/ /\ m.type = "done"
              /\ LET new == IF mine THEN ModifyTime(write) ELSE disk
                 IN  path' = new[1] /\ part' = new[2] /\ digest' = new[3]
              /\ holed' = IF mine THEN holed \ {write.file_num} ELSE holed
              /\ write' = IF mine THEN NoJob ELSE write
              /\ agreed' = IF mine THEN Unasked ELSE agreed
              /\ UNCHANGED <<up, ask, failed, errors>>
           \/ /\ m.type = "error"      \* the part stays
              /\ write' = IF mine THEN NoJob ELSE write
              /\ agreed' = IF mine THEN Unasked ELSE agreed
              /\ ask' = IF mine THEN {} ELSE ask
              /\ failed' = failed \cup {m.id}
              /\ UNCHANGED <<disk, up, errors, holed>>
    /\ UNCHANGED <<source, saved, lastId, losses, reads>>

-----------------------------------------------------------------------------
(* The reading side.                                                       *)

(* Mutant: a skipped file still waits for its confirmation.                *)
ReadConfirmedWaits(j, m) ==
    IF j.id # m.id \/ j.file_num # m.file THEN j
    ELSE IF m.type = "skip"
    THEN [j EXCEPT !.stream = FALSE, !.file_num = @ + 1, !.skipped = TRUE]
    ELSE [j EXCEPT !.confirmed = TRUE, !.skipped = FALSE,
                   !.pos = IF m.offset > 0 THEN m.offset ELSE @]

(* confirm() of a read job, ignored unless the job is at that file.        *)
ReadConfirmed(j, m) ==
    IF j.id # m.id \/ j.file_num # m.file THEN j
    ELSE IF m.type = "skip"
    THEN [j EXCEPT !.stream = FALSE, !.confirmed = FALSE, !.waiting = FALSE,
                   !.file_num = @ + 1, !.skipped = TRUE]
    ELSE [j EXCEPT !.confirmed = TRUE, !.skipped = FALSE,
                   !.pos = IF m.offset > 0 THEN m.offset ELSE @]

(* The places K of a list in their order, which is one sequence.           *)
Ordered(K) == {p \in [1..Cardinality(K) -> K] : \A a, b \in DOMAIN p : a < b => p[a] < p[b]}

(* The next message to the connection.                                     *)
ServerReceives ==
    /\ up # <<>>
    /\ up' = Tail(up)
    /\ LET m == Head(up)
       IN  \/ /\ m.type = "send"       \* process_new_read_job
              /\ reads' = Append(reads, [id |-> m.id, file_num |-> m.file, stream |-> FALSE,
                                pos |-> 0, confirmed |-> FALSE, waiting |-> FALSE,
                                skipped |-> FALSE])
              /\ down' = Append(down, [type |-> "dir", id |-> m.id])
              /\ UNCHANGED errors
           \/ /\ m.type = "send"       \* ... or the files cannot be listed
              /\ errors < MaxFaults
              /\ errors' = errors + 1
              /\ down' = Append(down, [type |-> "error", id |-> m.id])
              /\ UNCHANGED reads
           \/ /\ m.type = "cancel"
              /\ \E p \in Ordered({i \in 1..Len(reads) : reads[i].id # m.id}) :
                    reads' = [k \in DOMAIN p |-> reads[p[k]]]
              /\ UNCHANGED <<down, errors>>
           \/ /\ m.type \in {"skip", "offset"}
              /\ reads' = [i \in 1..Len(reads) |-> ReadConfirmed(reads[i], m)]
              /\ UNCHANGED <<down, errors>>
    /\ UNCHANGED <<disk, source, write, ask, saved, failed, lastId, losses, holed, agreed>>

(* Mutant: the stream of the file before stays open.                       *)
NextFileKeeps(j) == [j EXCEPT !.file_num = @ + 1, !.confirmed = FALSE, !.waiting = FALSE]

NextFile(j) == [j EXCEPT !.file_num = @ + 1, !.stream = FALSE, !.pos = 0, !.confirmed = FALSE,
                        !.waiting = FALSE]

(* open_data_stream; a failure moves on to the next file.                  *)
Opening(j) == j.file_num \in File /\ ~j.stream
Opened(j, fails) ==
    IF ~Opening(j) THEN j
    ELSE IF fails THEN NextFile(j)
    ELSE [j EXCEPT !.stream = TRUE, !.pos = 0, !.confirmed = FALSE, !.waiting = FALSE]

(* init_data_stream sends the digest of a file once.                       *)
Asking(j) == j.stream /\ ~j.confirmed /\ ~j.waiting
InitJob(j, fails) ==
    LET o == Opened(j, fails)
    IN  IF Opening(j) /\ fails
        THEN [job |-> o, out |-> <<[type |-> "error", id |-> j.id]>>]
        ELSE IF Asking(o)
        THEN [job |-> [o EXCEPT !.waiting = TRUE],
              out |-> <<[type |-> "digest", id |-> j.id, file |-> o.file_num,
                         version |-> source[o.file_num]]>>]
        ELSE [job |-> o, out |-> <<>>]

(* read() of the first job, and what handle_read_jobs makes of it.         *)
ReadJob(j, fails) ==
    LET f == j.file_num
    IN  IF ~j.confirmed /\ j.waiting
        THEN [job |-> <<j>>, out |-> <<>>]
        ELSE IF ~j.confirmed    \* job_completed
        THEN [job |-> <<>>,
              out |-> <<[type |-> IF j.skipped /\ Len(Size) = 1 THEN "error" ELSE "done",
                         id |-> j.id]>>]
        ELSE IF fails
        THEN [job |-> <<NextFile(j)>>, out |-> <<[type |-> "error", id |-> j.id]>>]
        ELSE [job |-> <<IF j.pos < Size[f] THEN [j EXCEPT !.pos = @ + 1] ELSE NextFile(j)>>,
              out |-> <<[type |-> "block", id |-> j.id, file |-> f, version |-> source[f],
                         number |-> j.pos + 1]>>]

(* handle_read_jobs: "Break to handle jobs one by one."                    *)
FileTimer(openFails, readFails) ==
    /\ reads # <<>>
    /\ Len(down) < MaxNet
    /\ LET init == [i \in 1..Len(reads) |-> InitJob(reads[i], i = openFails)]
           heard == {i \in 1..Len(reads) : init[i].out # <<>>}
           first == ReadJob(init[1].job, readFails)
       IN  /\ openFails # 0 => openFails \in 1..Len(reads) /\ Opening(reads[openFails])
           /\ readFails => init[1].job.confirmed
           /\ reads' = first.job \o [i \in 1..Len(reads) - 1 |-> init[i + 1].job]
           /\ \E p \in Ordered(heard) :
                 down' = down \o [k \in DOMAIN p |-> Head(init[p[k]].out)] \o first.out
    /\ errors' = errors + (IF openFails # 0 THEN 1 ELSE 0) + (IF readFails THEN 1 ELSE 0)
    /\ errors' <= MaxFaults
    /\ UNCHANGED <<disk, source, write, up, ask, saved, failed, lastId, losses, holed, agreed>>

(* Somebody edits a file that nobody reads; a version is the time of that. *)
Edit(f) ==
    /\ \A i \in 1..Len(reads) : ~(reads[i].stream /\ reads[i].file_num = f)
    /\ \E v \in 1..MaxVersion :
          /\ \A g \in File : source[g] < v
          /\ \E g \in File : source[g] = v - 1
          /\ source' = [source EXCEPT ![f] = v]
    /\ UNCHANGED <<disk, write, reads, up, down, ask, saved, failed, lastId, errors, losses,
                   holed, agreed>>

TransferNext ==
    \/ SendFiles \/ ResumeJob \/ CancelJob \/ ConnectionLost
    \/ \E id \in failed : CancelFailed(id)
    \/ \E f \in ask, override, remember \in BOOLEAN :
          SetConfirmOverrideFile(f, override, remember)
    \/ ClientReceives \/ ServerReceives
    \/ \E openFails \in 0..Len(reads), readFails \in BOOLEAN : FileTimer(openFails, readFails)
    \/ \E f \in File : Edit(f)

(* Both event loops run.                                                   *)
TransferSpec ==
    /\ TransferInit
    /\ [][TransferNext]_transferVars
    /\ WF_transferVars(ClientReceives)
    /\ WF_transferVars(ServerReceives)
    /\ WF_transferVars(FileTimer(0, FALSE))

-----------------------------------------------------------------------------
Content(f) == UNION {[1..n -> (1..MaxVersion) \X (1..Size[f])] : n \in 0..Size[f]}

TransferTypeOK ==
    /\ \A f \in File : /\ path[f] \in Content(f) \cup {None, Mine}
                      /\ part[f] \in Content(f) \cup {None}
    /\ digest \in [File -> 0..MaxVersion]
    /\ source \in [File -> 1..MaxVersion]
    /\ write.file_num \in 1..Beyond
    /\ write.stream => write.file_num \in File /\ write.pos <= Len(part[write.file_num])
    /\ \A i \in 1..Len(reads) :
          /\ reads[i].file_num \in 1..Beyond
          /\ reads[i].stream => /\ reads[i].file_num \in File
                               /\ reads[i].pos <= Size[reads[i].file_num]
    /\ ask \subseteq File /\ holed \subseteq File
    /\ agreed \in [File -> {"no", "yes", "lost"}]
    /\ saved \in 0..Beyond

(* A file at the receiver is what it was, or all blocks of one version.    *)
Whole(f, c) == \E v \in 1..MaxVersion : c = [k \in 1..Size[f] |-> <<v, k>>]
Dest == [f \in File |-> IF path[f] \in {None, Mine} THEN "old"
                        ELSE IF Whole(f, path[f]) THEN "whole" ELSE "damaged"]

(* A part that no job goes on with.                                        *)
Leftover == {f \in File : part[f] # None /\ ~(write.stream /\ write.file_num = f)}

Copy == INSTANCE FileCopy WITH dest <- Dest, spoiled <- Leftover \cup holed

(* Every file is replaced by a complete copy or not at all, resumed jobs,  *)
(* errors and lost connections included.  Excepted are files of which a    *)
(* job left a part that is not taken up, or whose part misses a block      *)
(* because a write failed or because the sender was told to start at an    *)
(* offset while the write job was at another file.                         *)
ImplementsCopy == Copy!CopySpec

(* A file of the user is replaced only if this job was told to.            *)
SkippedUntouched ==
    [][\A f \in File : path'[f] # path[f] => agreed[f] # "no"]_transferVars

(* A job comes to an end, or waits for the user, unless a job the client   *)
(* knows nothing of is in the queue of the sender.                         *)
Orphan == \E i \in 1..Len(reads) : reads[i].id # write.id
JobEnds == (write.id # 0) ~> (write.id = 0 \/ ask # {} \/ Orphan)

-----------------------------------------------------------------------------
(* The inductive invariant of these properties: what may be under way      *)
(* between the write job and its reader, whatever other jobs are around.   *)
WriteJob ==
    [id : Nat, file_num : 1..Beyond, stream : BOOLEAN, pos : Nat, resume : BOOLEAN,
     files : BOOLEAN, digest : 0..MaxVersion, strategy : {"ask", "yes", "no"}]
Reader ==
    [id : Nat, file_num : 1..Beyond, stream : BOOLEAN, pos : Nat, confirmed : BOOLEAN,
     waiting : BOOLEAN, skipped : BOOLEAN]
ToServer ==
    [type : {"send"}, id : Nat, file : 1..Beyond] \cup
    [type : {"cancel"}, id : Nat, file : {0}] \cup
    [type : {"skip", "offset"}, id : Nat, file : File, offset : Nat]
ToClient ==
    [type : {"dir", "done", "error"}, id : Nat] \cup
    [type : {"digest"}, id : Nat, file : File, version : 1..MaxVersion] \cup
    [type : {"block"}, id : Nat, file : File, version : 1..MaxVersion, number : Nat]

TransferShape ==
    /\ \A f \in File : /\ path[f] \in Content(f) \cup {None, Mine}
                      /\ part[f] \in Content(f) \cup {None}
    /\ DOMAIN path = File /\ DOMAIN part = File
    /\ digest \in [File -> 0..MaxVersion] /\ source \in [File -> 1..MaxVersion]
    /\ write \in WriteJob /\ reads \in Seq(Reader)
    /\ up \in Seq(ToServer) /\ down \in Seq(ToClient)
    /\ ask \subseteq File /\ holed \subseteq File
    /\ agreed \in [File -> {"no", "yes", "lost"}]
    /\ saved \in 0..Beyond /\ lastId \in Nat /\ errors \in Nat /\ losses \in Nat

(* Offsets and positions are within the file, and data is what it says.    *)
InBounds ==
    /\ \A i \in 1..Len(up) : up[i].type = "offset" => up[i].offset <= Size[up[i].file]
    /\ \A i \in 1..Len(down) :
          down[i].type = "block" => down[i].number \in 1..Size[down[i].file] + 1
    /\ \A i \in 1..Len(reads) :
          /\ reads[i].stream \/ reads[i].confirmed => reads[i].file_num \in File
          /\ reads[i].stream => reads[i].pos <= Size[reads[i].file_num]

(* Ids are not used twice, and a job that is listed as failed is over.     *)
IdsKnown ==
    /\ \A i \in 1..Len(up) : up[i].id \in 1..lastId
    /\ \A i \in 1..Len(down) : down[i].id \in 1..lastId
    /\ \A i \in 1..Len(reads) : reads[i].id \in 1..lastId
    /\ write.id \in 0..lastId /\ failed \subseteq 1..lastId /\ write.id \notin failed
    /\ write.id = 0 => write = NoJob /\ ask = {} /\ agreed = Unasked

(* A part without hole is the beginning of the version in its digest.      *)
PartsTrue ==
    \A f \in File : part[f] # None /\ f \notin holed =>
       \A k \in 1..Len(part[f]) : part[f][k] = <<digest[f], k>>

(* What concerns the write job: messages to the client before an error,    *)
(* messages to the connection, read jobs.                                  *)
Broken == \E i \in 1..Len(down) : down[i].id = write.id /\ down[i].type = "error"
Due == {i \in 1..Len(down) :
          /\ down[i].id = write.id
          /\ \A k \in 1..i : down[k].id = write.id => down[k].type # "error"}
Answers == {i \in 1..Len(up) : up[i].id = write.id}
Readers == {i \in 1..Len(reads) : reads[i].id = write.id}

(* The next file the write job hears of is n.                              *)
Upcoming(n) ==
    /\ write.stream => write.file_num < n
    /\ \A k \in Due : down[k].type = "block" => down[k].file < n
    /\ ~write.stream /\ (\A k \in Due : down[k].type # "block") => write.file_num = n

(* It gets blocks of f, the first of which is to be Expected(f), and       *)
(* exactly that one if no block is missing.                                *)
Current(f) ==
    /\ IF write.stream THEN write.file_num <= f ELSE write.file_num = f
    /\ write.stream /\ write.file_num = f => digest[f] = write.digest
    /\ write.files /\ agreed[f] # "no"
Expected(f) == IF write.stream /\ write.file_num = f THEN write.pos + 1 ELSE 1
Exact(f) == IF write.stream /\ write.file_num = f THEN f \notin holed ELSE agreed[f] = "yes"

Idle(j) == ~j.stream /\ ~j.confirmed /\ ~j.waiting
Waits(j) == j.stream /\ ~j.confirmed /\ j.waiting /\ j.pos = 0
Sends(j) == j.stream /\ j.confirmed
FilesKnown == write.files \/ \E k \in Due : down[k].type = "dir"

(* The rest of f is still to be sent, or its end is under way.             *)
Goes(f) ==
    /\ \A k \in Due : down[k].type = "block" /\ down[k].file = f
    /\ \/ Broken
       \/ \E r \in Readers :
             /\ reads[r].file_num = f
             /\ Sends(reads[r]) \/ \E i \in Answers : up[i].type = "offset"
Comes(f) ==
    \/ \E k \in Due : /\ down[k].type = "block" /\ down[k].file = f
                      /\ down[k].number = Size[f] + 1
    \/ Goes(f)

BlockInOrder(i) ==
    down[i].type = "block" =>
       /\ Current(down[i].file) /\ Comes(down[i].file) /\ down[i].version = write.digest
       /\ Expected(down[i].file) <= down[i].number
       /\ Exact(down[i].file) =>
             \/ down[i].number = Expected(down[i].file)
             \/ \E k \in Due : /\ k < i /\ down[k].type = "block"
                              /\ down[k].number = down[i].number - 1
       /\ \A k \in Due : k > i /\ down[k].type = "block" =>
             down[k].file = down[i].file /\ down[i].number < down[k].number

OtherInOrder(i) ==
    /\ down[i].type = "dir" =>
          /\ ~write.files /\ ~write.stream
          /\ \A k \in Due : i <= k /\ down[k].type # "block"
    /\ down[i].type \in {"digest", "done"} =>
          /\ FilesKnown /\ Answers = {} /\ ask = {}
          /\ \A k \in Due : k <= i
    /\ down[i].type = "digest" =>
          /\ ~Broken /\ Upcoming(down[i].file)
          /\ down[i].version = source[down[i].file]
          /\ \E r \in Readers : Waits(reads[r]) /\ reads[r].file_num = down[i].file
    /\ down[i].type = "done" => Upcoming(Beyond) /\ Readers = {}

(* One answer at most is under way.                                        *)
AnswerInOrder(i) ==
    /\ Answers = {i} /\ Due = {} /\ ask = {} /\ ~Broken
    /\ up[i].type = "send" =>
          /\ ~write.stream /\ ~write.files /\ write.file_num = up[i].file
          /\ Readers = {}
    /\ up[i].type \in {"skip", "offset"} =>
          /\ write.files
          /\ \E r \in Readers : Waits(reads[r]) /\ reads[r].file_num = up[i].file
    /\ up[i].type # "cancel"
    /\ up[i].type = "skip" => Upcoming(up[i].file + 1)
    /\ up[i].type = "offset" =>
          /\ Current(up[i].file) /\ source[up[i].file] = write.digest
          /\ Expected(up[i].file) <= up[i].offset + 1
          /\ Exact(up[i].file) => up[i].offset + 1 = Expected(up[i].file)

(* The dialog is about the file that the sender waits with.                *)
AskedInOrder(f) ==
    /\ ask = {f} /\ Due = {} /\ Answers = {} /\ ~Broken
    /\ write.files /\ Upcoming(f) /\ source[f] = write.digest
    /\ \E r \in Readers : Waits(reads[r]) /\ reads[r].file_num = f

ReaderInOrder(r) ==
    /\ Readers = {r}
    /\ ~Broken =>
          \/ /\ Idle(reads[r]) /\ FilesKnown /\ Upcoming(reads[r].file_num)
             /\ Answers = {} /\ ask = {} /\ \A k \in Due : down[k].type # "digest"
          \/ /\ Waits(reads[r])
             /\ Answers # {} \/ ask # {} \/ \E k \in Due : down[k].type = "digest"
          \/ /\ Sends(reads[r]) /\ Current(reads[r].file_num)
             /\ Answers = {} /\ ask = {}
             /\ source[reads[r].file_num] = write.digest
             /\ \A k \in Due : /\ down[k].type = "block"
                               /\ down[k].file = reads[r].file_num
                               /\ down[k].number <= reads[r].pos
             /\ Expected(reads[r].file_num) <= reads[r].pos + 1
             /\ Exact(reads[r].file_num) =>
                   \/ reads[r].pos + 1 = Expected(reads[r].file_num)
                   \/ \E k \in Due : down[k].number = reads[r].pos

PipeInOrder ==
    /\ \A i \in Due : BlockInOrder(i) /\ OtherInOrder(i)
    /\ \A i \in Answers : AnswerInOrder(i)
    /\ \A f \in ask : AskedInOrder(f)
    /\ \A r \in Readers : ReaderInOrder(r)

(* The open file was agreed on, and it is complete, or the rest is coming. *)
StreamTrue ==
    write.stream =>
       LET f == write.file_num
       IN  /\ f \in File /\ write.files /\ agreed[f] # "no"
           /\ agreed[f] = "lost" => f \in holed
           /\ part[f] # None /\ write.pos <= Len(part[f])
           /\ f \notin holed => Size[f] <= write.pos \/ Comes(f)

TransferIInv ==
    /\ TransferShape /\ InBounds /\ IdsKnown /\ PartsTrue
    /\ PipeInOrder /\ StreamTrue
=============================================================================
