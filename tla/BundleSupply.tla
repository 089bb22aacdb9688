---------------------------- MODULE BundleSupply ----------------------------
(***************************************************************************)
(* A recovery bundle on its way to the phone: the packager that publishes  *)
(* it in the host's bundle root (prepare-recovery-runtime-bundle.py), the  *)
(* server that sends it once (host_bundle_server.py), the connection, and  *)
(* the phone's fetcher with its sandboxed worker (rog5-bundle-fetch.c).    *)
(*                                                                         *)
(* A part's content is the build it belongs to, or what else may be found  *)
(* in its place.  Part 1 is the manifest, which fixes the bundle's name    *)
(* and the hash of every part but itself and the signature, part 2; its    *)
(* own hash, the build, is what the server and the phone are asked for.    *)
(* Every step may fail; a deadline is a failure that is bound to come.     *)
(***************************************************************************)
EXTENDS Naturals, Sequences

CONSTANTS
    Builds,         \* manifest identities
    Sources,        \* builds that the packager is given the artifacts of
    N,              \* number of parts
    MaxRejected,    \* MAX_REJECTED_PEERS
    MaxPacks, MaxServes, MaxFetches,    \* bounds: runs of each program
    MaxFaults       \* bound: kills, power losses and changes by hand

VARIABLES
    root,       \* the host's bundle root: its one directory and the parts in it
    unsynced,   \* parts whose content or name is not durable
    names,      \* what power loss may leave of the directory
    pack,       \* the packager
    srv,        \* the server
    conn,       \* the connection of each fetch
    cur,        \* the latest fetch
    wanted,     \* the build that it was asked for
    fetch,      \* the fetcher's next step
    worker,     \* the worker of each fetch
    stage,      \* the phone's .incoming directory
    final,      \* the phone's published bundle
    excuse,     \* history: why the latest fetch may leave a staging directory
    finalFor,   \* history: the build asked for by the fetch that published
    offered,    \* history: builds that were published on the host
    packs, serves, faults   \* counters

host == <<root, unsynced, names, pack, offered, packs>>
server == <<srv, serves>>
phone == <<cur, wanted, fetch, stage, final, excuse, finalFor>>
vars == <<host, server, conn, phone, worker, faults>>

ASSUME PartsAssumption == N \in Nat /\ N > 2
ASSUME SourcesAssumption == Sources \subseteq Builds
ASSUME FetchesAssumption == MaxFetches \in Nat
ASSUME BuildsAssumption == Builds \cap {"none", "torn", "other", "resized"} = {}

Parts == 1..N
Fetches == 1..MaxFetches

\* A part that was not written, or not completely; one changed by hand to
\* other bytes of the same or of another length.
Contents == Builds \cup {"none", "torn", "other", "resized"}
Files == [Parts -> Contents]
NoFiles == [k \in Parts |-> "none"]

NoConn == [st |-> "none", asked |-> "none", wire |-> <<>>, inbox |-> <<>>,
           reset |-> "no", acked |-> FALSE]
NoStage == [owner |-> 0, files |-> NoFiles]
NoWorker == [pc |-> "none", i |-> 0, want |-> "none"]
NoPack == [pc |-> "idle", build |-> "none", i |-> 0]
NoServer(result) == [pc |-> result, want |-> "none", held |-> NoFiles, i |-> 0, peer |-> 0,
                     rejected |-> 0]

Packing == {"file", "sync", "rename", "syncRoot", "cleanup"}
Serving == {"listen", "request", "send", "shut", "confirm", "confirmInfo"}
Fetching == {"unlink", "rmdir", "mkdir", "connect", "fork", "wait", "validate",
             "normalize", "publish", "sync", "cleanup", "cleanupEnd"}
Working == {"setup", "request", "header", "recv", "eof"}

Init ==
    /\ root = [dir |-> "empty", files |-> NoFiles]
    /\ unsynced = {} /\ names = {"empty"}
    /\ pack = NoPack /\ srv = NoServer("idle")
    /\ conn = [f \in Fetches |-> NoConn]
    /\ cur = 0 /\ wanted = "none"
    /\ fetch = "idle" /\ worker = [f \in Fetches |-> NoWorker]
    /\ stage = NoStage /\ final = NoFiles
    /\ excuse = {} /\ finalFor = "none" /\ offered = {}
    /\ packs = 0 /\ serves = 0 /\ faults = 0

\* Mutant of Bound: the manifest's hashes are not looked at.
MutBoundManifestOnly(k, c, b) == IF k = 1 THEN c = b ELSE c \notin {"none", "torn", "resized"}

\* What the manifest says of part k (parse_manifest, validate_manifest): its
\* hash, or for the signature only its length.
Bound(k, c, b) == IF k = 2 THEN c \notin {"none", "torn", "resized"} ELSE c = b

Valid(files, b) == \A k \in Parts : Bound(k, files[k], b)

-----------------------------------------------------------------------------
(* The packager.                                                            *)

\* Image, board.dtb and initramfs first, then the manifest and its signature.
PackOrder(i) == IF i <= N - 2 THEN i + 2 ELSE i - (N - 2)

PackGoes(step) == pack' = [pack EXCEPT !.pc = step]

\* open_bundle_root and create_staging_directory: the exclusive lock, an empty
\* root, a private directory, which stays when it can be neither opened nor
\* removed again.
PackStart(b) ==
    /\ pack.pc \notin Packing /\ packs < MaxPacks
    /\ packs' = packs + 1
    /\ \/ /\ srv.pc \notin Serving /\ root.dir = "empty"
          /\ names' = names \cup {"staging"}
          /\ \/ root' = [root EXCEPT !.dir = "staging"] /\ pack' = [pc |-> "file", build |-> b, i |-> 1]
             \/ root' \in {root, [root EXCEPT !.dir = "staging"]} /\ pack' = NoPack
       \/ pack' = NoPack /\ UNCHANGED <<root, names>>
    /\ UNCHANGED <<unsynced, offered, server, conn, phone, worker, faults>>

\* copy_artifact and create_file: created, written, synced and read back; a
\* source that changes meanwhile is refused.
PackFile ==
    /\ pack.pc = "file"
    /\ LET k == PackOrder(pack.i) IN
       \/ /\ root' = [root EXCEPT !.files[k] = pack.build]
          /\ pack' = IF pack.i < N THEN [pack EXCEPT !.i = @ + 1]
                     ELSE [pack EXCEPT !.pc = "sync"]
          /\ unsynced' = unsynced \cup {k}
       \/ PackGoes("cleanup") /\ UNCHANGED <<root, unsynced>>
    /\ UNCHANGED <<names, offered, packs, server, conn, phone, worker, faults>>

\* Mutant of PackSync: the staging directory is not synced.
MutPackSyncMissing ==
    /\ pack.pc = "sync"
    /\ PackGoes("rename") \/ PackGoes("cleanup")
    /\ UNCHANGED <<root, names, unsynced, offered, packs, server, conn, phone, worker, faults>>

\* The inventory is complete, and the staging directory is synced.
PackSync ==
    /\ pack.pc = "sync"
    /\ \/ unsynced' = {} /\ PackGoes("rename")
       \/ UNCHANGED unsynced /\ PackGoes("cleanup")
    /\ UNCHANGED <<root, names, offered, packs, server, conn, phone, worker, faults>>

\* fchmod and rename_noreplace.
PackRename ==
    /\ pack.pc = "rename"
    /\ \/ /\ root' = [root EXCEPT !.dir = "bundle"]
          /\ names' = names \cup {"bundle"}
          /\ offered' = offered \cup {pack.build}
          /\ PackGoes("syncRoot")
       \/ UNCHANGED <<root, names, offered>> /\ PackGoes("cleanup")
    /\ UNCHANGED <<unsynced, packs, server, conn, phone, worker, faults>>

\* The bundle stays published when the sync of the root fails.
PackSyncRoot ==
    /\ pack.pc = "syncRoot"
    /\ names' \in {{root.dir}, names}
    /\ pack' = NoPack
    /\ UNCHANGED <<root, unsynced, offered, packs, server, conn, phone, worker, faults>>

\* The staging directory is left behind: nobody will look into it.
Abandoned == root' = [dir |-> "staging", files |-> NoFiles] /\ unsynced' = {}

\* cleanup_staging, from the finally clause.
PackCleanup ==
    /\ pack.pc = "cleanup"
    /\ \/ /\ root' = [dir |-> "empty", files |-> NoFiles]
          /\ names' = names \cup {"empty"}
          /\ unsynced' = {}
       \/ Abandoned /\ UNCHANGED names
    /\ pack' = NoPack
    /\ UNCHANGED <<offered, packs, server, conn, phone, worker, faults>>

Packager ==
    \/ \E b \in Sources : PackStart(b)
    \/ PackFile \/ PackSync \/ PackRename \/ PackSyncRoot \/ PackCleanup

-----------------------------------------------------------------------------
(* The server, and the connection under it.                                 *)

Part(c) == [kind |-> "part", content |-> c]
Header == [kind |-> "header", content |-> "none"]
Fin == [kind |-> "fin", content |-> "none"]

\* The sockets are closed: the phone reads what was last sent, and what waits
\* in the listener's queue is reset.
ServerCloses(result, last) ==
    /\ srv' = NoServer(result)
    /\ conn' = [f \in Fetches |->
          CASE conn[f].st = "queued" -> [conn[f] EXCEPT !.st = "gone"]
            [] conn[f].st = "left" -> NoConn
            [] f = srv.peer /\ conn[f].st # "open" -> NoConn
            [] f = srv.peer /\ result = "refused" -> [conn[f] EXCEPT !.wire = @ \o last]
            [] OTHER -> conn[f]]

ServerEnds(result) == ServerCloses(result, <<Fin>>)

ServerGoes(step) == srv' = [srv EXCEPT !.pc = step] /\ UNCHANGED conn

\* prepare_bundle: the shared lock, exactly one bundle, every part bound to the
\* requested manifest; the opened parts stay the ones that are sent.
ServerStart(b) ==
    /\ srv.pc \notin Serving /\ serves < MaxServes
    /\ serves' = serves + 1
    /\ \E ok \in BOOLEAN :
          /\ ok => pack.pc \notin Packing /\ root.dir = "bundle" /\ Valid(root.files, b)
          /\ srv' = IF ok THEN [NoServer("listen") EXCEPT !.want = b, !.held = root.files]
                     ELSE NoServer("refused")
    /\ UNCHANGED <<host, conn, phone, worker, faults>>

Accept(f) ==
    /\ srv.pc = "listen" /\ conn[f].st \in {"queued", "left"}
    /\ srv' = [srv EXCEPT !.pc = "request", !.peer = f, !.rejected = 0]
    /\ conn' = [conn EXCEPT ![f].st = IF @ = "queued" THEN "open" ELSE "closed"]
    /\ UNCHANGED <<host, serves, phone, worker, faults>>

\* A peer at another address; eight of them end the server.
RejectPeer ==
    /\ srv.pc = "listen"
    /\ IF srv.rejected + 1 < MaxRejected
       THEN srv' = [srv EXCEPT !.rejected = @ + 1] /\ UNCHANGED conn
       ELSE ServerEnds("refused")
    /\ UNCHANGED <<host, serves, phone, worker, faults>>

\* receive_request: the whole request and its end, for exactly this bundle.
ReceiveRequest ==
    /\ srv.pc = "request" /\ conn[srv.peer].asked # "none"
    /\ IF conn[srv.peer].asked = srv.want
       THEN /\ srv' = [srv EXCEPT !.pc = "send"]
            /\ conn' = [conn EXCEPT ![srv.peer].asked = "none"]
       ELSE ServerEnds("refused")
    /\ UNCHANGED <<host, serves, phone, worker, faults>>

\* serve_connection: the header, then the opened parts in order; on a reset
\* connection nothing is sent.
Send ==
    /\ srv.pc = "send" /\ (srv.i > 0 => srv.held[srv.i] # "resized")
    /\ IF conn[srv.peer].reset # "no"
       THEN ServerEnds("refused")
       ELSE /\ srv' = IF srv.i < N THEN [srv EXCEPT !.i = @ + 1]
                      ELSE [srv EXCEPT !.pc = "shut"]
            /\ conn' = [conn EXCEPT ![srv.peer].wire =
                  Append(@, IF srv.i = 0 THEN Header ELSE Part(srv.held[srv.i]))]
    /\ UNCHANGED <<host, serves, phone, worker, faults>>

\* A part that became short is refused, one that became long only after its
\* recorded length was sent.
SendResized ==
    /\ srv.pc = "send" /\ srv.i > 0 /\ srv.held[srv.i] = "resized"
    /\ conn[srv.peer].reset = "no"
    /\ \E last \in {<<Fin>>, <<Part(srv.want), Fin>>, <<Part("other"), Fin>>} :
          ServerCloses("refused", last)
    /\ UNCHANGED <<host, serves, phone, worker, faults>>

\* shutdown(SHUT_WR).
HalfClose ==
    /\ srv.pc = "shut"
    /\ IF conn[srv.peer].reset # "no" THEN ServerEnds("refused")
       ELSE /\ srv' = [srv EXCEPT !.pc = "confirm"]
            /\ conn' = [conn EXCEPT ![srv.peer].wire = Append(@, Fin)]
    /\ UNCHANGED <<host, serves, phone, worker, faults>>

\* confirm_tcp_delivery reads SO_ERROR ...
ConfirmError ==
    /\ srv.pc = "confirm"
    /\ IF conn[srv.peer].reset # "no" THEN ServerEnds("refused") ELSE ServerGoes("confirmInfo")
    /\ UNCHANGED <<host, serves, phone, worker, faults>>

\* ... and then the socket's state: closed by the acknowledged FIN or a reset.
ConfirmInfo ==
    /\ srv.pc = "confirmInfo"
    /\ IF conn[srv.peer].acked \/ conn[srv.peer].reset # "no"
       THEN ServerEnds("pass") ELSE ServerGoes("confirm")
    /\ UNCHANGED <<host, serves, phone, worker, faults>>

\* The deadline, an error of any call, or the end of the process.
Refuse ==
    /\ srv.pc \in Serving
    /\ ServerEnds("refused")
    /\ UNCHANGED <<host, serves, phone, worker, faults>>

Server ==
    \/ \E b \in Builds : ServerStart(b)
    \/ \E f \in Fetches : Accept(f)
    \/ RejectPeer \/ ReceiveRequest \/ Send \/ SendResized \/ HalfClose \/ ConfirmError \/ ConfirmInfo
    \/ Refuse

\* The phone answers segments of a connection that it does not have any more.
ResetBy(c, f) ==
    [c EXCEPT !.wire = <<>>,
              !.reset = CASE srv.peer # f \/ srv.pc \notin Serving \/ @ # "no" -> @
                          [] srv.pc = "confirmInfo" -> "late"
                          [] OTHER -> "early"]

\* What was sent reaches the phone's kernel, which acknowledges it whether or
\* not anybody reads it; after a close only the end of the stream is.
Deliver(f) ==
    LET c == conn[f] IN
    /\ c.wire # <<>>
    /\ conn' = [conn EXCEPT ![f] =
          IF c.st = "open"
          THEN [c EXCEPT !.wire = <<>>, !.inbox = @ \o c.wire,
                         !.acked = srv.peer = f /\ c.wire[Len(c.wire)] = Fin]
          ELSE IF c.st = "closed" /\ c.wire = <<Fin>>
          THEN [c EXCEPT !.wire = <<>>, !.acked = srv.peer = f]
          ELSE ResetBy(c, f)]
    /\ UNCHANGED <<host, server, phone, worker, faults>>

-----------------------------------------------------------------------------
(* The fetcher's parent on the phone.                                       *)

\* The last descriptor of a socket is closed: unread data resets it.  A
\* connection that the server has left as well is forgotten.
Closed(c, f) ==
    LET left == [c EXCEPT !.inbox = <<>>, !.st = IF @ = "queued" THEN "left" ELSE "closed"] IN
    IF c.st # "queued" /\ f # srv.peer THEN NoConn
    ELSE IF \E n \in 1..Len(c.inbox) : c.inbox[n] # Fin THEN ResetBy(left, f)
    ELSE left

FetchGoes(step) == fetch' = step

\* Neither the stored bundle nor the request changes.
Fetch(step) == fetch = step /\ UNCHANGED <<host, server, cur, wanted, faults>>

\* The root is locked against other fetchers; a worker that still sets up
\* holds its parent's lock.  scan_root admits one staging and one final.
FetchStart(b) ==
    /\ fetch \notin Fetching /\ cur < MaxFetches
    /\ cur' = cur + 1
    /\ wanted' = b
    /\ \/ /\ \A f \in Fetches : worker[f].pc # "setup"
          /\ FetchGoes(IF stage.owner # 0 THEN "unlink" ELSE "mkdir")
          /\ excuse' = {}
       \/ FetchGoes("failed") /\ excuse' = {"busy"}
    /\ UNCHANGED <<host, server, conn, stage, final, finalFor, worker, faults>>

\* cleanup_staging: the known files are unlinked, then the directory goes,
\* unless a worker put a file into it in between.
Unlink(step, next) ==
    /\ Fetch(step)
    /\ \/ /\ stage' = [stage EXCEPT !.files = NoFiles]
          /\ FetchGoes(next)
          /\ UNCHANGED excuse
       \/ /\ \E kept \in SUBSET Parts :
                stage' = [stage EXCEPT !.files =
                    [k \in Parts |-> IF k \in kept THEN stage.files[k] ELSE "none"]]
          /\ FetchGoes("failed")
          /\ excuse' = excuse \cup {"io"}
    /\ UNCHANGED <<conn, final, finalFor, worker>>

Rmdir(step, next) ==
    /\ Fetch(step)
    /\ \/ /\ stage.files = NoFiles
          /\ stage' = NoStage
          /\ FetchGoes(next)
          /\ UNCHANGED excuse
       \/ /\ FetchGoes("failed")
          /\ excuse' = excuse \cup {IF stage.files = NoFiles THEN "io" ELSE "orphan"}
          /\ UNCHANGED stage
    /\ UNCHANGED <<conn, final, finalFor, worker>>

UnlinkStale == Unlink("unlink", "rmdir")
RmdirStale == Rmdir("rmdir", "mkdir")

\* A published bundle of any name is a conflict.
MakeStage ==
    /\ Fetch("mkdir")
    /\ \/ FetchGoes("failed") /\ UNCHANGED stage
       \/ /\ final = NoFiles
          /\ stage' = [owner |-> cur, files |-> NoFiles]
          /\ FetchGoes("connect") \/ FetchGoes("cleanup")
    /\ UNCHANGED <<conn, final, excuse, finalFor, worker>>

\* connect_fixed: the listener's queue takes it before the server accepts.
Connect ==
    /\ Fetch("connect")
    /\ \/ /\ srv.pc \in Serving
          /\ conn' = [conn EXCEPT ![cur].st = "queued"]
          /\ FetchGoes("fork")
       \/ FetchGoes("cleanup") /\ UNCHANGED conn
    /\ UNCHANGED <<stage, final, excuse, finalFor, worker>>

Fork ==
    /\ Fetch("fork")
    /\ \/ /\ worker' = [worker EXCEPT ![cur] = [pc |-> "setup", i |-> 0, want |-> wanted]]
          /\ FetchGoes("wait")
          /\ UNCHANGED conn
       \/ /\ conn' = [conn EXCEPT ![cur] = Closed(conn[cur], cur)]
          /\ FetchGoes("cleanup")
          /\ UNCHANGED worker
    /\ UNCHANGED <<stage, final, excuse, finalFor>>

\* Mutant of AwaitWorker: the worker is waited for without a deadline.
MutAwaitWorkerForever ==
    /\ Fetch("wait")
    /\ \/ worker[cur].pc = "ok" /\ FetchGoes("validate")
       \/ worker[cur].pc \in {"ok", "failed"} /\ FetchGoes("cleanup")
    /\ worker' = [worker EXCEPT ![cur] = NoWorker]
    /\ conn' = [conn EXCEPT ![cur] = Closed(conn[cur], cur)]
    /\ UNCHANGED <<stage, final, excuse, finalFor>>

\* What the write in progress may leave of the worker's current part.
Stopped(f) ==
    IF worker[f].pc = "recv" /\ stage.owner = f
    THEN {[stage EXCEPT !.files[worker[f].i] = c] : c \in {"none", "torn"}}
    ELSE {stage}

\* wait_for_worker, which kills it at the deadline; then the socket is closed.
AwaitWorker ==
    /\ Fetch("wait")
    /\ \/ worker[cur].pc = "ok" /\ FetchGoes("validate") /\ UNCHANGED stage
       \/ worker[cur].pc \in {"ok", "failed"} /\ FetchGoes("cleanup") /\ UNCHANGED stage
       \/ worker[cur].pc \in Working /\ FetchGoes("cleanup") /\ stage' \in Stopped(cur)
    /\ worker' = [worker EXCEPT ![cur] = NoWorker]
    /\ conn' = [conn EXCEPT ![cur] = Closed(conn[cur], cur)]
    /\ UNCHANGED <<final, excuse, finalFor>>

\* validate_complete_bundle of what the worker left.
ValidateStage ==
    /\ Fetch("validate")
    /\ \/ Valid(stage.files, wanted) /\ FetchGoes("normalize")
       \/ FetchGoes("cleanup")
    /\ UNCHANGED <<conn, stage, final, excuse, finalFor, worker>>

\* normalize_staging takes the directory and the files from the worker, and
\* they are validated again.
NormalizeStage ==
    /\ Fetch("normalize")
    /\ \/ Valid(stage.files, wanted) /\ FetchGoes("publish")
       \/ FetchGoes("cleanup")
    /\ UNCHANGED <<conn, stage, final, excuse, finalFor, worker>>

\* Mutant of PublishStage: the result of the rename is not looked at.
MutPublishStageUnchecked ==
    /\ Fetch("publish")
    /\ \/ /\ final = NoFiles
          /\ final' = stage.files
          /\ finalFor' = wanted
          /\ stage' = NoStage
          /\ FetchGoes("sync")
       \/ UNCHANGED <<stage, final, finalFor>> /\ FetchGoes("sync")
    /\ UNCHANGED <<conn, excuse, worker>>

\* publish_staging: renameat2 that replaces nothing ...
PublishStage ==
    /\ Fetch("publish")
    /\ \/ /\ final = NoFiles
          /\ final' = stage.files
          /\ finalFor' = wanted
          /\ stage' = NoStage
          /\ FetchGoes("sync")
       \/ UNCHANGED <<stage, final, finalFor>> /\ FetchGoes("cleanup")
    /\ UNCHANGED <<conn, excuse, worker>>

\* ... and the sync of the root; an error, or a deadline that has passed by
\* now, is reported although the bundle is published.
PublishSync ==
    /\ Fetch("sync")
    /\ FetchGoes("ok") \/ FetchGoes("failed")
    /\ UNCHANGED <<conn, stage, final, excuse, finalFor, worker>>

\* Mutant of CleanupStage: files are unlinked, the directory is forgotten.
MutCleanupStageKeepsDirectory == Unlink("cleanup", "failed")

CleanupStage == Unlink("cleanup", "cleanupEnd")
CleanupEnd == Rmdir("cleanupEnd", "failed")

Fetcher ==
    \/ UnlinkStale \/ RmdirStale \/ MakeStage \/ Connect \/ Fork \/ AwaitWorker
    \/ ValidateStage \/ NormalizeStage \/ PublishStage \/ PublishSync
    \/ CleanupStage \/ CleanupEnd

-----------------------------------------------------------------------------
(* The worker.                                                              *)

WorkerGoes(f, step) == worker' = [worker EXCEPT ![f].pc = step]

\* The parent of the worker lives.
Awaited(f) == f = cur /\ fetch = "wait"

\* A step of a worker that reads the next item of its connection and goes on
\* with part i; a worker that ends is the last to hold the socket if its parent is dead.
Reads(f, step, kind, pc, i) ==
    LET c == [conn[f] EXCEPT !.inbox = Tail(@)] IN
    /\ worker[f].pc = step
    /\ conn[f].inbox # <<>> /\ Head(conn[f].inbox).kind = kind
    /\ worker' = [worker EXCEPT ![f].pc = pc, ![f].i = i]
    /\ conn' = [conn EXCEPT ![f] = IF pc \in Working \/ Awaited(f) THEN c ELSE Closed(c, f)]
    /\ UNCHANGED <<host, server, cur, wanted, fetch, final, excuse, finalFor, faults>>

\* It closes every descriptor but its two, and makes sure of its parent.
WorkerSetup(f) ==
    /\ worker[f].pc = "setup" /\ Awaited(f)
    /\ WorkerGoes(f, "request")
    /\ UNCHANGED <<host, server, conn, phone, faults>>

\* The request and its end.
WorkerRequest(f) ==
    /\ worker[f].pc = "request"
    /\ WorkerGoes(f, "header")
    /\ conn' = [conn EXCEPT ![f].asked = worker[f].want]
    /\ UNCHANGED <<host, server, phone, faults>>

WorkerHeader(f) ==
    /\ Reads(f, "header", "header", "recv", 1)
    /\ UNCHANGED stage

\* worker_receive_file: the part is written and its hash compared; in a
\* directory that was removed no file can be created.
WorkerReceive(f) ==
    LET i == worker[f].i  c == Head(conn[f].inbox).content IN
    /\ Reads(f, "recv", "part",
             IF ~Bound(i, c, worker[f].want) THEN "failed" ELSE IF i < N THEN "recv" ELSE "eof",
             i + 1)
    /\ stage.owner = f
    /\ stage' = [stage EXCEPT !.files[i] = c]

\* Nothing follows the last part.
WorkerEnd(f) ==
    /\ Reads(f, "eof", "fin", "ok", 0)
    /\ UNCHANGED stage

\* An early end, a reset, an I/O error, the deadline, or the kernel's signal
\* after the parent's death.  The last one to hold the socket closes it.
WorkerFails(f) ==
    /\ worker[f].pc \in Working
    /\ WorkerGoes(f, "failed")
    /\ stage' \in Stopped(f)
    /\ conn' = [conn EXCEPT ![f] = IF Awaited(f) THEN @ ELSE Closed(@, f)]
    /\ UNCHANGED <<host, server, cur, wanted, fetch, final, excuse, finalFor, faults>>

Worker(f) ==
    \/ WorkerSetup(f) \/ WorkerRequest(f) \/ WorkerHeader(f) \/ WorkerReceive(f)
    \/ WorkerEnd(f) \/ WorkerFails(f)

-----------------------------------------------------------------------------
(* What happens to them.                                                    *)

Fault == faults < MaxFaults /\ faults' = faults + 1

\* SIGKILL leaves the staging directory with what has been written.
KillPack ==
    /\ Fault /\ pack.pc \in Packing
    /\ pack' = NoPack
    /\ IF root.dir = "staging" THEN Abandoned ELSE UNCHANGED <<root, unsynced>>
    /\ UNCHANGED <<names, offered, packs, server, conn, phone, worker>>

\* What power loss may leave in a directory: of what is not durable, anything.
Remains(dir) ==
    IF dir # "bundle" THEN {NoFiles}
    ELSE {[k \in Parts |-> IF k \in lost \cap unsynced THEN c ELSE root.files[k]] :
             lost \in SUBSET Parts, c \in {"none", "torn"}}

\* The host loses power.
HostPowerLoss ==
    /\ Fault
    /\ \E dir \in names : \E files \in Remains(dir) : root' = [dir |-> dir, files |-> files]
    /\ names' = {root'.dir} /\ unsynced' = {}
    /\ pack' = NoPack
    /\ srv' = IF srv.pc \in Serving THEN NoServer("refused") ELSE srv
    /\ conn' = [f \in Fetches |-> IF conn[f].st \in {"none", "left", "closed"} THEN NoConn
                                    ELSE [conn[f] EXCEPT !.wire = <<>>, !.st = "gone"]]
    /\ UNCHANGED <<offered, packs, serves, phone, worker>>

\* Somebody clears the root, which neither program does, or writes into a
\* published bundle; the server's open parts are the same files.
ClearRoot ==
    /\ root.dir # "empty" /\ pack.pc \notin Packing
    /\ root' = [dir |-> "empty", files |-> NoFiles]
    /\ names' = {"empty"} /\ unsynced' = {}
    /\ UNCHANGED <<pack, offered, packs, server, conn, phone, worker, faults>>

EditRoot ==
    /\ Fault /\ root.dir = "bundle" /\ pack.pc \notin Packing
    /\ \E k \in Parts, c \in {"other", "resized"} :
          /\ root' = [root EXCEPT !.files[k] = c]
          /\ srv' = IF srv.pc \in Serving THEN [srv EXCEPT !.held[k] = c] ELSE srv
    /\ UNCHANGED <<unsynced, names, pack, offered, packs, serves, conn, phone, worker>>

\* The control program's timeout kills the fetcher, not its worker.
KillFetch ==
    /\ Fault /\ fetch \in Fetching
    /\ fetch' = "killed"
    /\ conn' = IF worker[cur].pc \in Working THEN conn
               ELSE [conn EXCEPT ![cur] = Closed(@, cur)]
    /\ UNCHANGED <<host, server, cur, wanted, stage, final, excuse, finalFor, worker>>

\* The phone restarts: /run is empty again.
PhoneRestart ==
    /\ Fault /\ cur > 0
    /\ fetch' = "killed"
    /\ worker' = [f \in Fetches |-> NoWorker]
    /\ stage' = NoStage /\ final' = NoFiles /\ finalFor' = "none"
    /\ conn' = [f \in Fetches |-> IF f = srv.peer THEN [conn[f] EXCEPT !.inbox = <<>>, !.st = "gone"]
                                    ELSE NoConn]
    /\ UNCHANGED <<host, server, cur, wanted, excuse>>

Faults == KillPack \/ HostPowerLoss \/ ClearRoot \/ EditRoot \/ KillFetch \/ PhoneRestart

Next ==
    \/ Packager \/ Server \/ Fetcher \/ Faults
    \/ \E b \in Builds : FetchStart(b)
    \/ \E f \in Fetches : Worker(f) \/ Deliver(f)

\* A fetcher that is not killed goes on: its deadline bounds every wait.  Nobody
\* has to start a program, and neither network nor host need do anything.
Fairness == WF_vars(Fetcher)

Spec == Init /\ [][Next]_vars /\ Fairness

-----------------------------------------------------------------------------
(* Properties.                                                              *)

\* The bundle the phone publishes is complete and, in all that the manifest
\* binds, the build its request named, whatever was changed on the host,
\* whoever was killed, and also when the fetch reports a failure.
FinalIsRequested ==
    final # NoFiles =>
        /\ \A k \in Parts \ {2} : final[k] = finalFor
        /\ final[2] \notin {"none", "torn", "resized"}

\* Whenever the host loses power, a directory under the bundle's name holds
\* every part, of one build (but for what was changed by hand).
HostRootWhole ==
    "bundle" \in names =>
        /\ unsynced = {}
        /\ \E b \in Builds : \A k \in Parts : root.files[k] \in {b, "other", "resized"}

\* confirm_tcp_delivery reports success only when the phone's kernel has
\* acknowledged the end of the stream ("Wait until Linux reports that the response
\* FIN was acknowledged"), or was reset between its two reads of the socket, which
\* shows a closed socket without an error.
PassUnlessLateReset ==
    [][srv.pc # "pass" /\ srv'.pc = "pass" =>
          conn[srv.peer].acked \/ conn[srv.peer].reset = "late"]_vars

\* A fetch that fails leaves no staging directory, unless removing it failed,
\* a worker that outlived its killed parent was still writing into it, or the
\* root was busy.
FailureLeavesClean == fetch = "failed" /\ excuse = {} => stage = NoStage

Answered ==
    CASE fetch = "ok" -> "ok"
      [] fetch = "sync" -> "held"
      [] fetch \in Fetching \ {"sync"} -> "none"
      [] OTHER -> "failed"

Abstract == INSTANCE Handover WITH
    Nothing <- "none",
    answer <- Answered,
    phone <- final[1]

\* Packager, server, connection and fetcher together hand over one packaged
\* build, the requested one, once, and answer ok only when it is there.
ImplementsHandover == Abstract!HandSpec

\* Every fetch comes to an end, whatever the host, the network and its worker do.
FetchEnds == fetch \in Fetching ~> fetch \notin Fetching
=============================================================================
