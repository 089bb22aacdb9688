------------------------- MODULE BundleSupplyProofs -------------------------
(***************************************************************************)
(* The safety of handing a bundle over, for any number of parts, builds,   *)
(* packagings, servers, fetches and faults.  The inductive invariant has   *)
(* three parts, each preserved with the help of the ones before it: the    *)
(* host's disk, the server with its connections, and the phone.  What ties *)
(* them together is where bytes come from: a build that is found anywhere  *)
(* behind the packager has been published by it.                           *)
(***************************************************************************)
EXTENDS BundleSupply, TLAPS

\* Leaves are left to Zenon; the ones with arithmetic or many cases name SMT.
USE ZenonT(30)

\* What may be found in a part's place when S has been published.
Known(S) == S \cup {"none", "torn", "other", "resized"}

Dirs == {"empty", "staging", "bundle"}

HostTypeOK ==
    /\ root \in [dir : Dirs, files : Files]
    /\ unsynced \in SUBSET Parts
    /\ names \in SUBSET Dirs
    /\ pack \in [pc : Packing \cup {"idle"}, build : Builds \cup {"none"}, i : 0..N]
    /\ offered \in SUBSET Builds

\* A staging directory belongs to the packager at work, holds what it has
\* written, and is durable when it gets the bundle's name.
PackInv ==
    /\ pack.pc \in Packing => pack.build \in Builds
    /\ pack.pc \in {"file", "sync", "rename", "cleanup"} => root.dir = "staging"
    /\ pack.pc = "file" =>
          /\ pack.i \in Parts
          /\ \A j \in Parts : j < pack.i => root.files[PackOrder(j)] = pack.build
    /\ pack.pc \in {"sync", "rename"} => \A k \in Parts : root.files[k] = pack.build
    /\ pack.pc = "rename" => unsynced = {}

\* The name of a bundle stands for a directory with that name, durable and
\* with all the parts of one published build.
NameInv ==
    /\ root.dir = "bundle" <=> "bundle" \in names
    /\ "bundle" \in names =>
          /\ unsynced = {}
          /\ \E b \in offered : \A k \in Parts : root.files[k] \in {b, "other", "resized"}

HostInv == HostTypeOK /\ PackInv /\ NameInv

Items(S) == [kind : {"part", "header", "fin"}, content : Known(S)]
Streams(S) == Seq(Items(S))

Connections(S) ==
    [st : {"none", "queued", "left", "open", "closed", "gone"},
     asked : Builds \cup {"none"},
     wire : Streams(S), inbox : Streams(S),
     reset : {"no", "early", "late"}, acked : BOOLEAN]

Servers(S) ==
    [pc : Serving \cup {"idle", "refused", "pass"},
     want : Known(S), held : [Parts -> Known(S)],
     i : 0..N, peer : 0..MaxFetches, rejected : Nat]

\* The server and the connections carry published parts; a server that reads
\* the socket's state has found no error on it before.
LineInv ==
    /\ srv \in Servers(offered)
    /\ conn \in [Fetches -> Connections(offered)]
    /\ srv.pc \in Serving \ {"listen"} => srv.peer \in Fetches
    /\ srv.pc = "confirmInfo" => conn[srv.peer].reset # "early"

Workers == [pc : Working \cup {"none", "ok", "failed"}, i : 0..N + 1,
            want : Builds \cup {"none"}]

PhoneTypeOK ==
    /\ cur \in 0..MaxFetches
    /\ wanted \in Builds \cup {"none"}
    /\ fetch \in Fetching \cup {"idle", "ok", "failed", "killed"}
    /\ worker \in [Fetches -> Workers]
    /\ stage \in [owner : 0..MaxFetches, files : [Parts -> Known(offered)]]
    /\ final \in [Parts -> Known(offered)]

\* The staging directory that is being filled, validated and published is the
\* current fetch's, and from the validation on no worker can write into it.
StageInv ==
    /\ fetch \in Fetching => cur \in Fetches /\ wanted \in Builds
    /\ fetch \in {"connect", "fork", "wait", "validate", "normalize", "publish"} =>
          stage.owner = cur
    /\ fetch \in {"validate", "normalize", "publish"} => worker[cur].pc = "none"
    /\ \A f \in Fetches : worker[f].pc = "recv" => worker[f].i \in Parts
    /\ fetch = "publish" => Valid(stage.files, wanted)
    /\ stage.owner = 0 \/ fetch \in {"mkdir", "sync"} => stage = NoStage

PhoneInv == PhoneTypeOK /\ StageInv /\ FinalIsRequested /\ FailureLeavesClean

IInv == HostInv /\ LineInv /\ PhoneInv

-----------------------------------------------------------------------------
(* Who leaves what alone.                                                   *)

\* The packager works in the bundle root only; what it publishes stays so.
LEMMA PackagerFrame ==
    Packager => /\ UNCHANGED <<srv, conn, cur, wanted, fetch, stage, final, excuse, finalFor, worker>>
                /\ offered' = offered \/ PackRename
                /\ offered \subseteq offered'
  BY DEF Packager, PackStart, PackFile, PackSync, PackRename, PackSyncRoot, PackCleanup, server, phone

\* The server changes its own state and connections.
LEMMA ServerFrame ==
    Server => UNCHANGED <<host, offered, cur, wanted, fetch, stage, final, excuse, finalFor, worker>>
  BY DEF Server, ServerStart, Accept, RejectPeer, ReceiveRequest, Send, SendResized, HalfClose,
         ConfirmError, ConfirmInfo, Refuse, host, phone

\* The fetcher changes neither the host nor its own request.
LEMMA FetcherFrame == Fetcher => UNCHANGED <<host, offered, srv, cur, wanted>>
  BY DEF Fetcher, Fetch, UnlinkStale, RmdirStale, Unlink, Rmdir, MakeStage, Connect, Fork, AwaitWorker,
         ValidateStage, NormalizeStage, PublishStage, PublishSync, CleanupStage, CleanupEnd, host, server

\* A worker changes itself, its connection and the staging directory.
LEMMA WorkerFrame ==
    ASSUME NEW f \in Fetches, Worker(f)
    PROVE  UNCHANGED <<host, offered, srv, cur, wanted, fetch, final, excuse, finalFor>>
  BY DEF Worker, WorkerSetup, WorkerRequest, WorkerHeader, WorkerReceive, WorkerEnd, WorkerFails,
         Reads, host, server, phone

\* The network changes connections.
LEMMA DeliverFrame ==
    ASSUME NEW f \in Fetches, Deliver(f)
    PROVE  UNCHANGED <<host, offered, srv, cur, wanted, fetch, stage, final, excuse, finalFor, worker>>
  BY DEF Deliver, host, server, phone

\* A new fetch has the request and the step of the fetcher to itself.
LEMMA FetchStartFrame ==
    ASSUME NEW b \in Builds, FetchStart(b)
    PROVE  UNCHANGED <<host, offered, srv, conn, stage, final, finalFor, worker>>
  BY DEF FetchStart, host, server

\* What happens to the host does not reach the phone, and the other way round.
LEMMA FaultsFrame ==
    /\ KillPack \/ HostPowerLoss \/ ClearRoot \/ EditRoot =>
          UNCHANGED <<offered, cur, wanted, fetch, stage, final, excuse, finalFor, worker>>
    /\ KillPack \/ ClearRoot => UNCHANGED <<srv, conn>>
    /\ KillFetch \/ PhoneRestart => UNCHANGED <<host, offered, srv, cur, wanted>>
  BY DEF KillPack, HostPowerLoss, ClearRoot, EditRoot, KillFetch, PhoneRestart, host, server, phone

\* A step that changes nothing.
LEMMA StutterFrame ==
    UNCHANGED vars =>
        UNCHANGED <<host, offered, srv, conn, cur, wanted, fetch, stage, final, excuse, finalFor, worker>>
  BY DEF vars, host, server, phone

-----------------------------------------------------------------------------
(* The host's disk.                                                         *)

\* Every part has its turn in the packager's order.
LEMMA PackOrderFacts ==
    /\ \A i \in Parts : PackOrder(i) \in Parts
    /\ \A k \in Parts : \E i \in Parts : PackOrder(i) = k
    /\ \A i, j \in Parts : PackOrder(i) = PackOrder(j) => i = j
  <1>1. \A i \in Parts : PackOrder(i) \in Parts
    BY PartsAssumption, SMT DEF Parts, PackOrder
  <1>2. ASSUME NEW k \in Parts PROVE \E i \in Parts : PackOrder(i) = k
    <2>1. CASE k <= 2
      <3>1. k + (N - 2) \in Parts /\ PackOrder(k + (N - 2)) = k
        BY <2>1, PartsAssumption, SMT DEF Parts, PackOrder
      <3> QED BY <3>1
    <2>2. CASE k > 2
      <3>1. k - 2 \in Parts /\ PackOrder(k - 2) = k
        BY <2>2, PartsAssumption, SMT DEF Parts, PackOrder
      <3> QED BY <3>1
    <2> QED BY <2>1, <2>2, PartsAssumption, SMT DEF Parts
  <1>3. \A i, j \in Parts : PackOrder(i) = PackOrder(j) => i = j
    BY PartsAssumption, SMT DEF Parts, PackOrder
  <1> QED BY <1>1, <1>2, <1>3

\* A directory without parts is typed.
LEMMA NoFilesType == NoFiles \in Files
  BY DEF NoFiles, Files, Contents

\* An empty root satisfies the invariant of the disk.
LEMMA HostInit == Init => HostInv
  <1> SUFFICES ASSUME Init PROVE HostInv
    OBVIOUS
  <1>1. HostTypeOK
    BY NoFilesType, PartsAssumption, SMT DEF Init, HostTypeOK, NoPack, Dirs
  <1> QED BY <1>1 DEF Init, HostInv, PackInv, NameInv, NoPack, Packing

\* The packager preserves the invariant of the host's disk.
LEMMA HostPackager == HostInv /\ Packager => HostInv'
  <1> SUFFICES ASSUME HostInv, Packager PROVE HostInv'
    OBVIOUS
  <1> USE DEF HostInv, HostTypeOK, PackInv, NameInv, Packing, Dirs
  <1>1. ASSUME NEW b \in Sources, PackStart(b) PROVE HostInv'
    BY <1>1, SourcesAssumption, PartsAssumption, SMT DEF PackStart, NoPack, Parts
  <1>2. ASSUME PackFile PROVE HostInv'
    <2> DEFINE k == PackOrder(pack.i)
    <2>0. k \in Parts /\ pack.i \in Parts /\ pack.build \in Builds /\ root.dir = "staging"
      BY <1>2, PackOrderFacts DEF PackFile
    <2>1. CASE PackGoes("cleanup") /\ UNCHANGED <<root, unsynced>>
      BY <1>2, <2>1 DEF PackFile, PackGoes
    <2>2. CASE root' = [root EXCEPT !.files[k] = pack.build] /\ unsynced' = unsynced \cup {k}
               /\ pack.i < N /\ pack' = [pack EXCEPT !.i = @ + 1]
      <3>1. HostTypeOK'
        <4>1. root'.files \in Files
          BY <2>0, <2>2 DEF Files, Contents
        <4>2. pack.i + 1 \in 0..N
          BY <2>0, <2>2, PartsAssumption, SMT DEF Parts
        <4> QED BY <1>2, <2>0, <2>2, <4>1, <4>2 DEF PackFile
      <3>2. ASSUME NEW j \in Parts, j < pack'.i PROVE root'.files[PackOrder(j)] = pack'.build
        <4>1. j < pack.i \/ j = pack.i
          BY <2>0, <2>2, <3>2, PartsAssumption, SMT DEF Parts
        <4> QED BY <1>2, <2>0, <2>2, <4>1, PackOrderFacts DEF PackFile, Files
      <3>3. PackInv'
        BY <1>2, <2>0, <2>2, <3>2, PartsAssumption, SMT DEF PackFile, Parts
      <3> QED BY <1>2, <2>0, <2>2, <3>1, <3>3 DEF PackFile
    <2>3. CASE root' = [root EXCEPT !.files[k] = pack.build] /\ unsynced' = unsynced \cup {k}
               /\ ~(pack.i < N) /\ pack' = [pack EXCEPT !.pc = "sync"]
      <3>1. HostTypeOK'
        BY <1>2, <2>0, <2>3 DEF PackFile, Parts, Files, Contents
      <3>2. ASSUME NEW m \in Parts PROVE root'.files[m] = pack.build
        <4>1. PICK j \in Parts : PackOrder(j) = m
          BY PackOrderFacts
        <4>2. j < pack.i \/ j = pack.i
          BY <2>0, <2>3, PartsAssumption, SMT DEF Parts
        <4> QED BY <1>2, <2>0, <2>3, <4>1, <4>2, PackOrderFacts DEF PackFile, Files
      <3> QED BY <1>2, <2>0, <2>3, <3>1, <3>2 DEF PackFile
    <2> QED BY <1>2, <2>1, <2>2, <2>3 DEF PackFile
  <1>3. ASSUME PackSync PROVE HostInv'
    BY <1>3 DEF PackSync, PackGoes
  <1>4. ASSUME PackRename PROVE HostInv'
    <2>1. CASE /\ root' = [root EXCEPT !.dir = "bundle"] /\ names' = names \cup {"bundle"}
               /\ offered' = offered \cup {pack.build} /\ PackGoes("syncRoot")
      <3>1. \A k \in Parts : root'.files[k] = pack.build
        BY <1>4, <2>1 DEF PackRename
      <3>2. HostTypeOK' /\ PackInv'
        BY <1>4, <2>1 DEF PackRename, PackGoes
      <3>3. pack.build \in offered' /\ root'.dir = "bundle" /\ unsynced' = {}
        BY <1>4, <2>1 DEF PackRename
      <3> QED BY <2>1, <3>1, <3>2, <3>3, SMT
    <2>2. CASE UNCHANGED <<root, names, offered>> /\ PackGoes("cleanup")
      BY <1>4, <2>2 DEF PackRename, PackGoes
    <2> QED BY <1>4, <2>1, <2>2 DEF PackRename
  <1>5. ASSUME PackSyncRoot PROVE HostInv'
    BY <1>5, PartsAssumption, SMT DEF PackSyncRoot, NoPack
  <1>6. ASSUME PackCleanup PROVE HostInv'
    <2>1. root'.files = NoFiles /\ root'.dir \in {"empty", "staging"} /\ unsynced' = {}
          /\ root' = [dir |-> root'.dir, files |-> NoFiles]
      BY <1>6, SMT DEF PackCleanup, Abandoned
    <2> QED BY <1>6, <2>1, NoFilesType, PartsAssumption, SMT DEF PackCleanup, NoPack
  <1> QED BY <1>1, <1>2, <1>3, <1>4, <1>5, <1>6 DEF Packager

\* So does what happens to the host.
LEMMA HostFaults == HostInv /\ Faults => HostInv'
  <1> SUFFICES ASSUME HostInv, Faults PROVE HostInv'
    OBVIOUS
  <1> USE DEF HostInv, HostTypeOK, PackInv, NameInv, Packing, Dirs
  <1>1. ASSUME KillPack PROVE HostInv'
    BY <1>1, NoFilesType, PartsAssumption, SMT DEF KillPack, NoPack, Abandoned
  <1>2. ASSUME HostPowerLoss PROVE HostInv'
    <2>1. PICK dir \in names : \E files \in Remains(dir) : root' = [dir |-> dir, files |-> files]
      BY <1>2 DEF HostPowerLoss
    <2>2. PICK files \in Remains(dir) : root' = [dir |-> dir, files |-> files]
      BY <2>1
    <2>3. dir # "bundle" => files = NoFiles
      BY SMT DEF Remains
    <2>4. dir = "bundle" => root' = root
      <3>1. HAVE dir = "bundle"
      <3>2. unsynced = {} /\ root.dir = "bundle" /\ root.files = [k \in Parts |-> root.files[k]]
        BY <3>1 DEF Files
      <3>3. PICK lost \in SUBSET Parts, c \in {"none", "torn"} :
               files = [k \in Parts |-> IF k \in lost \cap unsynced THEN c ELSE root.files[k]]
        BY <3>1, SMT DEF Remains
      <3>4. files = root.files
        BY <3>2, <3>3
      <3> QED BY <2>2, <3>1, <3>2, <3>4
    <2>5. root' \in [dir : Dirs, files : Files] /\ root'.dir = dir
      BY <2>2, <2>3, <2>4, NoFilesType
    <2>6. names' = {dir} /\ unsynced' = {} /\ pack' = NoPack /\ offered' = offered
      BY <1>2, <2>5 DEF HostPowerLoss
    <2>7. HostTypeOK' /\ PackInv'
      BY <2>5, <2>6, PartsAssumption, SMT DEF NoPack
    <2> QED BY <2>4, <2>5, <2>6, <2>7
  <1>3. ASSUME ClearRoot PROVE HostInv'
    BY <1>3, NoFilesType DEF ClearRoot
  <1>4. ASSUME EditRoot PROVE HostInv'
    <2>1. PICK k \in Parts, c \in {"other", "resized"} : root' = [root EXCEPT !.files[k] = c]
      BY <1>4 DEF EditRoot
    <2>2. HostTypeOK'
      BY <1>4, <2>1 DEF EditRoot, Files, Contents
    <2>3. PackInv'
      BY <1>4, <2>1 DEF EditRoot
    <2>4. PICK b \in offered : \A m \in Parts : root.files[m] \in {b, "other", "resized"}
      BY <1>4 DEF EditRoot
    <2>5. \A m \in Parts : root'.files[m] \in {b, "other", "resized"}
      BY <2>1, <2>4 DEF Files
    <2> QED BY <1>4, <2>1, <2>2, <2>3, <2>5 DEF EditRoot
  <1>5. ASSUME KillFetch \/ PhoneRestart PROVE HostInv'
    BY <1>5 DEF KillFetch, PhoneRestart, host
  <1> QED BY <1>1, <1>2, <1>3, <1>4, <1>5 DEF Faults

\* Nobody else touches the host's disk.
LEMMA HostStep == HostInv /\ [Next]_vars => HostInv' /\ offered \subseteq offered'
  <1> SUFFICES ASSUME HostInv, [Next]_vars PROVE HostInv' /\ offered \subseteq offered'
    OBVIOUS
  <1>1. CASE UNCHANGED host
    BY <1>1 DEF host, HostInv, HostTypeOK, PackInv, NameInv
  <1>2. CASE Packager
    BY <1>2, HostPackager, PackagerFrame
  <1>3. CASE Faults
    BY <1>3, HostFaults, FaultsFrame DEF Faults
  <1> QED BY <1>1, <1>2, <1>3, ServerFrame, FetcherFrame, WorkerFrame, DeliverFrame,
             FetchStartFrame, StutterFrame DEF Next

-----------------------------------------------------------------------------
(* The server and the connections.                                          *)

\* A connection that is not there is typed.
LEMMA NoConnType == ASSUME NEW S PROVE NoConn \in Connections(S)
  BY SMT DEF NoConn, Connections, Streams

\* So is a server that holds nothing.
LEMMA NoServerType ==
    ASSUME NEW S, NEW result \in {"idle", "refused", "pass", "listen"}
    PROVE  NoServer(result) \in Servers(S)
  BY PartsAssumption, FetchesAssumption, SMT
  DEF NoServer, Servers, Serving, NoFiles, Known

\* More builds published leave every type intact.
LEMMA Monotone ==
    ASSUME NEW S, NEW T, S \subseteq T
    PROVE  /\ Known(S) \subseteq Known(T)
           /\ Connections(S) \subseteq Connections(T)
           /\ Servers(S) \subseteq Servers(T)
  <1>1. Known(S) \subseteq Known(T)
    BY DEF Known
  <1>2. Items(S) \subseteq Items(T)
    BY <1>1 DEF Items
  <1>3. Streams(S) \subseteq Streams(T)
    BY <1>2, SMT DEF Streams
  <1>4. Connections(S) \subseteq Connections(T)
    BY <1>3 DEF Connections
  <1>5. [Parts -> Known(S)] \subseteq [Parts -> Known(T)]
    BY <1>1
  <1>6. Servers(S) \subseteq Servers(T)
    BY <1>1, <1>5 DEF Servers
  <1> QED BY <1>1, <1>4, <1>6

\* A reset keeps the type, and is late when the server has looked for errors.
LEMMA ResetByType ==
    ASSUME NEW S, NEW c \in Connections(S), NEW f
    PROVE  /\ ResetBy(c, f) \in Connections(S)
           /\ srv.pc = "confirmInfo" /\ c.reset # "early" => ResetBy(c, f).reset # "early"
  <1>1. <<>> \in Streams(S)
    BY SMT DEF Streams
  <1> QED BY <1>1 DEF ResetBy, Connections, Serving

\* So does closing a socket, with or without unread data.
LEMMA ClosedType ==
    ASSUME NEW S, NEW c \in Connections(S), NEW f
    PROVE  /\ Closed(c, f) \in Connections(S)
           /\ srv.pc = "confirmInfo" /\ c.reset # "early" => Closed(c, f).reset # "early"
  <1> DEFINE left == [c EXCEPT !.inbox = <<>>, !.st = IF @ = "queued" THEN "left" ELSE "closed"]
  <1>1. left \in Connections(S) /\ left.reset = c.reset
    <2>1. <<>> \in Streams(S)
      BY SMT DEF Streams
    <2> QED BY <2>1 DEF Connections
  <1>2. ResetBy(left, f) \in Connections(S)
        /\ (srv.pc = "confirmInfo" /\ c.reset # "early" => ResetBy(left, f).reset # "early")
    BY <1>1, ResetByType
  <1>3. NoConn \in Connections(S) /\ NoConn.reset # "early"
    BY NoConnType DEF NoConn
  <1> HIDE DEF left
  <1>4. Closed(c, f) \in {NoConn, left, ResetBy(left, f)}
    BY DEF Closed, left
  <1> QED BY <1>1, <1>2, <1>3, <1>4

\* What the end of the server leaves.
LEMMA ServerClosesInv ==
    ASSUME LineInv, NEW result \in {"refused", "pass"}, NEW last \in Streams(offered),
           ServerCloses(result, last), UNCHANGED offered
    PROVE  LineInv'
  <1>1. srv' \in Servers(offered) /\ srv'.pc = result
    BY NoServerType DEF ServerCloses, NoServer
  <1>2. ASSUME NEW f \in Fetches PROVE conn'[f] \in Connections(offered)
    <2> DEFINE c == conn[f]
    <2>1. c \in Connections(offered)
      BY DEF LineInv
    <2>2. [c EXCEPT !.st = "gone"] \in Connections(offered)
      BY <2>1 DEF Connections
    <2>3. [c EXCEPT !.wire = @ \o last] \in Connections(offered)
      <3>1. c.wire \in Streams(offered)
        BY <2>1 DEF Connections
      <3>2. c.wire \o last \in Streams(offered)
        BY <3>1, SMT DEF Streams
      <3> QED BY <2>1, <3>2 DEF Connections
    <2>4. conn'[f] \in {NoConn, c, [c EXCEPT !.st = "gone"], [c EXCEPT !.wire = @ \o last]}
      BY DEF ServerCloses
    <2> QED BY <2>1, <2>2, <2>3, <2>4, NoConnType
  <1>3. conn' = [f \in Fetches |-> conn'[f]]
    BY SMT DEF ServerCloses
  <1> QED BY <1>1, <1>2, <1>3 DEF LineInv, Serving

\* An end that sends nothing but the end of the stream.
LEMMA ServerEndsInv ==
    ASSUME LineInv, NEW result \in {"refused", "pass"}, ServerEnds(result), UNCHANGED offered
    PROVE  LineInv'
  <1>1. <<Fin>> \in Streams(offered)
    BY SMT DEF Streams, Fin, Items, Known
  <1> QED BY <1>1, ServerClosesInv DEF ServerEnds

\* Only the step of the server changes: what it holds stays published.
LEMMA ServerGoesInv ==
    ASSUME LineInv, NEW step \in Serving, srv.peer \in Fetches,
           srv' = [srv EXCEPT !.pc = step], UNCHANGED <<conn, offered>>,
           step = "confirmInfo" => conn[srv.peer].reset # "early"
    PROVE  LineInv'
  <1>1. srv' \in Servers(offered) /\ srv'.pc = step /\ srv'.peer = srv.peer
    BY DEF LineInv, Servers
  <1> QED BY <1>1 DEF LineInv

\* One step of the server that extends what it has sent.
LEMMA ServerSendsInv ==
    ASSUME LineInv, srv.peer \in Fetches, NEW w \in Streams(offered),
           conn' = [conn EXCEPT ![srv.peer].wire = w],
           srv' \in Servers(offered), srv'.pc # "confirmInfo",
           srv'.pc \in Serving => srv'.peer = srv.peer, UNCHANGED offered
    PROVE  LineInv'
  <1>1. [conn[srv.peer] EXCEPT !.wire = w] \in Connections(offered)
    BY SMT DEF LineInv, Connections
  <1>2. conn' \in [Fetches -> Connections(offered)]
    BY <1>1 DEF LineInv
  <1> QED BY <1>2 DEF LineInv

\* The server preserves the invariant.
LEMMA LineServer == IInv /\ Server => LineInv'
  <1> SUFFICES ASSUME IInv, Server PROVE LineInv'
    OBVIOUS
  <1>0. LineInv /\ HostInv
    BY DEF IInv
  <1>1. ASSUME NEW b \in Builds, ServerStart(b) PROVE LineInv'
    <2>1. UNCHANGED <<conn, offered>>
      BY <1>1 DEF ServerStart, host
    <2>2. CASE srv' = NoServer("refused")
      BY <1>0, <2>1, <2>2, NoServerType DEF LineInv, NoServer, Serving
    <2>3. CASE /\ root.dir = "bundle" /\ Valid(root.files, b)
               /\ srv' = [NoServer("listen") EXCEPT !.want = b, !.held = root.files]
      <3>1. root.files \in [Parts -> Known(offered)]
        BY <1>0, <2>3 DEF HostInv, HostTypeOK, NameInv, Files, Known
      <3>2. b \in Known(offered)
        <4>1. 1 \in Parts /\ Bound(1, root.files[1], b)
          BY <2>3, PartsAssumption, SMT DEF Valid, Parts
        <4> QED BY <3>1, <4>1, SMT DEF Bound
      <3>3. srv' \in Servers(offered) /\ srv'.pc = "listen"
        BY <2>3, <3>1, <3>2, NoServerType DEF Servers, NoServer
      <3> QED BY <1>0, <2>1, <3>3 DEF LineInv
    <2> QED BY <1>1, <2>2, <2>3 DEF ServerStart
  <1>2. ASSUME NEW f \in Fetches, Accept(f) PROVE LineInv'
    <2>1. srv' \in Servers(offered) /\ srv'.pc = "request" /\ srv'.peer = f
      <3>1. f \in 0..MaxFetches
        BY FetchesAssumption, SMT DEF Fetches
      <3> QED BY <1>0, <1>2, <3>1 DEF LineInv, Accept, Servers, Serving
    <2>2. conn' \in [Fetches -> Connections(offered)]
      <3>1. [conn[f] EXCEPT !.st = IF @ = "queued" THEN "open" ELSE "closed"] \in Connections(offered)
        BY <1>0, SMT DEF LineInv, Connections
      <3> QED BY <1>0, <1>2, <3>1 DEF LineInv, Accept
    <2> QED BY <1>0, <1>2, <2>1, <2>2 DEF LineInv, Accept, host
  <1>3. ASSUME RejectPeer PROVE LineInv'
    <2>1. CASE ServerEnds("refused")
      BY <1>0, <1>3, <2>1, ServerEndsInv DEF RejectPeer, host
    <2>2. CASE srv' = [srv EXCEPT !.rejected = @ + 1] /\ UNCHANGED conn
      <3>1. srv' \in Servers(offered) /\ srv'.pc = "listen"
        BY <1>0, <1>3, <2>2, SMT DEF LineInv, Servers, RejectPeer
      <3> QED BY <1>0, <1>3, <2>2, <3>1 DEF LineInv, RejectPeer, host
    <2> QED BY <1>3, <2>1, <2>2 DEF RejectPeer
  <1>4. ASSUME ReceiveRequest PROVE LineInv'
    <2>0. srv.peer \in Fetches
      BY <1>0, <1>4 DEF LineInv, ReceiveRequest, Serving
    <2>1. CASE ServerEnds("refused")
      BY <1>0, <1>4, <2>1, ServerEndsInv DEF ReceiveRequest, host
    <2>2. CASE srv' = [srv EXCEPT !.pc = "send"]
               /\ conn' = [conn EXCEPT ![srv.peer].asked = "none"]
      <3>1. srv' \in Servers(offered) /\ srv'.pc = "send" /\ srv'.peer = srv.peer
        BY <1>0, <2>2 DEF LineInv, Servers, Serving
      <3>2. conn' \in [Fetches -> Connections(offered)]
        BY <1>0, <2>0, <2>2, SMT DEF LineInv, Connections
      <3> QED BY <1>4, <2>0, <3>1, <3>2 DEF LineInv, ReceiveRequest, host
    <2> QED BY <1>4, <2>1, <2>2 DEF ReceiveRequest
  <1>5. ASSUME Send PROVE LineInv'
    <2>0. srv.peer \in Fetches /\ conn[srv.peer].wire \in Streams(offered)
      BY <1>0, <1>5 DEF LineInv, Send, Serving, Connections
    <2>1. CASE ServerEnds("refused")
      BY <1>0, <1>5, <2>1, ServerEndsInv DEF Send, host
    <2> DEFINE item == IF srv.i = 0 THEN Header ELSE Part(srv.held[srv.i])
    <2>2. CASE /\ srv' = IF srv.i < N THEN [srv EXCEPT !.i = @ + 1] ELSE [srv EXCEPT !.pc = "shut"]
               /\ conn' = [conn EXCEPT ![srv.peer].wire = Append(@, item)]
      <3>1. srv' \in Servers(offered) /\ srv'.pc \in {"send", "shut"} /\ srv'.peer = srv.peer
        BY <1>0, <1>5, <2>2, PartsAssumption, SMT DEF LineInv, Send, Servers, Serving
      <3>2. item \in Items(offered)
        <4>1. srv.i # 0 => srv.held[srv.i] \in Known(offered)
          BY <1>0, PartsAssumption, SMT DEF LineInv, Servers, Parts
        <4> QED BY <4>1 DEF Items, Header, Part, Known
      <3>3. Append(conn[srv.peer].wire, item) \in Streams(offered)
        BY <2>0, <3>2, SMT DEF Streams
      <3>4. conn' = [conn EXCEPT ![srv.peer].wire = Append(conn[srv.peer].wire, item)]
        BY <2>2
      <3> QED BY <1>0, <1>5, <2>0, <3>1, <3>3, <3>4, ServerSendsInv DEF Send, host
    <2> QED BY <1>5, <2>1, <2>2 DEF Send
  <1>6. ASSUME SendResized PROVE LineInv'
    <2>1. PICK last \in {<<Fin>>, <<Part(srv.want), Fin>>, <<Part("other"), Fin>>} :
             ServerCloses("refused", last)
      BY <1>6 DEF SendResized
    <2>2. last \in Streams(offered)
      <3>1. Part(srv.want) \in Items(offered) /\ Part("other") \in Items(offered) /\ Fin \in Items(offered)
        BY <1>0 DEF LineInv, Servers, Part, Fin, Items, Known
      <3>2. <<Fin>> \in Streams(offered) /\ <<Part(srv.want), Fin>> \in Streams(offered)
            /\ <<Part("other"), Fin>> \in Streams(offered)
        BY <3>1, SMT DEF Streams
      <3> QED BY <3>2
    <2> QED BY <1>0, <1>6, <2>1, <2>2, ServerClosesInv DEF SendResized, host
  <1>7. ASSUME HalfClose PROVE LineInv'
    <2>0. srv.peer \in Fetches /\ conn[srv.peer].wire \in Streams(offered)
      BY <1>0, <1>7 DEF LineInv, HalfClose, Serving, Connections
    <2>1. CASE ServerEnds("refused")
      BY <1>0, <1>7, <2>1, ServerEndsInv DEF HalfClose, host
    <2>2. CASE srv' = [srv EXCEPT !.pc = "confirm"]
               /\ conn' = [conn EXCEPT ![srv.peer].wire = Append(@, Fin)]
      <3>1. srv' \in Servers(offered) /\ srv'.pc = "confirm" /\ srv'.peer = srv.peer
        BY <1>0, <2>2 DEF LineInv, Servers, Serving
      <3>2. Append(conn[srv.peer].wire, Fin) \in Streams(offered)
        BY <2>0, SMT DEF Streams, Fin, Items, Known
      <3>3. conn' = [conn EXCEPT ![srv.peer].wire = Append(conn[srv.peer].wire, Fin)]
        BY <2>2
      <3> QED BY <1>0, <1>7, <2>0, <3>1, <3>2, <3>3, ServerSendsInv DEF HalfClose, host
    <2> QED BY <1>7, <2>1, <2>2 DEF HalfClose
  <1>8. ASSUME ConfirmError \/ ConfirmInfo PROVE LineInv'
    <2>0. srv.peer \in Fetches /\ UNCHANGED offered
      BY <1>0, <1>8 DEF LineInv, ConfirmError, ConfirmInfo, Serving, host
    <2>1. CASE ServerEnds("refused") \/ ServerEnds("pass")
      BY <1>0, <2>0, <2>1, ServerEndsInv
    <2>2. CASE ServerGoes("confirm") \/ (ServerGoes("confirmInfo") /\ conn[srv.peer].reset = "no")
      BY <1>0, <2>0, <2>2, ServerGoesInv DEF ServerGoes, Serving
    <2> QED BY <1>8, <2>1, <2>2 DEF ConfirmError, ConfirmInfo
  <1>9. ASSUME Refuse PROVE LineInv'
    BY <1>0, <1>9, ServerEndsInv DEF Refuse, host
  <1> QED BY <1>1, <1>2, <1>3, <1>4, <1>5, <1>6, <1>7, <1>8, <1>9 DEF Server

\* The server's record stays: nothing is reset under a server that has looked
\* for errors, but late.
LEMMA LineKept ==
    ASSUME LineInv, offered \subseteq offered', UNCHANGED srv,
           conn' \in [Fetches -> Connections(offered)],
           srv.pc = "confirmInfo" => conn'[srv.peer].reset # "early"
    PROVE  LineInv'
  <1>1. srv' \in Servers(offered') /\ conn' \in [Fetches -> Connections(offered')]
    BY Monotone DEF LineInv
  <1> QED BY <1>1 DEF LineInv

\* The same when one connection changes.
LEMMA OneConnection ==
    ASSUME LineInv, offered \subseteq offered', UNCHANGED srv,
           NEW f, NEW c, conn' = [conn EXCEPT ![f] = c],
           f \in Fetches => /\ c \in Connections(offered)
                            /\ srv.pc = "confirmInfo" /\ conn[f].reset # "early" => c.reset # "early"
    PROVE  LineInv'
  <1>1. conn' \in [Fetches -> Connections(offered)]
    BY DEF LineInv
  <1>2. srv.pc = "confirmInfo" => conn'[srv.peer].reset # "early"
    BY DEF LineInv, Serving
  <1> QED BY <1>1, <1>2, LineKept

\* What arrives keeps its origin.
LEMMA LineDeliver ==
    ASSUME IInv, NEW f \in Fetches, Deliver(f)
    PROVE  LineInv'
  <1> DEFINE c == conn[f]
             a == srv.peer = f /\ c.wire[Len(c.wire)] = Fin
             b == srv.peer = f
  <1>0. LineInv /\ c \in Connections(offered) /\ UNCHANGED <<srv, offered>>
    BY DEF IInv, LineInv, Deliver, host, server
  <1>1. a \in BOOLEAN /\ b \in BOOLEAN
    OBVIOUS
  <1>2. <<>> \in Streams(offered) /\ c.inbox \o c.wire \in Streams(offered)
    BY <1>0, SMT DEF Connections, Streams
  <1> DEFINE d == [c EXCEPT !.wire = <<>>, !.inbox = @ \o c.wire, !.acked = a]
             e == [c EXCEPT !.wire = <<>>, !.acked = b]
  <1>3. \/ conn' = [conn EXCEPT ![f] = d]
        \/ conn' = [conn EXCEPT ![f] = e]
        \/ conn' = [conn EXCEPT ![f] = ResetBy(c, f)]
    BY DEF Deliver
  <1> HIDE DEF a, b
  <1>4. d \in Connections(offered) /\ d.reset = c.reset
    BY <1>0, <1>1, <1>2 DEF Connections
  <1>5. e \in Connections(offered) /\ e.reset = c.reset
    BY <1>0, <1>1, <1>2 DEF Connections
  <1> HIDE DEF d, e
  <1>6. CASE conn' = [conn EXCEPT ![f] = d]
    BY <1>0, <1>4, <1>6, OneConnection
  <1>7. CASE conn' = [conn EXCEPT ![f] = e]
    BY <1>0, <1>5, <1>7, OneConnection
  <1>8. CASE conn' = [conn EXCEPT ![f] = ResetBy(c, f)]
    BY <1>0, <1>8, ResetByType, OneConnection
  <1> QED BY <1>3, <1>6, <1>7, <1>8

\* A socket of the phone is closed.
LEMMA LineClosed ==
    ASSUME LineInv, UNCHANGED <<srv, offered>>, NEW f,
           conn' = [conn EXCEPT ![f] = Closed(conn[f], f)]
    PROVE  LineInv'
  <1> DEFINE c == Closed(conn[f], f)
  <1>1. f \in Fetches => /\ c \in Connections(offered)
                         /\ srv.pc = "confirmInfo" /\ conn[f].reset # "early" => c.reset # "early"
    BY ClosedType DEF LineInv
  <1> HIDE DEF c
  <1> QED BY <1>1, OneConnection DEF c

\* The fetcher opens and closes its own connection.
LEMMA LineFetcher == IInv /\ Fetcher => LineInv'
  <1> SUFFICES ASSUME IInv, Fetcher PROVE LineInv'
    OBVIOUS
  <1>0. LineInv /\ UNCHANGED <<srv, offered>>
    BY FetcherFrame DEF IInv
  <1>1. CASE UNCHANGED conn
    BY <1>0, <1>1, LineKept DEF LineInv
  <1>2. CASE conn' = [conn EXCEPT ![cur] = Closed(conn[cur], cur)]
    BY <1>0, <1>2, LineClosed
  <1>3. CASE conn' = [conn EXCEPT ![cur].st = "queued"]
    <2> DEFINE c == [conn[cur] EXCEPT !.st = "queued"]
    <2>1. cur \in Fetches => c \in Connections(offered) /\ c.reset = conn[cur].reset
      BY <1>0, SMT DEF LineInv, Connections
    <2>2. conn' = [conn EXCEPT ![cur] = c]
      BY <1>3
    <2> HIDE DEF c
    <2> QED BY <1>0, <2>1, <2>2, OneConnection
  <1> QED BY <1>1, <1>2, <1>3
      DEF Fetcher, UnlinkStale, RmdirStale, Unlink, Rmdir, MakeStage, Connect, Fork,
          AwaitWorker, ValidateStage, NormalizeStage, PublishStage, PublishSync,
          CleanupStage, CleanupEnd

\* A worker that reads leaves the rest of the stream.
LEMMA LineReads ==
    ASSUME IInv, NEW f \in Fetches, NEW step, NEW kind, NEW pc, NEW i,
           Reads(f, step, kind, pc, i)
    PROVE  LineInv'
  <1> DEFINE c == [conn[f] EXCEPT !.inbox = Tail(@)]
  <1>0. LineInv /\ UNCHANGED <<srv, offered>> /\ conn[f] \in Connections(offered)
    BY DEF IInv, LineInv, Reads, host, server
  <1>1. c \in Connections(offered) /\ c.reset = conn[f].reset
    <2>1. Tail(conn[f].inbox) \in Streams(offered)
      BY <1>0, SMT DEF Reads, Connections, Streams
    <2> QED BY <1>0, <2>1 DEF Connections
  <1>2. conn' = [conn EXCEPT ![f] = c] \/ conn' = [conn EXCEPT ![f] = Closed(c, f)]
    BY DEF Reads
  <1> HIDE DEF c
  <1>3. CASE conn' = [conn EXCEPT ![f] = c]
    BY <1>0, <1>1, <1>3, OneConnection
  <1>4. CASE conn' = [conn EXCEPT ![f] = Closed(c, f)]
    BY <1>0, <1>1, <1>4, ClosedType, OneConnection
  <1> QED BY <1>2, <1>3, <1>4

\* The worker asks for its build and reads.
LEMMA LineWorker ==
    ASSUME IInv, NEW f \in Fetches, Worker(f)
    PROVE  LineInv'
  <1>0. LineInv
    BY DEF IInv
  <1>1. ASSUME WorkerSetup(f) PROVE LineInv'
    BY <1>0, <1>1, LineKept DEF WorkerSetup, LineInv, host, server
  <1>2. ASSUME WorkerRequest(f) PROVE LineInv'
    <2> DEFINE c == [conn[f] EXCEPT !.asked = worker[f].want]
    <2>1. worker[f].want \in Builds \cup {"none"}
      BY DEF IInv, PhoneInv, PhoneTypeOK, Workers
    <2>2. c \in Connections(offered) /\ c.reset = conn[f].reset
      BY <1>0, <2>1, SMT DEF LineInv, Connections
    <2>3. conn' = [conn EXCEPT ![f] = c] /\ UNCHANGED <<srv, offered>>
      BY <1>2 DEF WorkerRequest, host, server
    <2> HIDE DEF c
    <2> QED BY <1>0, <2>2, <2>3, OneConnection
  <1>3. ASSUME WorkerHeader(f) \/ WorkerReceive(f) \/ WorkerEnd(f) PROVE LineInv'
    BY <1>3, LineReads DEF WorkerHeader, WorkerReceive, WorkerEnd
  <1>4. ASSUME WorkerFails(f) PROVE LineInv'
    <2>1. UNCHANGED <<srv, offered>>
      BY <1>4 DEF WorkerFails, host, server
    <2>2. \/ conn' = [conn EXCEPT ![f] = conn[f]]
          \/ conn' = [conn EXCEPT ![f] = Closed(conn[f], f)]
      BY <1>4 DEF WorkerFails
    <2>3. CASE conn' = [conn EXCEPT ![f] = conn[f]]
      BY <1>0, <2>1, <2>3, OneConnection DEF LineInv
    <2> QED BY <1>0, <2>1, <2>2, <2>3, LineClosed
  <1> QED BY <1>1, <1>2, <1>3, <1>4 DEF Worker

\* Nothing that happens brings unpublished content or an early reset.
LEMMA LineFaults == IInv /\ Faults => LineInv'
  <1> SUFFICES ASSUME IInv, Faults PROVE LineInv'
    OBVIOUS
  <1>0. LineInv
    BY DEF IInv
  <1>1. ASSUME KillPack \/ ClearRoot PROVE LineInv'
    BY <1>0, <1>1, LineKept DEF KillPack, ClearRoot, LineInv, server
  <1>2. ASSUME HostPowerLoss PROVE LineInv'
    <2>1. srv' \in Servers(offered) /\ srv'.pc \notin Serving /\ UNCHANGED offered
      <3>1. CASE srv.pc \in Serving
        BY <1>2, <3>1, NoServerType DEF HostPowerLoss, NoServer, Serving
      <3>2. CASE srv.pc \notin Serving
        BY <1>0, <1>2, <3>2 DEF HostPowerLoss, LineInv
      <3> QED BY <3>1, <3>2
    <2>2. ASSUME NEW f \in Fetches PROVE conn'[f] \in Connections(offered)
      <3>1. [conn[f] EXCEPT !.wire = <<>>, !.st = "gone"] \in Connections(offered)
        <4>1. <<>> \in Streams(offered)
          BY SMT DEF Streams
        <4> QED BY <1>0, <4>1 DEF LineInv, Connections
      <3>2. conn'[f] \in {NoConn, [conn[f] EXCEPT !.wire = <<>>, !.st = "gone"]}
        BY <1>2 DEF HostPowerLoss
      <3> QED BY <3>1, <3>2, NoConnType
    <2>3. conn' = [f \in Fetches |-> conn'[f]]
      BY <1>2 DEF HostPowerLoss
    <2> QED BY <2>1, <2>2, <2>3 DEF LineInv, Serving
  <1>3. ASSUME EditRoot PROVE LineInv'
    <2>1. PICK k \in Parts, c \in {"other", "resized"} :
             srv' = IF srv.pc \in Serving THEN [srv EXCEPT !.held[k] = c] ELSE srv
      BY <1>3 DEF EditRoot
    <2>2. [srv.held EXCEPT ![k] = c] \in [Parts -> Known(offered)]
      BY <1>0, <2>1 DEF LineInv, Servers, Known
    <2>3. srv' \in Servers(offered) /\ srv'.pc = srv.pc /\ srv'.peer = srv.peer
      BY <1>0, <2>1, <2>2 DEF LineInv, Servers
    <2> QED BY <1>0, <1>3, <2>3 DEF EditRoot, LineInv
  <1>4. ASSUME KillFetch PROVE LineInv'
    <2>1. UNCHANGED <<srv, offered>>
      BY <1>4 DEF KillFetch, host, server
    <2>2. CASE UNCHANGED conn
      BY <1>0, <2>1, <2>2, LineKept DEF LineInv
    <2>3. CASE conn' = [conn EXCEPT ![cur] = Closed(conn[cur], cur)]
      BY <1>0, <2>1, <2>3, LineClosed
    <2> QED BY <1>4, <2>2, <2>3 DEF KillFetch
  <1>5. ASSUME PhoneRestart PROVE LineInv'
    <2>1. UNCHANGED <<srv, offered>>
      BY <1>5 DEF PhoneRestart, host, server
    <2>2. ASSUME NEW f \in Fetches
          PROVE  /\ conn'[f] \in Connections(offered)
                 /\ conn[f].reset # "early" => conn'[f].reset # "early"
      <3> DEFINE c == [conn[f] EXCEPT !.inbox = <<>>, !.st = "gone"]
      <3>1. c \in Connections(offered) /\ c.reset = conn[f].reset
        <4>1. <<>> \in Streams(offered)
          BY SMT DEF Streams
        <4> QED BY <1>0, <4>1 DEF LineInv, Connections
      <3>2. conn'[f] \in {NoConn, c} /\ NoConn.reset = "no"
        BY <1>5 DEF PhoneRestart, NoConn
      <3> QED BY <3>1, <3>2, NoConnType
    <2>3. conn' = [f \in Fetches |-> conn'[f]]
      BY <1>5 DEF PhoneRestart
    <2>4. conn' \in [Fetches -> Connections(offered)]
      BY <2>2, <2>3
    <2>5. srv.pc = "confirmInfo" => conn'[srv.peer].reset # "early"
      BY <1>0, <2>2 DEF LineInv, Serving
    <2> QED BY <1>0, <2>1, <2>4, <2>5, LineKept
  <1> QED BY <1>1, <1>2, <1>3, <1>4, <1>5 DEF Faults

\* Every step preserves the invariant of the server and the connections.
LEMMA LineStep == IInv /\ [Next]_vars => LineInv'
  <1> SUFFICES ASSUME IInv, [Next]_vars PROVE LineInv'
    OBVIOUS
  <1>0. LineInv /\ offered \subseteq offered'
    BY HostStep DEF IInv
  <1>1. CASE UNCHANGED <<srv, conn>>
    BY <1>0, <1>1, LineKept DEF LineInv
  <1> QED BY <1>1, PackagerFrame, FetchStartFrame, StutterFrame,
             LineServer, LineFetcher, LineFaults, LineWorker, LineDeliver DEF Next

-----------------------------------------------------------------------------
(* The phone.                                                               *)

\* An empty directory is typed whatever was published, and has no owner.
LEMMA NoStageFacts ==
    /\ \A S : NoFiles \in [Parts -> Known(S)]
    /\ NoStage.owner = 0 /\ NoStage.files = NoFiles
    /\ \A S : NoStage \in [owner : 0..MaxFetches, files : [Parts -> Known(S)]]
    /\ 0 \notin Fetches
    /\ Fetches \subseteq 0..MaxFetches
  <1>1. \A S : NoFiles \in [Parts -> Known(S)]
    BY DEF NoFiles, Known
  <1>2. 0 \in 0..MaxFetches /\ 0 \notin Fetches /\ Fetches \subseteq 0..MaxFetches
    BY FetchesAssumption, SMT DEF Fetches
  <1> QED BY <1>1, <1>2 DEF NoStage

\* A step of somebody else.
LEMMA PhoneKept ==
    ASSUME PhoneInv, offered \subseteq offered',
           UNCHANGED <<cur, wanted, fetch, stage, final, excuse, finalFor, worker>>
    PROVE  PhoneInv'
  <1>1. PhoneTypeOK'
    <2>1. Known(offered) \subseteq Known(offered')
      BY Monotone
    <2>2. [Parts -> Known(offered)] \subseteq [Parts -> Known(offered')]
      BY <2>1
    <2> QED BY <2>2 DEF PhoneInv, PhoneTypeOK
  <1>2. StageInv' /\ FinalIsRequested' /\ FailureLeavesClean'
    BY DEF PhoneInv, StageInv, FinalIsRequested, FailureLeavesClean, Valid
  <1> QED BY <1>1, <1>2 DEF PhoneInv

\* A step of a worker writes at most into its own fetch's directory.
LEMMA WorkerWrites ==
    ASSUME PhoneInv, NEW f \in Fetches, worker[f].pc # "none",
           UNCHANGED <<cur, wanted, fetch, final, excuse, finalFor, offered>>,
           NEW w \in Workers, w.pc = "recv" => w.i \in Parts,
           worker' = [worker EXCEPT ![f] = w],
           NEW g \in [Parts -> Known(offered)],
           \/ stage' = stage
           \/ stage.owner = f /\ stage' = [stage EXCEPT !.files = g]
    PROVE  PhoneInv'
  <1>1. PhoneTypeOK /\ StageInv
    BY DEF PhoneInv
  <1>2. stage' \in [owner : 0..MaxFetches, files : [Parts -> Known(offered)]]
        /\ stage'.owner = stage.owner
    BY <1>1 DEF PhoneTypeOK
  <1>3. worker' \in [Fetches -> Workers] /\ \A h \in Fetches : h # f => worker'[h] = worker[h]
    BY <1>1 DEF PhoneTypeOK
  <1>4. PhoneTypeOK'
    BY <1>1, <1>2, <1>3 DEF PhoneTypeOK
  <1>5. fetch \in {"validate", "normalize", "publish"} => cur # f /\ stage' = stage
    BY <1>1 DEF StageInv
  <1>6. stage = NoStage => stage' = stage
    BY NoStageFacts
  <1>7. \A h \in Fetches : worker'[h].pc = "recv" => worker'[h].i \in Parts
    BY <1>1, <1>3 DEF StageInv, PhoneTypeOK
  <1>8. fetch \in {"validate", "normalize", "publish"} => worker'[cur].pc = "none"
    BY <1>1, <1>3, <1>5 DEF StageInv, Fetching
  <1>9. StageInv'
    BY <1>1, <1>2, <1>5, <1>6, <1>7, <1>8 DEF StageInv, Valid
  <1>10. FinalIsRequested' /\ FailureLeavesClean'
    BY <1>6 DEF PhoneInv, FinalIsRequested, FailureLeavesClean
  <1> QED BY <1>4, <1>9, <1>10 DEF PhoneInv

\* What the end of a worker may leave of its directory.
LEMMA StoppedFacts ==
    ASSUME PhoneInv, NEW f \in Fetches, NEW left \in Stopped(f)
    PROVE  \/ left = stage
           \/ /\ stage.owner = f
              /\ \E g \in [Parts -> Known(offered)] : left = [stage EXCEPT !.files = g]
  <1>1. CASE worker[f].pc = "recv" /\ stage.owner = f
    <2>1. PICK c \in {"none", "torn"} : left = [stage EXCEPT !.files[worker[f].i] = c]
      BY <1>1 DEF Stopped
    <2> DEFINE g == [stage.files EXCEPT ![worker[f].i] = c]
    <2>2. g \in [Parts -> Known(offered)]
      BY <2>1 DEF PhoneInv, PhoneTypeOK, Known
    <2>3. left = [stage EXCEPT !.files = g]
      BY <2>1
    <2> HIDE DEF g
    <2> QED BY <1>1, <2>2, <2>3
  <1>2. CASE ~(worker[f].pc = "recv" /\ stage.owner = f)
    BY <1>2 DEF Stopped
  <1> QED BY <1>1, <1>2

\* The worker preserves the invariant of the phone.
LEMMA PhoneWorker ==
    ASSUME IInv, NEW f \in Fetches, Worker(f)
    PROVE  PhoneInv'
  <1>0. /\ PhoneInv /\ worker[f] \in Workers /\ worker \in [Fetches -> Workers]
        /\ stage.files \in [Parts -> Known(offered)]
    BY DEF IInv, PhoneInv, PhoneTypeOK
  <1>1. ASSUME WorkerSetup(f) \/ WorkerRequest(f) PROVE PhoneInv'
    <2>1. PICK pc \in {"request", "header"} : worker' = [worker EXCEPT ![f].pc = pc]
      BY <1>1 DEF WorkerSetup, WorkerRequest, WorkerGoes
    <2> DEFINE w == [worker[f] EXCEPT !.pc = pc]
    <2>2. w \in Workers /\ w.pc # "recv" /\ worker' = [worker EXCEPT ![f] = w]
      BY <1>0, <2>1 DEF Workers, Working
    <2>3. worker[f].pc # "none" /\ UNCHANGED <<cur, wanted, fetch, stage, final, excuse, finalFor, offered>>
      BY <1>1 DEF WorkerSetup, WorkerRequest, phone, host
    <2> HIDE DEF w
    <2> QED BY <1>0, <2>2, <2>3, WorkerWrites
  <1>2. ASSUME WorkerHeader(f) \/ WorkerEnd(f) PROVE PhoneInv'
    <2>1. PICK pc \in {"recv", "ok"}, i \in {0, 1} :
             worker' = [worker EXCEPT ![f].pc = pc, ![f].i = i] /\ (pc = "recv" => i = 1)
      BY <1>2 DEF WorkerHeader, WorkerEnd, Reads
    <2> DEFINE w == [worker[f] EXCEPT !.pc = pc, !.i = i]
    <2>2. w \in Workers /\ w.pc = pc /\ w.i = i /\ worker' = [worker EXCEPT ![f] = w]
      <3>1. i \in 0..N + 1
        BY <2>1, PartsAssumption, SMT
      <3> QED BY <1>0, <2>1, <3>1 DEF Workers, Working
    <2>3. 1 \in Parts
      BY PartsAssumption, SMT DEF Parts
    <2>4. worker[f].pc # "none" /\ UNCHANGED <<cur, wanted, fetch, stage, final, excuse, finalFor, offered>>
      BY <1>2 DEF WorkerHeader, WorkerEnd, Reads, host
    <2> HIDE DEF w
    <2> QED BY <1>0, <2>1, <2>2, <2>3, <2>4, WorkerWrites
  <1>3. ASSUME WorkerReceive(f) PROVE PhoneInv'
    <2> DEFINE i == worker[f].i
               c == Head(conn[f].inbox).content
    <2>1. PICK pc \in {"failed", "recv", "eof"} :
             /\ worker' = [worker EXCEPT ![f].pc = pc, ![f].i = i + 1]
             /\ pc = "recv" => i < N
      BY <1>3 DEF WorkerReceive, Reads
    <2> DEFINE w == [worker[f] EXCEPT !.pc = pc, !.i = i + 1]
               g == [stage.files EXCEPT ![i] = c]
    <2>2. worker[f].pc = "recv" /\ i \in Parts
      BY <1>0, <1>3 DEF WorkerReceive, Reads, PhoneInv, StageInv
    <2>3. i + 1 \in 0..N + 1 /\ (pc = "recv" => i + 1 \in Parts)
      BY <2>1, <2>2, PartsAssumption, SMT DEF Parts
    <2>4. w \in Workers /\ w.pc = pc /\ w.i = i + 1 /\ worker' = [worker EXCEPT ![f] = w]
      BY <1>0, <2>1, <2>3 DEF Workers, Working
    <2>5. c \in Known(offered)
      <3>1. conn[f].inbox \in Seq(Items(offered)) /\ conn[f].inbox # <<>>
        BY <1>3 DEF WorkerReceive, Reads, IInv, LineInv, Connections, Streams
      <3>2. Head(conn[f].inbox) \in Items(offered)
        BY <3>1, SMT
      <3> QED BY <3>2 DEF Items
    <2>6. g \in [Parts -> Known(offered)]
      BY <1>0, <2>5
    <2>7. /\ stage.owner = f /\ stage' = [stage EXCEPT !.files = g]
          /\ UNCHANGED <<cur, wanted, fetch, final, excuse, finalFor, offered>>
      BY <1>3 DEF WorkerReceive, Reads, host
    <2> HIDE DEF w, g, i, c
    <2> QED BY <1>0, <2>2, <2>3, <2>4, <2>6, <2>7, WorkerWrites
  <1>4. ASSUME WorkerFails(f) PROVE PhoneInv'
    <2> DEFINE w == [worker[f] EXCEPT !.pc = "failed"]
    <2>1. w \in Workers /\ w.pc = "failed" /\ worker' = [worker EXCEPT ![f] = w]
      BY <1>0, <1>4 DEF Workers, WorkerFails, WorkerGoes
    <2>2. worker[f].pc # "none" /\ UNCHANGED <<cur, wanted, fetch, final, excuse, finalFor, offered>>
      BY <1>4 DEF WorkerFails, Working, host
    <2>3. \/ stage' = stage
          \/ stage.owner = f /\ \E g \in [Parts -> Known(offered)] : stage' = [stage EXCEPT !.files = g]
      BY <1>0, <1>4, StoppedFacts DEF WorkerFails
    <2> HIDE DEF w
    <2>4. CASE stage' = stage
      BY <1>0, <2>1, <2>2, <2>4, WorkerWrites
    <2>5. ASSUME stage.owner = f, NEW g \in [Parts -> Known(offered)], stage' = [stage EXCEPT !.files = g]
          PROVE  PhoneInv'
      BY <1>0, <2>1, <2>2, <2>5, WorkerWrites
    <2> QED BY <2>3, <2>4, <2>5
  <1> QED BY <1>1, <1>2, <1>3, <1>4 DEF Worker

\* A step of the fetcher that leaves the published bundle alone.
LEMMA FetcherGoes ==
    ASSUME PhoneInv, UNCHANGED <<cur, wanted, final, finalFor, offered>>, fetch \in Fetching,
           NEW step \in (Fetching \ {"publish", "sync"}) \cup {"failed"}, fetch' = step,
           worker' \in [Fetches -> Workers],
           \A f \in Fetches : worker'[f].pc = "recv" => worker'[f].i \in Parts,
           stage' \in [owner : 0..MaxFetches, files : [Parts -> Known(offered)]],
           stage'.owner = 0 \/ step = "mkdir" => stage' = NoStage,
           step \in {"connect", "fork", "wait", "validate", "normalize"} => stage'.owner = cur,
           step \in {"validate", "normalize"} => worker'[cur].pc = "none",
           step = "failed" => excuse' # {} \/ stage' = NoStage
    PROVE  PhoneInv'
  <1>1. PhoneTypeOK'
    BY DEF PhoneInv, PhoneTypeOK
  <1>2. StageInv'
    BY DEF PhoneInv, StageInv, Fetching
  <1>3. FinalIsRequested' /\ FailureLeavesClean'
    BY DEF PhoneInv, FinalIsRequested, FailureLeavesClean, Fetching
  <1> QED BY <1>1, <1>2, <1>3 DEF PhoneInv

\* Removing a staging directory.
LEMMA PhoneUnlink ==
    ASSUME PhoneInv, NEW step \in Fetching, NEW next \in {"rmdir", "cleanupEnd"}, Unlink(step, next)
    PROVE  PhoneInv'
  <1>0. PhoneTypeOK /\ StageInv
    BY DEF PhoneInv
  <1>1. UNCHANGED <<cur, wanted, final, finalFor, offered, worker>> /\ fetch = step
    BY DEF Unlink, Fetch, host
  <1>2. \E g \in [Parts -> Known(offered)] :
           /\ stage' = [stage EXCEPT !.files = g]
           /\ stage.files = NoFiles => g = NoFiles
    <2>1. CASE stage' = [stage EXCEPT !.files = NoFiles]
      BY <2>1, NoStageFacts
    <2>2. ASSUME NEW kept \in SUBSET Parts,
                 stage' = [stage EXCEPT !.files =
                    [k \in Parts |-> IF k \in kept THEN stage.files[k] ELSE "none"]]
          PROVE  \E g \in [Parts -> Known(offered)] :
                    /\ stage' = [stage EXCEPT !.files = g]
                    /\ stage.files = NoFiles => g = NoFiles
      <3> DEFINE g == [k \in Parts |-> IF k \in kept THEN stage.files[k] ELSE "none"]
      <3>1. g \in [Parts -> Known(offered)]
        BY <1>0 DEF PhoneTypeOK, Known
      <3>2. stage.files = NoFiles => g = NoFiles
        BY DEF NoFiles
      <3>3. stage' = [stage EXCEPT !.files = g]
        BY <2>2
      <3> HIDE DEF g
      <3> QED BY <3>1, <3>2, <3>3
    <2> QED BY <2>1, <2>2 DEF Unlink
  <1>3. /\ stage' \in [owner : 0..MaxFetches, files : [Parts -> Known(offered)]]
        /\ stage'.owner = 0 => stage' = NoStage
    <2>1. PICK g \in [Parts -> Known(offered)] : /\ stage' = [stage EXCEPT !.files = g]
                                                 /\ stage.files = NoFiles => g = NoFiles
      BY <1>2
    <2>2. stage' \in [owner : 0..MaxFetches, files : [Parts -> Known(offered)]]
          /\ stage'.owner = stage.owner
      BY <1>0, <2>1 DEF PhoneTypeOK
    <2>3. stage.owner = 0 => stage = NoStage
      BY <1>0 DEF StageInv
    <2>4. stage = NoStage => stage' = NoStage
      BY <2>1, NoStageFacts DEF NoStage
    <2> QED BY <2>2, <2>3, <2>4
  <1>4. \/ fetch' = next
        \/ fetch' = "failed" /\ excuse' # {}
    BY DEF Unlink, FetchGoes
  <1>5. worker' \in [Fetches -> Workers]
        /\ \A f \in Fetches : worker'[f].pc = "recv" => worker'[f].i \in Parts
    BY <1>0, <1>1 DEF PhoneTypeOK, StageInv
  <1> QED BY <1>1, <1>3, <1>4, <1>5, FetcherGoes DEF Fetching

\* Removing it, or failing to.
LEMMA PhoneRmdir ==
    ASSUME PhoneInv, NEW step \in Fetching, NEW next \in {"mkdir", "failed"}, Rmdir(step, next)
    PROVE  PhoneInv'
  <1>0. PhoneTypeOK /\ StageInv
    BY DEF PhoneInv
  <1>1. UNCHANGED <<cur, wanted, final, finalFor, offered, worker>> /\ fetch = step
    BY DEF Rmdir, Fetch, host
  <1>2. \/ stage' = NoStage /\ fetch' = next
        \/ stage' = stage /\ fetch' = "failed" /\ excuse' # {}
    BY DEF Rmdir, FetchGoes
  <1>3. /\ stage' \in [owner : 0..MaxFetches, files : [Parts -> Known(offered)]]
        /\ stage'.owner = 0 => stage' = NoStage
    BY <1>0, <1>2, NoStageFacts DEF PhoneTypeOK, StageInv
  <1>4. worker' \in [Fetches -> Workers]
        /\ \A f \in Fetches : worker'[f].pc = "recv" => worker'[f].i \in Parts
    BY <1>0, <1>1 DEF PhoneTypeOK, StageInv
  <1> QED BY <1>1, <1>2, <1>3, <1>4, FetcherGoes DEF Fetching

\* The fetcher preserves the invariant.
LEMMA PhoneFetcher == IInv /\ Fetcher => PhoneInv'
  <1> SUFFICES ASSUME IInv, Fetcher PROVE PhoneInv'
    OBVIOUS
  <1>0. /\ PhoneInv /\ PhoneTypeOK /\ StageInv
        /\ stage.owner = 0 => stage = NoStage
        /\ worker \in [Fetches -> Workers]
        /\ \A f \in Fetches : worker[f].pc = "recv" => worker[f].i \in Parts
        /\ stage \in [owner : 0..MaxFetches, files : [Parts -> Known(offered)]]
    BY DEF IInv, PhoneInv, PhoneTypeOK, StageInv
  <1>1. ASSUME UnlinkStale \/ CleanupStage PROVE PhoneInv'
    BY <1>0, <1>1, PhoneUnlink DEF UnlinkStale, CleanupStage, Fetching
  <1>2. ASSUME RmdirStale \/ CleanupEnd PROVE PhoneInv'
    BY <1>0, <1>2, PhoneRmdir DEF RmdirStale, CleanupEnd, Fetching
  <1>3. ASSUME MakeStage PROVE PhoneInv'
    <2>0. /\ UNCHANGED <<cur, wanted, final, finalFor, offered, worker>>
          /\ fetch = "mkdir" /\ stage = NoStage /\ cur \in Fetches
      BY <1>0, <1>3 DEF MakeStage, Fetch, StageInv, Fetching, host
    <2>1. CASE fetch' = "failed" /\ stage' = stage
      BY <1>0, <2>0, <2>1, FetcherGoes, SMT DEF Fetching
    <2>2. CASE fetch' \in {"connect", "cleanup"} /\ stage' = [owner |-> cur, files |-> NoFiles]
      <3>1. stage' \in [owner : 0..MaxFetches, files : [Parts -> Known(offered)]]
            /\ stage'.owner = cur /\ cur # 0
        BY <2>0, <2>2, NoStageFacts
      <3> QED BY <1>0, <2>0, <2>2, <3>1, FetcherGoes DEF Fetching
    <2> QED BY <1>3, <2>1, <2>2 DEF MakeStage, FetchGoes
  <1>4. ASSUME Connect PROVE PhoneInv'
    <2>1. /\ UNCHANGED <<cur, wanted, final, finalFor, offered, worker, stage>>
          /\ fetch = "connect" /\ fetch' \in {"fork", "cleanup"} /\ stage.owner = cur
      BY <1>0, <1>4 DEF Connect, Fetch, FetchGoes, StageInv, host
    <2> QED BY <1>0, <2>1, FetcherGoes DEF Fetching
  <1>5. ASSUME Fork PROVE PhoneInv'
    <2>0. /\ UNCHANGED <<cur, wanted, final, finalFor, offered, stage>>
          /\ fetch = "fork" /\ stage.owner = cur /\ cur \in Fetches
      BY <1>0, <1>5 DEF Fork, Fetch, StageInv, Fetching, host
    <2>1. CASE fetch' = "cleanup" /\ worker' = worker
      BY <1>0, <2>0, <2>1, FetcherGoes, SMT DEF Fetching
    <2> DEFINE w == [pc |-> "setup", i |-> 0, want |-> wanted]
    <2>2. CASE fetch' = "wait" /\ worker' = [worker EXCEPT ![cur] = w]
      <3>1. w \in Workers /\ w.pc = "setup"
        BY <1>0, PartsAssumption, SMT DEF PhoneTypeOK, Workers, Working
      <3> HIDE DEF w
      <3>2. worker' \in [Fetches -> Workers]
            /\ \A f \in Fetches : worker'[f].pc = "recv" => worker'[f].i \in Parts
        BY <1>0, <2>0, <2>2, <3>1
      <3> QED BY <1>0, <2>0, <2>2, <3>2, FetcherGoes, SMT DEF Fetching
    <2> QED BY <1>5, <2>1, <2>2 DEF Fork, FetchGoes
  <1>6. ASSUME AwaitWorker PROVE PhoneInv'
    <2>0. /\ UNCHANGED <<cur, wanted, final, finalFor, offered>>
          /\ fetch = "wait" /\ stage.owner = cur /\ cur \in Fetches
      BY <1>0, <1>6 DEF AwaitWorker, Fetch, StageInv, Fetching, host
    <2>1. NoWorker \in Workers /\ NoWorker.pc = "none"
      BY PartsAssumption, SMT DEF NoWorker, Workers
    <2>2. /\ worker' \in [Fetches -> Workers] /\ worker'[cur].pc = "none"
          /\ \A f \in Fetches : worker'[f].pc = "recv" => worker'[f].i \in Parts
      BY <1>0, <1>6, <2>0, <2>1 DEF AwaitWorker
    <2>3. stage' \in [owner : 0..MaxFetches, files : [Parts -> Known(offered)]]
          /\ stage'.owner = stage.owner
      <3>1. \/ stage' = stage
            \/ \E g \in [Parts -> Known(offered)] : stage' = [stage EXCEPT !.files = g]
        BY <1>0, <1>6, <2>0, StoppedFacts DEF AwaitWorker
      <3> QED BY <1>0, <3>1
    <2>4. fetch' \in {"validate", "cleanup"}
      BY <1>6 DEF AwaitWorker, FetchGoes
    <2> QED BY <1>0, <2>0, <2>2, <2>3, <2>4, NoStageFacts, FetcherGoes DEF Fetching
  <1>7. ASSUME ValidateStage PROVE PhoneInv'
    <2>1. /\ UNCHANGED <<cur, wanted, final, finalFor, offered, worker, stage>>
          /\ fetch = "validate" /\ fetch' \in {"normalize", "cleanup"}
          /\ stage.owner = cur /\ worker[cur].pc = "none"
      BY <1>0, <1>7 DEF ValidateStage, Fetch, FetchGoes, StageInv, host
    <2> QED BY <1>0, <2>1, FetcherGoes DEF Fetching
  <1>8. ASSUME NormalizeStage PROVE PhoneInv'
    <2>0. /\ UNCHANGED <<cur, wanted, final, finalFor, offered, worker, stage>>
          /\ fetch = "normalize" /\ stage.owner = cur /\ worker[cur].pc = "none"
      BY <1>0, <1>8 DEF NormalizeStage, Fetch, StageInv, host
    <2>1. CASE fetch' = "cleanup"
      BY <1>0, <2>0, <2>1, FetcherGoes, SMT DEF Fetching
    <2>2. CASE Valid(stage.files, wanted) /\ fetch' = "publish"
      <3>1. PhoneTypeOK'
        BY <1>0, <2>0, <2>2 DEF PhoneTypeOK, Fetching
      <3>2. StageInv'
        BY <1>0, <2>0, <2>2 DEF StageInv, Valid, Fetching
      <3>3. FinalIsRequested' /\ FailureLeavesClean'
        BY <1>0, <2>0, <2>2 DEF PhoneInv, FinalIsRequested, FailureLeavesClean
      <3> QED BY <3>1, <3>2, <3>3 DEF PhoneInv
    <2> QED BY <1>8, <2>1, <2>2 DEF NormalizeStage, FetchGoes
  <1>9. ASSUME PublishStage PROVE PhoneInv'
    <2>0. /\ UNCHANGED <<cur, wanted, offered, worker>>
          /\ fetch = "publish" /\ Valid(stage.files, wanted)
      BY <1>0, <1>9 DEF PublishStage, Fetch, StageInv, host
    <2>1. CASE fetch' = "cleanup" /\ UNCHANGED <<stage, final, finalFor>>
      BY <1>0, <2>0, <2>1, FetcherGoes, SMT DEF Fetching
    <2>2. CASE final' = stage.files /\ finalFor' = wanted /\ stage' = NoStage /\ fetch' = "sync"
      <3>1. PhoneTypeOK'
        BY <1>0, <2>0, <2>2, NoStageFacts DEF PhoneTypeOK, Fetching
      <3>2. StageInv'
        BY <1>0, <2>0, <2>2 DEF StageInv, Fetching
      <3>3. FinalIsRequested'
        <4>1. 2 \in Parts
          BY PartsAssumption, SMT DEF Parts
        <4>2. \A k \in Parts \ {2} : stage.files[k] = wanted
          BY <2>0 DEF Valid, Bound
        <4>3. stage.files[2] \notin {"none", "torn", "resized"}
          BY <2>0, <4>1 DEF Valid, Bound
        <4> QED BY <2>2, <4>2, <4>3 DEF FinalIsRequested
      <3>4. FailureLeavesClean'
        BY <2>2 DEF FailureLeavesClean
      <3> QED BY <3>1, <3>2, <3>3, <3>4 DEF PhoneInv
    <2> QED BY <1>9, <2>1, <2>2 DEF PublishStage, FetchGoes
  <1>10. ASSUME PublishSync PROVE PhoneInv'
    <2>1. /\ UNCHANGED <<cur, wanted, final, finalFor, offered, worker, stage>>
          /\ stage = NoStage /\ fetch' \in {"ok", "failed"}
      BY <1>0, <1>10 DEF PublishSync, Fetch, FetchGoes, StageInv, host
    <2>2. PhoneTypeOK'
      BY <1>0, <2>1 DEF PhoneTypeOK
    <2>3. StageInv'
      BY <1>0, <2>1 DEF StageInv, Fetching
    <2>4. FinalIsRequested' /\ FailureLeavesClean'
      BY <1>0, <2>1 DEF PhoneInv, FinalIsRequested, FailureLeavesClean
    <2> QED BY <2>2, <2>3, <2>4 DEF PhoneInv
  <1> QED BY <1>1, <1>2, <1>3, <1>4, <1>5, <1>6, <1>7, <1>8, <1>9, <1>10 DEF Fetcher

\* Every step preserves the invariant of the phone.
LEMMA PhoneStep == IInv /\ [Next]_vars => PhoneInv'
  <1> SUFFICES ASSUME IInv, [Next]_vars PROVE PhoneInv'
    OBVIOUS
  <1>0. PhoneInv /\ PhoneTypeOK /\ StageInv /\ offered \subseteq offered'
    BY HostStep DEF IInv, PhoneInv
  <1>1. CASE UNCHANGED <<cur, wanted, fetch, stage, final, excuse, finalFor, worker>>
    BY <1>0, <1>1, PhoneKept
  <1>2. ASSUME NEW b \in Builds, FetchStart(b) PROVE PhoneInv'
    <2>1. cur' \in Fetches /\ cur' \in 0..MaxFetches /\ wanted' = b
      BY <1>0, <1>2, FetchesAssumption, SMT DEF FetchStart, PhoneTypeOK, Fetches
    <2>2. UNCHANGED <<stage, final, finalFor, worker, offered>>
      BY <1>2, FetchStartFrame
    <2>3. \/ fetch' = "unlink" /\ stage.owner # 0
          \/ fetch' = "mkdir" /\ stage.owner = 0
          \/ fetch' = "failed" /\ excuse' # {}
      BY <1>2 DEF FetchStart, FetchGoes
    <2>4. PhoneTypeOK'
      BY <1>0, <2>1, <2>2, <2>3 DEF PhoneTypeOK, Fetching
    <2>5. StageInv'
      BY <1>0, <2>1, <2>2, <2>3 DEF StageInv, Fetching
    <2>6. FinalIsRequested' /\ FailureLeavesClean'
      BY <1>0, <2>2, <2>3 DEF PhoneInv, FinalIsRequested, FailureLeavesClean
    <2> QED BY <2>4, <2>5, <2>6 DEF PhoneInv
  <1>3. ASSUME KillFetch PROVE PhoneInv'
    <2>1. UNCHANGED <<cur, wanted, stage, final, finalFor, worker, offered>> /\ fetch' = "killed"
      BY <1>3 DEF KillFetch, host
    <2>2. PhoneTypeOK'
      BY <1>0, <2>1 DEF PhoneTypeOK
    <2>3. StageInv'
      BY <1>0, <2>1 DEF StageInv, Fetching
    <2>4. FinalIsRequested' /\ FailureLeavesClean'
      BY <1>0, <2>1 DEF PhoneInv, FinalIsRequested, FailureLeavesClean
    <2> QED BY <2>2, <2>3, <2>4 DEF PhoneInv
  <1>4. ASSUME PhoneRestart PROVE PhoneInv'
    <2>1. /\ UNCHANGED <<cur, wanted, offered>> /\ fetch' = "killed"
          /\ stage' = NoStage /\ final' = NoFiles
          /\ worker' = [f \in Fetches |-> NoWorker]
      BY <1>4 DEF PhoneRestart, host
    <2>2. NoWorker \in Workers /\ NoWorker.pc = "none"
      BY PartsAssumption, SMT DEF NoWorker, Workers
    <2>3. PhoneTypeOK'
      BY <1>0, <2>1, <2>2, NoStageFacts DEF PhoneTypeOK
    <2>4. StageInv'
      BY <2>1, <2>2 DEF StageInv, Fetching
    <2>5. FinalIsRequested' /\ FailureLeavesClean'
      BY <2>1 DEF FinalIsRequested, FailureLeavesClean
    <2> QED BY <2>3, <2>4, <2>5 DEF PhoneInv
  <1> QED BY <1>1, <1>2, <1>3, <1>4, PhoneFetcher, PhoneWorker, PackagerFrame, ServerFrame,
             DeliverFrame, FaultsFrame, StutterFrame DEF Next, Faults

-----------------------------------------------------------------------------
(* The theorems.                                                            *)

\* The invariant holds before anything has happened.
LEMMA InitInv == Init => IInv
  <1> SUFFICES ASSUME Init PROVE IInv
    OBVIOUS
  <1>1. LineInv
    <2>1. srv = NoServer("idle") /\ conn = [f \in Fetches |-> NoConn]
      BY DEF Init
    <2>2. srv.pc = "idle" /\ srv \in Servers(offered)
      BY <2>1, NoServerType DEF NoServer
    <2> QED BY <2>1, <2>2, NoConnType DEF LineInv, Serving
  <1>2. PhoneInv
    <2>1. NoWorker \in Workers /\ NoWorker.pc = "none"
      BY PartsAssumption, SMT DEF NoWorker, Workers
    <2>2. 0 \in 0..MaxFetches
      BY FetchesAssumption, SMT
    <2>3. PhoneTypeOK
      BY <2>1, <2>2, NoStageFacts DEF Init, PhoneTypeOK
    <2>4. StageInv
      BY <2>1 DEF Init, StageInv, Fetching
    <2>5. FinalIsRequested /\ FailureLeavesClean
      BY DEF Init, FinalIsRequested, FailureLeavesClean
    <2> QED BY <2>3, <2>4, <2>5 DEF PhoneInv
  <1> QED BY <1>1, <1>2, HostInit DEF IInv

\* The invariant holds however many packagers, servers and fetches run and
\* whatever happens to them.
THEOREM Invariance == Spec => []IInv
  <1>1. Init => IInv
    BY InitInv
  <1>2. IInv /\ [Next]_vars => IInv'
    BY HostStep, LineStep, PhoneStep DEF IInv
  <1> QED BY <1>1, <1>2, PTL DEF Spec

\* publish_staging hands over only what validate_complete_bundle has accepted
\* for this request, with no worker left that could change it afterwards.
THEOREM FinalIsAlwaysRequested == Spec => []FinalIsRequested
  <1>1. IInv => FinalIsRequested
    BY DEF IInv, PhoneInv
  <1> QED BY <1>1, Invariance, PTL

\* The packager's syncs and its rename come in an order that leaves a whole
\* bundle under the bundle's name, whenever the host loses power.
THEOREM HostRootAlwaysWhole == Spec => []HostRootWhole
  <1>1. IInv => HostRootWhole
    BY DEF IInv, HostInv, HostTypeOK, NameInv, HostRootWhole
  <1> QED BY <1>1, Invariance, PTL

\* A fetch that reports a failure has removed its staging directory, or has a
\* reason that cleanup_staging could do nothing about.
THEOREM FailureAlwaysLeavesClean == Spec => []FailureLeavesClean
  <1>1. IInv => FailureLeavesClean
    BY DEF IInv, PhoneInv
  <1> QED BY <1>1, Invariance, PTL

\* confirm_tcp_delivery returns only for an acknowledged end of the stream or
\* a reset that came between its two reads.
THEOREM PassNeedsAckOrLateReset == Spec => PassUnlessLateReset
  <1> DEFINE Delivered == srv.pc # "pass" /\ srv'.pc = "pass" =>
                             conn[srv.peer].acked \/ conn[srv.peer].reset = "late"
  <1>1. IInv /\ [Next]_vars => [Delivered]_vars
    <2> SUFFICES ASSUME IInv, Next, srv.pc # "pass", srv'.pc = "pass"
                 PROVE  conn[srv.peer].acked \/ conn[srv.peer].reset = "late"
      OBVIOUS
    <2>1. CASE ConfirmInfo
      <3>1. srv.peer \in Fetches /\ conn[srv.peer].reset \in {"no", "late"}
        BY <2>1 DEF ConfirmInfo, IInv, LineInv, Serving, Connections
      <3>2. conn[srv.peer].acked \/ conn[srv.peer].reset # "no"
        BY <2>1 DEF ConfirmInfo, ServerGoes, IInv, LineInv, Servers
      <3> QED BY <3>1, <3>2
    <2>2. CASE UNCHANGED srv
      BY <2>2
    <2>0. srv \in Servers(offered) /\ \A r : NoServer(r).pc = r
      BY DEF IInv, LineInv, NoServer
    <2>3. ASSUME Server PROVE ConfirmInfo
      <3>1. \A b \in Builds : ~ServerStart(b)
        BY <2>0 DEF ServerStart, NoServer
      <3>2. \A f \in Fetches : ~Accept(f)
        BY <2>0 DEF Accept, Servers
      <3>3. ~RejectPeer /\ ~Refuse
        BY <2>0 DEF RejectPeer, Refuse, ServerEnds, ServerCloses, Servers
      <3>4. ~ReceiveRequest /\ ~SendResized
        BY <2>0 DEF ReceiveRequest, SendResized, ServerEnds, ServerCloses, Servers
      <3>5. ~Send
        <4>1. CASE srv' = NoServer("refused")
          BY <2>0, <4>1
        <4>2. CASE srv' = [srv EXCEPT !.i = @ + 1] \/ srv' = [srv EXCEPT !.pc = "shut"]
          BY <2>0, <4>2 DEF Servers
        <4> QED BY <4>1, <4>2 DEF Send, ServerEnds, ServerCloses
      <3>6. ~HalfClose /\ ~ConfirmError
        BY <2>0 DEF HalfClose, ConfirmError, ServerEnds, ServerCloses, ServerGoes, Servers
      <3> QED BY <2>3, <3>1, <3>2, <3>3, <3>4, <3>5, <3>6 DEF Server
    <2>4. ASSUME Faults PROVE UNCHANGED srv
      <3>1. ~HostPowerLoss
        BY <2>0 DEF HostPowerLoss
      <3>2. ~EditRoot \/ UNCHANGED srv
        BY <2>0 DEF EditRoot, Servers
      <3> QED BY <2>4, <3>1, <3>2, FaultsFrame DEF Faults
    <2> QED BY <2>1, <2>2, <2>3, <2>4, PackagerFrame, FetcherFrame, FetchStartFrame, WorkerFrame,
               DeliverFrame DEF Next
  <1> QED BY <1>1, Invariance, PTL DEF Spec, PassUnlessLateReset

-----------------------------------------------------------------------------
(* The refinement of Handover.                                              *)

\* The phone holds nothing at first.
LEMMA RefinesInit == Init => Abstract!HandInit
  <1> SUFFICES ASSUME Init PROVE Abstract!HandInit
    OBVIOUS
  <1>1. final[1] = "none"
    BY PartsAssumption, SMT DEF Init, NoFiles, Parts
  <1>2. Answered = "failed"
    BY DEF Init, Answered, Fetching
  <1> QED BY <1>1, <1>2 DEF Init, Abstract!HandInit

\* A step that gives no answer and publishes nothing.
LEMMA RefinesStutter ==
    ASSUME UNCHANGED <<offered, wanted, final>>,
           \/ fetch' = fetch
           \/ {fetch, fetch'} \subseteq Fetching \ {"sync"}
    PROVE  UNCHANGED Abstract!handVars
  <1>1. Answered' = Answered
    BY DEF Answered, Fetching
  <1> QED BY <1>1 DEF Abstract!handVars

\* A fetch ends without a bundle of its own.
LEMMA RefinesFailure ==
    ASSUME UNCHANGED <<offered, wanted, final>>, fetch \in Fetching, fetch' \in {"failed", "killed"}
    PROVE  Abstract!Answer
  <1>1. Answered \in {"none", "held"} /\ Answered' = "failed"
    BY DEF Answered, Fetching
  <1> QED BY <1>1 DEF Abstract!Answer

\* Every step of the fetcher is one of the abstract specification.
LEMMA RefinesFetcher ==
    ASSUME IInv, Fetcher
    PROVE  Abstract!HandOver \/ Abstract!Answer \/ UNCHANGED Abstract!handVars
  <1>0. UNCHANGED <<offered, wanted>> /\ PhoneTypeOK /\ StageInv
    BY FetcherFrame DEF IInv, PhoneInv
  <1>1. ASSUME UnlinkStale \/ RmdirStale \/ MakeStage \/ Connect \/ Fork \/ AwaitWorker
               \/ ValidateStage \/ NormalizeStage \/ CleanupStage \/ CleanupEnd
        PROVE  Abstract!Answer \/ UNCHANGED Abstract!handVars
    <2>1. UNCHANGED final /\ fetch \in Fetching \ {"sync"}
          /\ fetch' \in (Fetching \ {"sync"}) \cup {"failed"}
      BY <1>1 DEF UnlinkStale, RmdirStale, Unlink, Rmdir, MakeStage, Connect, Fork, AwaitWorker,
                  ValidateStage, NormalizeStage, CleanupStage, CleanupEnd, Fetch, FetchGoes, Fetching
    <2> QED BY <1>0, <2>1, RefinesStutter, RefinesFailure
  <1>2. ASSUME PublishStage PROVE Abstract!HandOver \/ UNCHANGED Abstract!handVars
    <2>0. 1 \in Parts
      BY PartsAssumption, SMT DEF Parts
    <2>1. CASE final = NoFiles /\ final' = stage.files /\ fetch' = "sync"
      <3>1. fetch = "publish" /\ wanted \in Builds /\ Valid(stage.files, wanted)
        BY <1>0, <1>2 DEF PublishStage, Fetch, StageInv, Fetching
      <3>2. final[1] = "none" /\ final'[1] = wanted
        BY <2>0, <2>1, <3>1, SMT DEF NoFiles, Valid, Bound
      <3>3. wanted \in Known(offered)
        BY <1>0, <2>0, <2>1, <3>2 DEF PhoneTypeOK
      <3>4. wanted \in offered
        BY <3>1, <3>3, BuildsAssumption DEF Known
      <3>5. Answered = "none" /\ Answered' = "held"
        BY <2>1, <3>1 DEF Answered, Fetching
      <3> QED BY <1>0, <3>2, <3>4, <3>5 DEF Abstract!HandOver
    <2>2. CASE UNCHANGED final /\ fetch' = "cleanup"
      BY <1>0, <1>2, <2>2, RefinesStutter DEF PublishStage, Fetch, Fetching
    <2> QED BY <1>2, <2>1, <2>2 DEF PublishStage, FetchGoes
  <1>3. ASSUME PublishSync PROVE Abstract!Answer
    <2>1. fetch = "sync" /\ fetch' \in {"ok", "failed"} /\ UNCHANGED final
      BY <1>3 DEF PublishSync, Fetch, FetchGoes
    <2>2. Answered = "held" /\ Answered' \in {"ok", "failed"}
      BY <2>1 DEF Answered, Fetching
    <2> QED BY <1>0, <2>1, <2>2 DEF Abstract!Answer
  <1> QED BY <1>1, <1>2, <1>3 DEF Fetcher

\* Every step of the composition is a step of Handover or a stutter.
LEMMA RefinesStep == IInv /\ [Next]_vars => [Abstract!HandNext]_(Abstract!handVars)
  <1> SUFFICES ASSUME IInv, [Next]_vars PROVE Abstract!HandNext \/ UNCHANGED Abstract!handVars
    OBVIOUS
  <1>1. CASE UNCHANGED <<offered, wanted, final, fetch>>
    BY <1>1, RefinesStutter
  <1>2. ASSUME Packager PROVE (\E b \in Builds : Abstract!Offer(b)) \/ UNCHANGED Abstract!handVars
    <2>1. UNCHANGED <<wanted, final, fetch>>
      BY <1>2, PackagerFrame
    <2>2. CASE UNCHANGED offered
      BY <2>1, <2>2, RefinesStutter
    <2>3. CASE PackRename /\ offered' # offered
      <3>1. pack.build \in Builds /\ offered' = offered \cup {pack.build}
        BY <2>3 DEF PackRename, IInv, HostInv, PackInv, Packing
      <3>2. Answered' = Answered
        BY <2>1 DEF Answered
      <3>3. Abstract!Offer(pack.build)
        BY <2>1, <3>1, <3>2 DEF Abstract!Offer
      <3> QED BY <3>1, <3>3
    <2> QED BY <1>2, <2>2, <2>3, PackagerFrame
  <1>3. ASSUME NEW b \in Builds, FetchStart(b) PROVE Abstract!Ask(b)
    <2>1. /\ UNCHANGED <<offered, final>> /\ wanted' = b
          /\ fetch \notin Fetching /\ fetch' \in {"unlink", "mkdir", "failed"}
      BY <1>3, FetchStartFrame DEF FetchStart, FetchGoes
    <2>2. Answered \in {"ok", "failed"} /\ Answered' \in {"none", "failed"}
      BY <2>1 DEF Answered, Fetching
    <2> QED BY <2>1, <2>2 DEF Abstract!Ask
  <1>4. ASSUME KillFetch PROVE Abstract!Answer
    BY <1>4, FaultsFrame, RefinesFailure DEF KillFetch
  <1>5. ASSUME PhoneRestart PROVE Abstract!Restart
    <2>1. UNCHANGED <<offered, wanted>> /\ fetch' = "killed" /\ final' = NoFiles
      BY <1>5, FaultsFrame DEF PhoneRestart
    <2>2. Answered' = "failed" /\ final'[1] = "none"
      BY <2>1, PartsAssumption, SMT DEF Answered, Fetching, NoFiles, Parts
    <2> QED BY <2>1, <2>2 DEF Abstract!Restart
  <1> QED BY <1>1, <1>2, <1>3, <1>4, <1>5, RefinesFetcher, ServerFrame, WorkerFrame, DeliverFrame,
             FaultsFrame, StutterFrame DEF Next, Faults, Abstract!HandNext

\* The packager, the server, the connection and the fetcher with its worker
\* together do what Handover promises the caller of the fetch.
THEOREM HandsOver == Spec => ImplementsHandover
  <1>1. Init => Abstract!HandInit
    BY RefinesInit
  <1>2. IInv /\ [Next]_vars => [Abstract!HandNext]_(Abstract!handVars)
    BY RefinesStep
  <1> QED BY <1>1, <1>2, Invariance, PTL DEF Spec, ImplementsHandover, Abstract!HandSpec
=============================================================================
