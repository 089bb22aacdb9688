-------------------------- MODULE HostInstallProofs --------------------------
(***************************************************************************)
(* The kernel install: whatever fails or is killed, every power loss finds *)
(* a system to boot, the script's last word holds, the write window is     *)
(* guarded, and the host's evidence is true of the phone.                  *)
(***************************************************************************)
EXTENDS HostInstall, TLAPS

\* Leaves are left to Zenon; the ones with arithmetic or many cases name SMT.
USE ZenonT(30)

-----------------------------------------------------------------------------
(* The inductive invariant.                                                 *)

Before == {"check", "arm", "open", "rw", "bundle", "fallback", "stage", "sync", "prove",
           "rwAgain", "exch"}

\* What the loader can boot the new primary or the fallback from.
Complete(p) ==
    p.sel = "new" /\ p.prim = "good" /\ p.fall = "good" /\ "old" \in {p.next, p.rb}

\* Every p24 that power loss may leave has a selector with all that it selects;
\* the exchange is not undone, and once durable nothing else is left.
DiskInv ==
    /\ fs \in disk24
    /\ \A p \in disk24 : p.sel = "old" \/ Complete(p)
    /\ fs.sel = "old" => \A p \in disk24 : p.sel = "old"
    /\ p24Durable => disk24 = {fs} /\ fs.sel = "new"

\* What the script has written to p24 before each step; nothing that the
\* exchange activates is still on its way to the disk.
WrittenInv ==
    /\ pc \in Before => fs.sel = "old"
    /\ ~fallbackNew => fs.fall = "good" /\ pc # "fallback"
    /\ pc = "fallback" => fs.prim = "good"
    /\ pc \in {"stage", "sync", "prove", "rwAgain", "exch"} => fs.prim = "good" /\ fs.fall = "good"
    /\ pc \in {"sync", "prove", "rwAgain", "exch"} => fs.next = "new"
    /\ pc \in {"rwAgain", "exch"} => disk24 = {fs} /\ dirty = {}
    /\ pc = "keep" => fs.sel = "new" /\ fs.next = "old" /\ dirty = {}
    /\ pc = "syncAgain" => fs.sel = "new"

\* The script's flags at each step.
FlagInv ==
    /\ p24Durable => pc \notin Before \cup {"keep", "syncAgain"}
    /\ pc \in {"seal", "lock", "archive", "archived", "syncUser", "finish", "pass",
               "trapArchive", "trapArchived", "trapSync"} => p24Durable
    /\ pc \in {"finish", "pass"} => recordDurable
    /\ selState # "unread" => pc \in {"trapArchive", "trapArchived", "trapSync", "trapLookAgain",
                                      "trapReport", "exited", "killed"}
    /\ claim # "none" => pc \in {"pass", "exited"}

\* p24's node is open only while the guard will still lock it, or after
\* blockdev itself failed.
WindowGuarded == nodeRO \/ lockFailed \/ guard \in {"armed", "remounted"}

WindowInv ==
    /\ WindowGuarded
    /\ pc = "open" => guard = "armed"
    /\ pc \in {"archive", "archived", "syncUser", "finish", "pass"} => nodeRO /\ mount = "ro"

\* The record of the running trial leaves its name only after the new selector
\* is durable, and only its helper brings the name back.
RecordInv ==
    /\ user \in disk23
    /\ oldRec = "none" => helper = "idle" /\ \A u \in disk23 : u.rec = "none"
    /\ p24Durable \/ \A u \in disk23 : u.rec # "none" \/ oldRec = "none"
    /\ helper # "renamed" =>
          /\ user.rec # "none" => \A u \in disk23 : u.rec # "none"
          /\ pc \in {"syncUser", "trapSync"} => user.rec = "none"
          /\ recordDurable => \A u \in disk23 : u.rec = "none"

\* What the trap has seen is still so when it reports.
SeenInv ==
    /\ selState = "previous" => fs.sel = "old"
    /\ recState = "absent" => oldRec = "none"
    /\ pc = "trapReport" /\ recState = "previous" /\ helper # "renamed" => user.rec # "none"

IInv ==
    /\ TypeOK /\ DiskInv /\ WrittenInv /\ FlagInv /\ WindowInv /\ RecordInv /\ SeenInv
    /\ ClaimsHold

-----------------------------------------------------------------------------
(* The file systems.                                                        *)

\* A p24 that lost contents is still a p24; it keeps the previous selector's
\* name, and is itself when nothing is lost.
LEMMA TornFacts ==
    ASSUME NEW p \in P24, NEW lost
    PROVE  /\ Torn(p, lost) \in P24
           /\ p.sel = "old" => Torn(p, lost).sel = "old"
           /\ Torn(p, {}) = p
  <1> DEFINE content(c, l) == IF c = "new" /\ "new" \in l THEN "torn" ELSE c
             bundle(c, n, l) == IF c # "none" /\ n \in l THEN "partial" ELSE c
             With(l) == [p EXCEPT !.sel = content(p.sel, l), !.next = content(p.next, l),
                                  !.prim = bundle(p.prim, "prim", l),
                                  !.fall = bundle(p.fall, "fall", l)]
  <1>1. \A l : Torn(p, l) = With(l)
    BY DEF Torn
  <1>2. /\ content(p.sel, lost) \in {"old", "new", "torn"}
        /\ content(p.next, lost) \in {"none", "old", "new", "torn"}
        /\ bundle(p.prim, "prim", lost) \in {"none", "partial", "good"}
        /\ bundle(p.fall, "fall", lost) \in {"none", "partial", "good"}
        /\ p.sel = "old" => content(p.sel, lost) = "old"
    BY SMT DEF P24
  <1>3. /\ content(p.sel, {}) = p.sel /\ content(p.next, {}) = p.next
        /\ bundle(p.prim, "prim", {}) = p.prim /\ bundle(p.fall, "fall", {}) = p.fall
    OBVIOUS
  <1> HIDE DEF content, bundle
  <1>4. With(lost) \in P24
    <2>1. \A q \in P24, c \in {"old", "new", "torn"} : [q EXCEPT !.sel = c] \in P24
      BY DEF P24
    <2>2. \A q \in P24, c \in {"none", "old", "new", "torn"} : [q EXCEPT !.next = c] \in P24
      BY DEF P24
    <2>3. \A q \in P24, c \in {"none", "partial", "good"} :
              [q EXCEPT !.prim = c] \in P24 /\ [q EXCEPT !.fall = c] \in P24
      BY DEF P24
    <2> QED BY <1>2, <2>1, <2>2, <2>3
  <1>5. With(lost).sel = content(p.sel, lost)
    BY DEF P24
  <1>6. With({}) = p
    BY <1>3 DEF P24
  <1> QED BY <1>1, <1>2, <1>4, <1>5, <1>6

\* What a change of p24 may leave.
LEMMA Changed24 ==
    ASSUME NEW p \in P24, NEW w, Change24(p, w)
    PROVE  /\ fs' = p /\ dirty' = dirty \cup w /\ disk24 \subseteq disk24' /\ p \in disk24'
           /\ \A q \in disk24' : q \in disk24 \/ \E lost : q = Torn(p, lost)
           /\ dirty \cup w = {} => disk24' = disk24 \cup {p}
  <1>1. /\ fs' = p /\ dirty' = dirty \cup w
        /\ disk24' = disk24 \cup {Torn(p, lost) : lost \in SUBSET (dirty \cup w)}
    BY DEF Change24
  <1>2. {} \in SUBSET (dirty \cup w) /\ Torn(p, {}) = p
    BY TornFacts
  <1>3. ASSUME dirty \cup w = {} PROVE disk24' = disk24 \cup {p}
    <2>1. {Torn(p, lost) : lost \in SUBSET {}} = {p}
      BY <1>2
    <2> QED BY <1>1, <1>3, <2>1
  <1> QED BY <1>1, <1>2, <1>3

\* Every step that is not one of six writes p24 by a sync at most, and leaves
\* what the install was prepared for.
LEMMA Kinds24 ==
    ASSUME Next
    PROVE  /\ UNCHANGED input
           /\ \/ UNCHANGED p24 /\ UNCHANGED p24Durable
              \/ Sync24 /\ UNCHANGED p24Durable
              \/ InstallBundle \/ InstallFallback \/ StageSelector \/ ExchangeSelector
              \/ KeepRollback \/ SyncActivated
  <1> USE DEF input
  <1>1. CASE Script
    <2>1. CASE Preconditions \/ ArmGuard \/ OpenNode \/ RemountOpen \/ RemountAgain \/ LockNode \/ Finish
      BY <2>1 DEF Preconditions, ArmGuard, OpenNode, RemountOpen, RemountAgain, RemountRw, LockNode,
             Finish, flags
    <2>2. CASE SyncStaged \/ ProveRemount \/ SealMount
      BY <2>2 DEF SyncStaged, ProveRemount, SealMount, RemountRo, flags
    <2>3. CASE ArchiveRecord \/ ArchiveChecks \/ ArchiveSync
      BY <2>3 DEF ArchiveRecord, ArchiveChecks, ArchiveSync, Archive, CheckArchived, SyncArchived, flags
    <2>4. CASE InstallBundle \/ InstallFallback \/ StageSelector \/ ExchangeSelector
               \/ KeepRollback \/ SyncActivated
      BY <2>4 DEF InstallBundle, InstallFallback, StageSelector, ExchangeSelector, KeepRollback,
             SyncActivated
    <2> QED BY <1>1, <2>1, <2>2, <2>3, <2>4 DEF Script
  <1>2. CASE Trap
    <2>1. CASE TrapRemount \/ TrapLock \/ TrapLook \/ TrapLookAgain \/ TrapReport
      BY <2>1 DEF TrapRemount, RemountRo, TrapLock, TrapLook, TrapLookAgain, TrapReport, flags
    <2>2. CASE TrapArchive \/ TrapArchiveChecks \/ TrapArchiveSync
      BY <2>2 DEF TrapArchive, TrapArchiveChecks, TrapArchiveSync, Archive, CheckArchived,
             SyncArchived, flags
    <2> QED BY <1>2, <2>1, <2>2 DEF Trap
  <1>3. CASE Interrupt \/ Kill \/ GuardRemount \/ GuardLock \/ HelperCheck \/ HelperRename
    BY <1>3 DEF Interrupt, Kill, GuardRemount, RemountRo, GuardLock, HelperCheck, HelperRename, flags
  <1> QED BY <1>1, <1>2, <1>3 DEF Next

-----------------------------------------------------------------------------
(* p24.                                                                     *)

\* The states of p24 keep their type.
LEMMA Type24 == IInv /\ Next => disk24' \cup {fs'} \subseteq P24 /\ dirty' \subseteq {"new", "prim", "fall"}
  <1> SUFFICES ASSUME IInv, Next
               PROVE  disk24' \cup {fs'} \subseteq P24 /\ dirty' \subseteq {"new", "prim", "fall"}
    OBVIOUS
  <1>1. fs \in P24 /\ disk24 \subseteq P24 /\ dirty \subseteq {"new", "prim", "fall"}
    BY DEF IInv, TypeOK
  <1>2. ASSUME NEW p \in P24, NEW w \in SUBSET {"new", "prim", "fall"}, Change24(p, w)
        PROVE  disk24' \cup {fs'} \subseteq P24 /\ dirty' \subseteq {"new", "prim", "fall"}
    <2>1. /\ fs' = p /\ dirty' = dirty \cup w
          /\ \A q \in disk24' : q \in disk24 \/ \E lost : q = Torn(p, lost)
      BY <1>2, Changed24
    <2>2. \A lost : Torn(p, lost) \in P24
      BY TornFacts
    <2> QED BY <1>1, <2>1, <2>2
  <1>0. {} \in SUBSET {"new", "prim", "fall"}
    OBVIOUS
  <1>3. CASE UNCHANGED p24
    BY <1>1, <1>3 DEF p24
  <1>4. CASE Sync24
    BY <1>1, <1>4 DEF Sync24
  <1>5. CASE InstallBundle
    <2>1. [fs EXCEPT !.prim = "good"] \in P24 /\ [fs EXCEPT !.prim = "partial"] \in P24
      BY <1>1 DEF P24
    <2> QED BY <1>2, <1>3, <1>5, <2>1 DEF InstallBundle
  <1>6. CASE InstallFallback
    <2>1. [fs EXCEPT !.fall = "good"] \in P24 /\ [fs EXCEPT !.fall = "partial"] \in P24
      BY <1>1 DEF P24
    <2> QED BY <1>2, <1>3, <1>6, <2>1 DEF InstallFallback
  <1>7. CASE StageSelector
    <2>1. [fs EXCEPT !.next = "new"] \in P24 /\ [fs EXCEPT !.next = "torn"] \in P24
      BY <1>1 DEF P24
    <2> QED BY <1>2, <1>3, <1>7, <2>1 DEF StageSelector
  <1>8. CASE ExchangeSelector
    <2>1. fs.next = "new"
      BY <1>8 DEF IInv, WrittenInv, ExchangeSelector
    <2>2. [fs EXCEPT !.sel = fs.next, !.next = fs.sel] \in P24
      BY <1>1, <2>1 DEF P24
    <2> QED BY <1>0, <1>2, <1>3, <1>8, <2>2 DEF ExchangeSelector
  <1>9. CASE KeepRollback
    <2>1. fs.next = "old"
      BY <1>9 DEF IInv, WrittenInv, KeepRollback
    <2>2. [fs EXCEPT !.rb = fs.next, !.next = "none"] \in P24
      BY <1>1, <2>1 DEF P24
    <2> QED BY <1>0, <1>2, <1>3, <1>9, <2>2 DEF KeepRollback
  <1>10. CASE SyncActivated
    BY <1>3, <1>4, <1>10 DEF SyncActivated, p24
  <1> QED BY <1>3, <1>4, <1>5, <1>6, <1>7, <1>8, <1>9, <1>10, Kinds24

\* Every p24 that power loss may leave is complete.
LEMMA DiskStep == IInv /\ Next => DiskInv'
  <1> SUFFICES ASSUME IInv, Next PROVE DiskInv'
    OBVIOUS
  <1>1. fs \in P24 /\ disk24 \subseteq P24
    BY DEF IInv, TypeOK
  <1>2. CASE UNCHANGED p24 /\ UNCHANGED p24Durable
    BY <1>2 DEF IInv, DiskInv, Complete, p24
  <1>3. CASE Sync24 /\ UNCHANGED p24Durable
    BY <1>3 DEF IInv, DiskInv, Sync24, Complete
  <1>4. ASSUME NEW p \in P24, p.sel = "old", NEW w, Change24(p, w), pc \in Before,
               UNCHANGED p24Durable
        PROVE  DiskInv'
    <2>1. fs.sel = "old" /\ ~p24Durable
      BY <1>4 DEF IInv, WrittenInv, FlagInv
    <2>2. fs' \in disk24' /\ \A q \in disk24' : q.sel = "old"
      <3>1. /\ fs' = p /\ p \in disk24'
            /\ \A q \in disk24' : q \in disk24 \/ \E lost : q = Torn(p, lost)
        BY <1>4, Changed24
      <3>2. \A lost : Torn(p, lost).sel = "old"
        BY <1>4, TornFacts
      <3> QED BY <2>1, <3>1, <3>2 DEF IInv, DiskInv
    <2> QED BY <1>4, <2>1, <2>2 DEF DiskInv
  <1>5. CASE InstallBundle \/ InstallFallback \/ StageSelector
    <2>1. \A v \in {"good", "partial"} : /\ [fs EXCEPT !.prim = v] \in P24
                                         /\ [fs EXCEPT !.prim = v].sel = fs.sel
                                         /\ [fs EXCEPT !.fall = v] \in P24
                                         /\ [fs EXCEPT !.fall = v].sel = fs.sel
      BY <1>1 DEF P24
    <2>2. \A v \in {"new", "torn"} : /\ [fs EXCEPT !.next = v] \in P24
                                     /\ [fs EXCEPT !.next = v].sel = fs.sel
      BY <1>1 DEF P24
    <2>3. pc \in Before /\ UNCHANGED p24Durable /\ fs.sel = "old"
      BY <1>5 DEF IInv, WrittenInv, InstallBundle, InstallFallback, StageSelector, flags, Before
    <2>4. CASE InstallBundle
      BY <1>2, <1>4, <2>1, <2>3, <2>4 DEF InstallBundle
    <2>5. CASE InstallFallback
      BY <1>2, <1>4, <2>1, <2>3, <2>5 DEF InstallFallback
    <2>6. CASE StageSelector
      BY <1>2, <1>4, <2>2, <2>3, <2>6 DEF StageSelector
    <2> QED BY <1>5, <2>4, <2>5, <2>6
  <1>6. ASSUME NEW p \in P24, Complete(p), Change24(p, {}), dirty = {}, ~p24Durable,
               UNCHANGED p24Durable
        PROVE  DiskInv'
    <2>1. disk24' = disk24 \cup {p} /\ fs' = p
      <3>1. dirty \cup {} = {}
        BY <1>6
      <3> QED BY <1>6, <3>1, Changed24
    <2> QED BY <1>6, <2>1 DEF IInv, DiskInv, Complete
  <1>7. CASE ExchangeSelector
    <2>1. /\ fs.sel = "old" /\ fs.next = "new" /\ fs.prim = "good" /\ fs.fall = "good"
          /\ dirty = {} /\ ~p24Durable /\ UNCHANGED p24Durable
      BY <1>7 DEF IInv, WrittenInv, FlagInv, ExchangeSelector, flags, Before
    <2>2. [fs EXCEPT !.sel = fs.next, !.next = fs.sel] \in P24
      BY <1>1, <2>1 DEF P24
    <2>3. Complete([fs EXCEPT !.sel = fs.next, !.next = fs.sel])
      BY <1>1, <2>1 DEF P24, Complete
    <2> QED BY <1>2, <1>6, <1>7, <2>1, <2>2, <2>3 DEF ExchangeSelector
  <1>8. CASE KeepRollback
    <2>1. fs.sel = "new" /\ fs.next = "old" /\ dirty = {} /\ ~p24Durable /\ UNCHANGED p24Durable
      BY <1>8 DEF IInv, WrittenInv, FlagInv, KeepRollback, flags
    <2>2. Complete(fs)
      BY <2>1 DEF IInv, DiskInv
    <2>3. [fs EXCEPT !.rb = fs.next, !.next = "none"] \in P24
      BY <1>1, <2>1 DEF P24
    <2>4. Complete([fs EXCEPT !.rb = fs.next, !.next = "none"])
      BY <1>1, <2>1, <2>2 DEF P24, Complete
    <2> QED BY <1>2, <1>6, <1>8, <2>1, <2>3, <2>4 DEF KeepRollback
  <1>9. CASE SyncActivated
    <2>1. fs.sel = "new"
      BY <1>9 DEF IInv, WrittenInv, SyncActivated
    <2>2. CASE Sync24 /\ p24Durable' = TRUE
      BY <2>1, <2>2 DEF IInv, DiskInv, Sync24, Complete
    <2> QED BY <1>2, <1>9, <2>2 DEF SyncActivated
  <1> QED BY <1>2, <1>3, <1>5, <1>7, <1>8, <1>9, Kinds24

\* A step that writes nothing new to p24 and goes nowhere on the way to the
\* activation keeps what was written.
LEMMA QuietWritten ==
    ASSUME IInv, UNCHANGED input, UNCHANGED p24 \/ Sync24,
           pc' = pc \/ pc' \notin Before \cup {"keep", "syncAgain"}
    PROVE  WrittenInv'
  <1>1. fs' = fs /\ fallbackNew' = fallbackNew /\ (dirty = {} => dirty' = {})
        /\ (disk24 = {fs} => disk24' = {fs'})
    BY DEF Sync24, p24, input
  <1>2. CASE pc' = pc
    BY <1>1, <1>2 DEF IInv, WrittenInv
  <1>3. CASE pc' \notin Before \cup {"keep", "syncAgain"}
    BY <1>1, <1>3 DEF IInv, WrittenInv, Before
  <1> QED BY <1>2, <1>3

\* A write that ends in the trap keeps it unless it loses the fallback.
LEMMA FailWritten ==
    ASSUME IInv, UNCHANGED input, Fail, fallbackNew \/ fs'.fall = fs.fall
    PROVE  WrittenInv'
  <1>1. pc' \notin Before \cup {"keep", "syncAgain"}
    BY DEF Fail, Before
  <1> QED BY <1>1 DEF IInv, WrittenInv, Before, input

\* The script writes in order: the bundles, the staged selector, the exchange.
LEMMA WrittenStep == IInv /\ Next => WrittenInv'
  <1> SUFFICES ASSUME IInv, Next PROVE WrittenInv'
    OBVIOUS
  <1>1. fs \in P24 /\ UNCHANGED input
    BY Kinds24 DEF IInv, TypeOK
  <1> USE DEF Goto, Fail
  <1>2. CASE Preconditions \/ ArmGuard \/ OpenNode \/ RemountOpen
    <2>1. UNCHANGED p24 /\ pc \in Before
      BY <1>2 DEF Preconditions, ArmGuard, OpenNode, RemountOpen, RemountRw, Before
    <2>2. pc' \in {"arm", "open", "rw", "bundle"} \/ pc' \in {"exited", "trapRemount"}
      BY <1>2 DEF Preconditions, ArmGuard, OpenNode, RemountOpen, RemountRw
    <2>3. CASE pc' \in {"exited", "trapRemount"}
      BY <1>1, <2>1, <2>3, QuietWritten DEF Before
    <2>4. CASE pc' \in {"arm", "open", "rw", "bundle"}
      BY <1>1, <2>1, <2>4 DEF IInv, WrittenInv, p24, input, Before
    <2> QED BY <2>2, <2>3, <2>4
  <1>3. CASE InstallBundle
    <2>1. \A v \in {"good", "partial"} :
             /\ [fs EXCEPT !.prim = v].prim = v /\ [fs EXCEPT !.prim = v].sel = fs.sel
             /\ [fs EXCEPT !.prim = v].fall = fs.fall
      BY <1>1 DEF P24
    <2>2. pc = "bundle" /\ fs.sel = "old"
      BY <1>3 DEF IInv, WrittenInv, InstallBundle, Before
    <2>3. fs'.fall = fs.fall
      BY <1>3, <2>1 DEF InstallBundle, Change24, p24
    <2>4. CASE pc' = "trapRemount"
      BY <1>1, <2>3, <2>4, FailWritten
    <2>5. CASE pc' # "trapRemount"
      <3>1. fs' = [fs EXCEPT !.prim = "good"] /\ pc' = IF fallbackNew THEN "fallback" ELSE "stage"
        BY <1>3, <2>5 DEF InstallBundle, Change24
      <3>2. fs'.prim = "good" /\ fs'.sel = "old"
        BY <2>1, <2>2, <3>1
      <3> QED BY <1>1, <2>3, <3>1, <3>2 DEF IInv, WrittenInv, input, Before
    <2> QED BY <2>4, <2>5
  <1>4. CASE InstallFallback
    <2>1. [fs EXCEPT !.fall = "good"].fall = "good" /\ [fs EXCEPT !.fall = "good"].sel = fs.sel
          /\ [fs EXCEPT !.fall = "good"].prim = fs.prim
      BY <1>1 DEF P24
    <2>2. pc = "fallback" /\ fs.sel = "old" /\ fs.prim = "good" /\ fallbackNew
      BY <1>4 DEF IInv, WrittenInv, InstallFallback, Before
    <2>3. CASE pc' = "trapRemount"
      BY <1>1, <2>2, <2>3, FailWritten
    <2>4. CASE pc' # "trapRemount"
      <3>1. fs' = [fs EXCEPT !.fall = "good"] /\ pc' = "stage"
        BY <1>4, <2>4 DEF InstallFallback, Change24
      <3>2. fs'.prim = "good" /\ fs'.fall = "good" /\ fs'.sel = "old"
        BY <2>1, <2>2, <3>1
      <3> QED BY <3>1, <3>2 DEF WrittenInv, Before
    <2> QED BY <2>3, <2>4
  <1>5. CASE StageSelector
    <2>1. \A v \in {"new", "torn"} :
             /\ [fs EXCEPT !.next = v].next = v /\ [fs EXCEPT !.next = v].sel = fs.sel
             /\ [fs EXCEPT !.next = v].prim = fs.prim /\ [fs EXCEPT !.next = v].fall = fs.fall
      BY <1>1 DEF P24
    <2>2. pc = "stage" /\ fs.sel = "old" /\ fs.prim = "good" /\ fs.fall = "good"
      BY <1>5 DEF IInv, WrittenInv, StageSelector, Before
    <2>3. fs'.fall = fs.fall
      BY <1>5, <2>1 DEF StageSelector, Change24, p24
    <2>4. CASE pc' = "trapRemount"
      BY <1>1, <2>3, <2>4, FailWritten
    <2>5. CASE pc' # "trapRemount"
      <3>1. fs' = [fs EXCEPT !.next = "new"] /\ pc' = "sync"
        BY <1>5, <2>5 DEF StageSelector, Change24
      <3>2. fs'.prim = "good" /\ fs'.fall = "good" /\ fs'.sel = "old" /\ fs'.next = "new"
        BY <2>1, <2>2, <3>1
      <3> QED BY <3>1, <3>2 DEF WrittenInv, Before
    <2> QED BY <2>4, <2>5
  <1>6. CASE SyncStaged \/ ProveRemount \/ RemountAgain
    <2>1. CASE pc' = "trapRemount"
      <3>1. UNCHANGED p24 \/ Sync24
        BY <1>6 DEF SyncStaged, ProveRemount, RemountRo, RemountAgain, RemountRw
      <3> QED BY <1>1, <2>1, <3>1, QuietWritten DEF Before
    <2>2. CASE pc' # "trapRemount" /\ (SyncStaged \/ ProveRemount)
      <3>1. /\ pc \in {"sync", "prove"} /\ pc' \in {"prove", "rwAgain"}
            /\ fs' = fs /\ disk24' = {fs} /\ dirty' = {}
        BY <2>2 DEF SyncStaged, ProveRemount, RemountRo, Sync24
      <3>2. fs.sel = "old" /\ fs.next = "new" /\ fs.prim = "good" /\ fs.fall = "good"
        BY <3>1 DEF IInv, WrittenInv, Before
      <3> QED BY <3>1, <3>2 DEF WrittenInv, Before
    <2>3. CASE pc' # "trapRemount" /\ RemountAgain
      <3>1. pc = "rwAgain" /\ pc' = "exch" /\ fs' = fs /\ disk24' = disk24 /\ dirty' = dirty
        BY <2>3 DEF RemountAgain, RemountRw, p24
      <3>2. fs.sel = "old" /\ fs.next = "new" /\ fs.prim = "good" /\ fs.fall = "good"
            /\ disk24 = {fs} /\ dirty = {}
        BY <3>1 DEF IInv, WrittenInv, Before
      <3> QED BY <3>1, <3>2 DEF WrittenInv, Before
    <2> QED BY <1>6, <2>1, <2>2, <2>3
  <1>7. CASE ExchangeSelector
    <2>1. /\ pc = "exch" /\ fs.sel = "old" /\ fs.next = "new" /\ fs.fall = "good" /\ dirty = {}
      BY <1>7 DEF IInv, WrittenInv, ExchangeSelector, Before
    <2>2. fs' = fs \/ /\ fs' = [fs EXCEPT !.sel = fs.next, !.next = fs.sel]
                      /\ dirty' = dirty \cup {}
      BY <1>7 DEF ExchangeSelector, Change24, p24
    <2>3. fs'.fall = "good"
      BY <1>1, <2>1, <2>2 DEF P24
    <2>4. CASE pc' = "trapRemount"
      BY <1>1, <2>1, <2>3, <2>4, FailWritten
    <2>5. CASE pc' # "trapRemount"
      <3>1. /\ fs' = [fs EXCEPT !.sel = fs.next, !.next = fs.sel] /\ dirty' = dirty \cup {}
            /\ pc' = "keep"
        BY <1>7, <2>5 DEF ExchangeSelector, Change24
      <3>2. fs'.sel = "new" /\ fs'.next = "old" /\ dirty' = {}
        BY <1>1, <2>1, <3>1 DEF P24
      <3> QED BY <2>3, <3>1, <3>2 DEF WrittenInv, Before
    <2> QED BY <2>4, <2>5
  <1>8. CASE KeepRollback
    <2>1. /\ pc = "keep" /\ fs.sel = "new" /\ fs.next = "old"
      BY <1>8 DEF IInv, WrittenInv, KeepRollback
    <2>2. fs' = fs \/ fs' = [fs EXCEPT !.rb = fs.next, !.next = "none"]
      BY <1>8 DEF KeepRollback, Change24, p24
    <2>3. fs'.sel = "new" /\ fs'.fall = fs.fall
      BY <1>1, <2>1, <2>2 DEF P24
    <2>4. CASE pc' = "trapRemount"
      BY <1>1, <2>3, <2>4, FailWritten
    <2>5. CASE pc' # "trapRemount"
      <3>1. pc' = "syncAgain"
        BY <1>8, <2>5 DEF KeepRollback
      <3> QED BY <1>1, <2>3, <3>1 DEF IInv, WrittenInv, Before, input
    <2> QED BY <2>4, <2>5
  <1>9. CASE SyncActivated \/ SealMount \/ LockNode \/ ArchiveRecord \/ ArchiveChecks \/ ArchiveSync
             \/ Finish
    <2>1. UNCHANGED p24 \/ Sync24
      BY <1>9 DEF SyncActivated, SealMount, RemountRo, LockNode, ArchiveRecord, ArchiveChecks,
             ArchiveSync, Archive, CheckArchived, SyncArchived, Finish, p24
    <2>2. pc' \in {"seal", "lock", "archive", "archived", "syncUser", "finish", "pass", "trapRemount"}
      BY <1>9 DEF SyncActivated, SealMount, LockNode, ArchiveRecord, ArchiveChecks,
             ArchiveSync, Archive, CheckArchived, SyncArchived, Finish
    <2> QED BY <1>1, <2>1, <2>2, QuietWritten DEF Before
  <1>10. CASE Trap
    <2>1. UNCHANGED p24 \/ Sync24
      BY <1>10 DEF Trap, TrapRemount, RemountRo, TrapLock, TrapLook, TrapArchive, TrapArchiveChecks,
             TrapArchiveSync, Archive, CheckArchived, SyncArchived, TrapLookAgain, TrapReport
    <2>2. pc' \in {"trapLock", "trapLook", "trapArchive", "trapArchived", "trapSync",
                   "trapLookAgain", "trapReport", "exited"}
      BY <1>10 DEF Trap, TrapRemount, TrapLock, TrapLook, TrapArchive, TrapArchiveChecks,
             TrapArchiveSync, Archive, CheckArchived, SyncArchived, TrapLookAgain, TrapReport
    <2> QED BY <1>1, <2>1, <2>2, QuietWritten DEF Before
  <1>11. CASE Interrupt \/ Kill \/ GuardRemount \/ GuardLock \/ HelperCheck \/ HelperRename
    <2>1. UNCHANGED p24 \/ Sync24
      BY <1>11 DEF Interrupt, Kill, GuardRemount, RemountRo, GuardLock, HelperCheck, HelperRename
    <2>2. pc' = pc \/ pc' \in {"trapRemount", "killed"}
      BY <1>11 DEF Interrupt, Kill, GuardRemount, GuardLock, HelperCheck, HelperRename
    <2> QED BY <1>1, <2>1, <2>2, QuietWritten DEF Before
  <1> QED BY <1>2, <1>3, <1>4, <1>5, <1>6, <1>7, <1>8, <1>9, <1>10, <1>11 DEF Next, Script

-----------------------------------------------------------------------------
(* The flags, the write window and the types.                               *)

\* Nothing is durable, seen or claimed before its step.
LEMMA FlagStep == IInv /\ Next => FlagInv'
  <1> SUFFICES ASSUME IInv, Next PROVE FlagInv'
    OBVIOUS
  <1> USE DEF IInv, FlagInv, Before, Goto, Fail, flags
  <1>1. CASE Preconditions \/ ArmGuard \/ OpenNode \/ RemountOpen \/ InstallBundle \/ InstallFallback
             \/ StageSelector \/ SyncStaged \/ ProveRemount \/ RemountAgain \/ ExchangeSelector
             \/ KeepRollback
    <2>1. UNCHANGED flags /\ pc \in Before \cup {"keep"}
      BY <1>1 DEF Preconditions, ArmGuard, OpenNode, RemountOpen, InstallBundle, InstallFallback,
             StageSelector, SyncStaged, ProveRemount, RemountAgain, RemountRw, ExchangeSelector,
             KeepRollback
    <2>2. pc' \in Before \cup {"keep", "syncAgain", "trapRemount", "exited"}
      BY <1>1 DEF Preconditions, ArmGuard, OpenNode, RemountOpen, InstallBundle, InstallFallback,
             StageSelector, SyncStaged, ProveRemount, RemountAgain, RemountRw, ExchangeSelector,
             KeepRollback
    <2>3. ~p24Durable /\ selState = "unread" /\ claim = "none"
      BY <2>1
    <2> QED BY <2>1, <2>2, <2>3
  <1>2. CASE SyncActivated \/ SealMount \/ LockNode
    <2>1. /\ pc \in {"syncAgain", "seal", "lock"}
          /\ (pc' \in {"seal", "lock", "archive"} /\ p24Durable') \/ pc' = "trapRemount"
          /\ UNCHANGED <<recordDurable, selState, claim>>
      BY <1>2 DEF SyncActivated, SealMount, LockNode
    <2>2. selState = "unread" /\ claim = "none"
      BY <2>1
    <2> QED BY <2>1, <2>2
  <1>3. CASE ArchiveRecord \/ ArchiveChecks \/ ArchiveSync \/ Finish
    <2>1. /\ pc \in {"archive", "archived", "syncUser", "finish"}
          /\ \/ pc' \in {"archived", "syncUser", "trapRemount"} /\ claim' = claim
             \/ pc' = "finish" /\ recordDurable' /\ claim' = claim
             \/ pc' = "pass" /\ pc = "finish" /\ recordDurable' = recordDurable
          /\ UNCHANGED <<p24Durable, selState>>
      BY <1>3 DEF ArchiveRecord, ArchiveChecks, ArchiveSync, Archive, CheckArchived, SyncArchived,
             Finish
    <2>2. selState = "unread" /\ claim = "none" /\ p24Durable
      BY <2>1
    <2>3. pc = "finish" => recordDurable
      OBVIOUS
    <2>4. CASE pc' \in {"archived", "syncUser", "trapRemount"}
      BY <2>1, <2>2, <2>4
    <2>5. CASE pc' = "finish"
      <3>1. recordDurable' /\ claim' = "none" /\ p24Durable' /\ selState' = "unread"
        BY <2>1, <2>2, <2>5
      <3> QED BY <2>5, <3>1
    <2>6. CASE pc' = "pass"
      <3>1. pc = "finish" /\ recordDurable' = recordDurable
        BY <2>1, <2>6
      <3>2. recordDurable' /\ p24Durable' /\ selState' = "unread"
        BY <2>1, <2>2, <2>3, <3>1
      <3> QED BY <2>6, <3>2
    <2> QED BY <2>1, <2>4, <2>5, <2>6
  <1>4. CASE TrapRemount \/ TrapLock \/ TrapLook
    <2>1. /\ pc \in {"trapRemount", "trapLock", "trapLook"}
          /\ UNCHANGED <<p24Durable, recordDurable, claim>>
          /\ \/ pc' \in {"trapLock", "trapLook"} /\ selState' = selState
             \/ pc' \in {"trapArchive", "trapReport"}
          /\ pc' = "trapArchive" => p24Durable
      BY <1>4 DEF TrapRemount, TrapLock, TrapLook
    <2>2. selState = "unread" /\ claim = "none"
      BY <2>1
    <2> QED BY <2>1, <2>2
  <1>5. CASE TrapArchive \/ TrapArchiveChecks \/ TrapArchiveSync \/ TrapLookAgain \/ TrapReport
    <2>1. /\ pc \in {"trapArchive", "trapArchived", "trapSync", "trapLookAgain", "trapReport"}
          /\ \/ pc' \in {"trapArchived", "trapSync", "trapLookAgain", "trapReport"} /\ claim' = claim
             \/ pc' = "exited"
          /\ pc' \in {"trapArchived", "trapSync"} => pc \in {"trapArchive", "trapArchived"}
          /\ UNCHANGED <<p24Durable, selState>>
      BY <1>5 DEF TrapArchive, TrapArchiveChecks, TrapArchiveSync, Archive, CheckArchived,
             SyncArchived, TrapLookAgain, TrapReport
    <2>2. claim = "none"
      BY <2>1
    <2> QED BY <2>1, <2>2
  <1>6. CASE Interrupt \/ Kill
    <2>1. pc' \in {"trapRemount", "killed"} /\ UNCHANGED flags /\ claim = "none"
          /\ (pc' = "trapRemount" => selState = "unread")
      BY <1>6 DEF Interrupt, Kill
    <2> QED BY <2>1
  <1>7. CASE GuardRemount \/ GuardLock \/ HelperCheck \/ HelperRename
    <2>1. UNCHANGED <<pc, p24Durable, recordDurable, selState, claim>>
      BY <1>7 DEF GuardRemount, GuardLock, HelperCheck, HelperRename
    <2> QED BY <2>1
  <1> QED BY <1>1, <1>2, <1>3, <1>4, <1>5, <1>6, <1>7 DEF Next, Script, Trap

\* The write window closes before the record is archived, and is guarded.
LEMMA WindowStep == IInv /\ Next => WindowInv'
  <1> SUFFICES ASSUME IInv, Next PROVE WindowInv'
    OBVIOUS
  <1> USE DEF IInv, WindowInv, WindowGuarded, Goto, Fail, window
  <1>1. ASSUME UNCHANGED <<nodeRO, guard, lockFailed>>,
               pc' \notin {"open", "archive", "archived", "syncUser", "finish", "pass"}
        PROVE  WindowInv'
    BY <1>1
  <1>2. CASE Preconditions \/ InstallBundle \/ InstallFallback \/ StageSelector \/ SyncStaged
             \/ ProveRemount \/ RemountOpen \/ RemountAgain \/ ExchangeSelector \/ KeepRollback
             \/ SyncActivated \/ SealMount
    BY <1>1, <1>2 DEF Preconditions, InstallBundle, InstallFallback, StageSelector, SyncStaged,
           ProveRemount, RemountOpen, RemountAgain, RemountRw, ExchangeSelector, KeepRollback,
           SyncActivated, SealMount
  <1>3. CASE ArmGuard \/ OpenNode
    BY <1>3 DEF ArmGuard, OpenNode
  <1>4. CASE LockNode
    BY <1>4 DEF LockNode
  <1>5. CASE ArchiveRecord \/ ArchiveChecks \/ ArchiveSync
    BY <1>5 DEF ArchiveRecord, ArchiveChecks, ArchiveSync, Archive, CheckArchived, SyncArchived
  <1>6. CASE Finish
    BY <1>6 DEF Finish
  <1>7. CASE TrapLock
    BY <1>7 DEF TrapLock
  <1>8. CASE TrapRemount \/ TrapLook \/ TrapLookAgain \/ TrapReport \/ Interrupt \/ Kill
    BY <1>1, <1>8 DEF TrapRemount, TrapLook, TrapLookAgain, TrapReport, Interrupt, Kill
  <1>9. CASE TrapArchive \/ TrapArchiveChecks \/ TrapArchiveSync
    BY <1>1, <1>9 DEF TrapArchive, TrapArchiveChecks, TrapArchiveSync, Archive, CheckArchived,
           SyncArchived
  <1>10. CASE GuardRemount \/ GuardLock
    BY <1>10 DEF GuardRemount, RemountRo, GuardLock
  <1>11. CASE HelperCheck \/ HelperRename
    BY <1>11 DEF HelperCheck, HelperRename
  <1> QED BY <1>2, <1>3, <1>4, <1>5, <1>6, <1>7, <1>8, <1>9, <1>10, <1>11 DEF Next, Script, Trap

-----------------------------------------------------------------------------
(* p23.                                                                     *)

MovesRecord ==
    /\ pc \in {"archive", "trapArchive"} /\ pc' \in {"archived", "trapArchived"}
    /\ user.rec # "none"
    /\ Change23([rec |-> "none", arch |-> user.rec])
    /\ UNCHANGED <<recordDurable, p24Durable, helper>>

Passes23 ==
    /\ UNCHANGED <<p23, recordDurable>>
    /\ p24Durable => p24Durable'
    /\ pc' \in {"syncUser", "trapSync"} => pc' = pc \/ user.rec = "none"
    /\ helper' = helper \/ (helper = "idle" /\ helper' = "checked" /\ user.rec = "old")

Settles23 ==
    /\ Sync23
    /\ pc' \notin {"syncUser", "trapSync"}
    /\ recordDurable' = recordDurable \/ pc \in {"syncUser", "trapSync"}
    /\ UNCHANGED <<p24Durable, helper>>

\* What a step does with the record: it moves it, syncs, publishes a new one or
\* leaves it.
LEMMA Kinds23 == ASSUME Next PROVE MovesRecord \/ Passes23 \/ Settles23 \/ HelperRename
  <1> USE DEF Goto, Fail, flags
  <1>1. CASE Preconditions \/ ArmGuard \/ OpenNode \/ RemountOpen \/ InstallBundle \/ InstallFallback
             \/ StageSelector \/ SyncStaged \/ ProveRemount \/ RemountAgain
    BY <1>1 DEF Preconditions, ArmGuard, OpenNode, RemountOpen, InstallBundle, InstallFallback,
           StageSelector, SyncStaged, ProveRemount, RemountAgain, RemountRw, Passes23
  <1>2. CASE ExchangeSelector \/ KeepRollback \/ SyncActivated \/ SealMount \/ LockNode \/ Finish
    BY <1>2 DEF ExchangeSelector, KeepRollback, SyncActivated, SealMount, LockNode, Finish, Passes23
  <1>3. CASE ArchiveRecord \/ TrapArchive
    BY <1>3 DEF ArchiveRecord, TrapArchive, Archive, Passes23, MovesRecord
  <1>4. CASE ArchiveChecks \/ TrapArchiveChecks
    BY <1>4 DEF ArchiveChecks, TrapArchiveChecks, CheckArchived, Passes23
  <1>5. CASE ArchiveSync \/ TrapArchiveSync
    BY <1>5 DEF ArchiveSync, TrapArchiveSync, SyncArchived, Passes23, Settles23
  <1>6. CASE TrapRemount
    BY <1>6 DEF TrapRemount, Passes23, Settles23
  <1>7. CASE TrapLock \/ TrapLook \/ TrapLookAgain \/ TrapReport \/ Interrupt \/ Kill
    BY <1>7 DEF TrapLock, TrapLook, TrapLookAgain, TrapReport, Interrupt, Kill, Passes23
  <1>8. CASE GuardRemount \/ GuardLock \/ HelperCheck
    BY <1>8 DEF GuardRemount, GuardLock, HelperCheck, Passes23
  <1> QED BY <1>1, <1>2, <1>3, <1>4, <1>5, <1>6, <1>7, <1>8 DEF Next, Script, Trap

\* The record goes only for a durable selector and comes back only by a helper.
LEMMA RecordStep == IInv /\ Next => RecordInv' /\ disk23' \cup {user'} \subseteq P23
                                    /\ helper' \in {"idle", "checked", "renamed"}
  <1> SUFFICES ASSUME IInv, Next
               PROVE  RecordInv' /\ disk23' \cup {user'} \subseteq P23
                      /\ helper' \in {"idle", "checked", "renamed"}
    OBVIOUS
  <1>1. user \in P23 /\ disk23 \subseteq P23 /\ helper \in {"idle", "checked", "renamed"}
    BY DEF IInv, TypeOK
  <1>2. oldRec' = oldRec
    BY Kinds24 DEF input
  <1>3. CASE Passes23
    <2>1. user' = user /\ disk23' = disk23 /\ recordDurable' = recordDurable
          /\ (p24Durable => p24Durable')
      BY <1>3 DEF Passes23, p23
    <2>2. oldRec = "none" => helper' = helper
      BY <1>3 DEF Passes23, IInv, RecordInv
    <2>3. helper' # "renamed" => helper # "renamed"
      BY <1>3 DEF Passes23
    <2>4. helper' \in {"idle", "checked", "renamed"}
      BY <1>1, <1>3 DEF Passes23
    <2>5. helper' # "renamed" /\ pc' \in {"syncUser", "trapSync"} => user.rec = "none"
      BY <1>3, <2>3 DEF Passes23, IInv, RecordInv
    <2> QED BY <1>1, <1>2, <2>1, <2>2, <2>3, <2>4, <2>5 DEF IInv, RecordInv
  <1>4. CASE Settles23
    <2>1. user' = user /\ disk23' = {user} /\ helper' = helper /\ p24Durable' = p24Durable
          /\ pc' \notin {"syncUser", "trapSync"}
      BY <1>4 DEF Settles23, Sync23
    <2>2. helper # "renamed" /\ recordDurable' => user.rec = "none"
      BY <1>4 DEF Settles23, IInv, RecordInv
    <2> QED BY <1>1, <1>2, <2>1, <2>2 DEF IInv, RecordInv
  <1>5. CASE MovesRecord
    <2>1. /\ user' = [rec |-> "none", arch |-> user.rec] /\ disk23' = disk23 \cup {user'}
          /\ helper' = helper /\ p24Durable' = p24Durable /\ recordDurable' = recordDurable
          /\ pc \in {"archive", "trapArchive"} /\ pc' \notin {"syncUser", "trapSync"}
          /\ user.rec # "none"
      BY <1>5 DEF MovesRecord, Change23
    <2>2. user' \in P23 /\ user'.rec = "none"
      BY <1>1, <2>1 DEF P23
    <2>3. p24Durable
      BY <2>1 DEF IInv, FlagInv
    <2>4. oldRec # "none"
      BY <2>1 DEF IInv, RecordInv
    <2> QED BY <1>1, <1>2, <2>1, <2>2, <2>3, <2>4 DEF IInv, RecordInv
  <1>6. CASE HelperRename
    <2>1. /\ user' = [user EXCEPT !.rec = "changed"] /\ helper = "checked" /\ helper' = "renamed"
          /\ disk23' = {user'} \/ disk23' = disk23 \cup {user'}
          /\ p24Durable' = p24Durable
      BY <1>6 DEF HelperRename, flags
    <2>2. user' \in P23 /\ user'.rec = "changed"
      BY <1>1, <2>1 DEF P23
    <2>3. oldRec # "none"
      BY <2>1 DEF IInv, RecordInv
    <2> QED BY <1>1, <1>2, <2>1, <2>2, <2>3 DEF IInv, RecordInv
  <1> QED BY <1>3, <1>4, <1>5, <1>6, Kinds23

-----------------------------------------------------------------------------
(* What the trap saw, and what the script says.                             *)

\* The steps that look or speak.
LEMMA KindsFlags ==
    ASSUME Next
    PROVE  \/ UNCHANGED <<selState, recState, claim>> /\ (pc' = "trapReport" => pc' = pc)
           \/ UNCHANGED <<selState, recState, claim>> /\ pc' = "trapLookAgain"
           \/ Finish \/ TrapLook \/ TrapLookAgain \/ TrapReport
  <1> USE DEF Goto, Fail, flags
  <1>1. CASE Preconditions \/ ArmGuard \/ OpenNode \/ RemountOpen \/ InstallBundle \/ InstallFallback
             \/ StageSelector \/ SyncStaged \/ ProveRemount \/ RemountAgain
    BY <1>1 DEF Preconditions, ArmGuard, OpenNode, RemountOpen, InstallBundle, InstallFallback,
           StageSelector, SyncStaged, ProveRemount, RemountAgain, RemountRw
  <1>2. CASE ExchangeSelector \/ KeepRollback \/ SyncActivated \/ SealMount \/ LockNode
    BY <1>2 DEF ExchangeSelector, KeepRollback, SyncActivated, SealMount, LockNode
  <1>3. CASE ArchiveRecord \/ TrapArchive
    BY <1>3 DEF ArchiveRecord, TrapArchive, Archive
  <1>4. CASE ArchiveChecks \/ TrapArchiveChecks
    BY <1>4 DEF ArchiveChecks, TrapArchiveChecks, CheckArchived
  <1>5. CASE ArchiveSync \/ TrapArchiveSync
    BY <1>5 DEF ArchiveSync, TrapArchiveSync, SyncArchived
  <1>6. CASE TrapRemount \/ TrapLock \/ Interrupt \/ Kill
    BY <1>6 DEF TrapRemount, TrapLock, Interrupt, Kill
  <1>7. CASE GuardRemount \/ GuardLock \/ HelperCheck \/ HelperRename
    BY <1>7 DEF GuardRemount, GuardLock, HelperCheck, HelperRename
  <1> QED BY <1>1, <1>2, <1>3, <1>4, <1>5, <1>6, <1>7 DEF Next, Script, Trap

\* What the trap saw of the selector and the record stays so.
LEMMA SeenStep == IInv /\ Next => SeenInv'
  <1> SUFFICES ASSUME IInv, Next PROVE SeenInv'
    OBVIOUS
  <1>1. oldRec' = oldRec
    BY Kinds24 DEF input
  <1>2. selState # "unread" => fs' = fs
    <2>1. CASE pc \in Before \cup {"keep", "syncAgain"}
      BY <2>1 DEF IInv, FlagInv, Before
    <2>2. CASE pc \notin Before \cup {"keep", "syncAgain"}
      BY <2>2, Kinds24 DEF InstallBundle, InstallFallback, StageSelector, ExchangeSelector,
             KeepRollback, SyncActivated, Sync24, p24, Before
    <2> QED BY <2>1, <2>2
  <1>3. CASE TrapLook
    <2>1. /\ selState' \in {SelectorNow, "unknown"} /\ recState' \in {RecordNow, "unknown"}
          /\ fs' = fs /\ user' = user
      BY <1>3 DEF TrapLook, p24, p23
    <2>2. selState' = "previous" => fs.sel = "old"
      BY <2>1 DEF SelectorNow
    <2>3. /\ recState' = "absent" => oldRec = "none"
          /\ recState' = "previous" => user.rec # "none"
      BY <2>1 DEF RecordNow
    <2> QED BY <1>1, <2>1, <2>2, <2>3 DEF SeenInv
  <1>4. CASE TrapLookAgain
    <2>1. /\ selState' = selState /\ recState' \in {RecordNow, "unknown"}
          /\ fs' = fs /\ user' = user
      BY <1>4 DEF TrapLookAgain, p24, p23
    <2>2. /\ recState' = "absent" => oldRec = "none"
          /\ recState' = "previous" => user.rec # "none"
      BY <2>1 DEF RecordNow
    <2> QED BY <1>1, <2>1, <2>2 DEF IInv, SeenInv
  <1>5. CASE Finish \/ TrapReport
    <2>1. selState' = selState /\ recState' = recState /\ fs' = fs /\ pc' # "trapReport"
      BY <1>5 DEF Finish, TrapReport, p24, Goto
    <2> QED BY <1>1, <2>1 DEF IInv, SeenInv
  <1>6. CASE UNCHANGED <<selState, recState, claim>> /\ (pc' = "trapReport" => pc' = pc)
    <2>1. selState' = "previous" => fs'.sel = "old"
      BY <1>2, <1>6 DEF IInv, SeenInv
    <2>2. ASSUME pc' = "trapReport", helper' # "renamed" PROVE helper # "renamed" /\ user' = user
      BY <1>6, <2>2, Kinds23
         DEF MovesRecord, Passes23, Settles23, Sync23, HelperRename, p23
    <2> QED BY <1>1, <1>6, <2>1, <2>2 DEF IInv, SeenInv
  <1>7. CASE UNCHANGED <<selState, recState, claim>> /\ pc' = "trapLookAgain"
    <2>1. selState' = "previous" => fs'.sel = "old"
      BY <1>2, <1>7 DEF IInv, SeenInv
    <2> QED BY <1>1, <1>7, <2>1 DEF IInv, SeenInv
  <1> QED BY <1>3, <1>4, <1>5, <1>6, <1>7, KindsFlags

\* p24 holds the new selector, durable and with all that it selects.
LEMMA DurableDisk ==
    ASSUME IInv, p24Durable
    PROVE  disk24 = {fs} /\ fs.sel = "new" /\ fs.prim = "good" /\ fs.fall = "good"
  BY DEF IInv, DiskInv, Complete

\* What the script says about the next boot holds.
LEMMA ClaimStep == IInv /\ Next => ClaimsHold'
  <1> SUFFICES ASSUME IInv, Next, claim' \in {"unchanged", "trial", "fallback"},
                      helper' # "renamed"
               PROVE  \A p \in disk24', u \in disk23' : NextBoot(p, u)' = claim'
    BY DEF ClaimsHold
  <1>1. oldRec' = oldRec
    BY Kinds24 DEF input
  <1>2. CASE Finish
    <2>1. /\ disk24' = disk24 /\ disk23' = disk23 /\ helper' = helper /\ claim' = "trial"
          /\ pc = "finish"
      BY <1>2 DEF Finish, p24, p23
    <2>2. p24Durable /\ recordDurable
      BY <2>1 DEF IInv, FlagInv
    <2>3. \A u \in disk23 : u.rec = "none"
      BY <2>1, <2>2 DEF IInv, RecordInv
    <2>4. disk24 = {fs} /\ fs.sel = "new" /\ fs.prim = "good" /\ fs.fall = "good"
      BY <2>2, DurableDisk
    <2> QED BY <2>1, <2>3, <2>4 DEF NextBoot
  <1>3. CASE TrapReport
    <2>1. /\ disk24' = disk24 /\ disk23' = disk23 /\ helper' = helper /\ pc = "trapReport"
      BY <1>3 DEF TrapReport, p24, p23
    <2>2. \/ /\ claim' = "unchanged" /\ selState = "previous"
          \/ /\ claim' = "trial" /\ p24Durable /\ (recState = "absent" \/ recordDurable)
          \/ /\ claim' = "fallback" /\ p24Durable /\ recState = "previous"
      BY <1>3 DEF TrapReport
    <2>3. CASE claim' = "unchanged" /\ selState = "previous"
      <3>1. fs.sel = "old"
        BY <2>3 DEF IInv, SeenInv
      <3>2. (\A p \in disk24 : p.sel = "old") /\ ~p24Durable
        BY <3>1 DEF IInv, DiskInv
      <3>3. \A u \in disk23 : ~(u.rec = "none" /\ oldRec # "none")
        BY <3>2 DEF IInv, RecordInv
      <3> QED BY <1>1, <2>1, <2>3, <3>2, <3>3 DEF NextBoot
    <2>4. CASE claim' = "trial" /\ p24Durable /\ (recState = "absent" \/ recordDurable)
      <3>1. \A u \in disk23 : u.rec = "none"
        BY <2>1, <2>4 DEF IInv, SeenInv, RecordInv
      <3>2. disk24 = {fs} /\ fs.sel = "new" /\ fs.prim = "good" /\ fs.fall = "good"
        BY <2>4, DurableDisk
      <3> QED BY <2>1, <2>4, <3>1, <3>2 DEF NextBoot
    <2>5. CASE claim' = "fallback" /\ p24Durable /\ recState = "previous"
      <3>1. \A u \in disk23 : u.rec # "none"
        BY <2>1, <2>5 DEF IInv, SeenInv, RecordInv
      <3>2. disk24 = {fs} /\ fs.sel = "new" /\ fs.prim = "good" /\ fs.fall = "good"
        BY <2>5, DurableDisk
      <3> QED BY <2>1, <2>5, <3>1, <3>2 DEF NextBoot
    <2> QED BY <2>2, <2>3, <2>4, <2>5
  <1>4. CASE claim' = claim
    <2>1. pc \in {"pass", "exited"}
      BY <1>4 DEF IInv, FlagInv
    <2>2. disk24' \subseteq disk24
      <3>1. UNCHANGED p24 \/ Sync24
        BY <2>1, Kinds24 DEF InstallBundle, InstallFallback, StageSelector, ExchangeSelector,
               KeepRollback, SyncActivated
      <3>2. fs \in disk24
        BY DEF IInv, DiskInv
      <3>3. disk24' = disk24 \/ disk24' = {fs}
        BY <3>1 DEF Sync24, p24
      <3> QED BY <3>2, <3>3
    <2>3. disk23' \subseteq disk23 /\ helper # "renamed"
      <3>1. CASE Passes23
        BY <3>1 DEF Passes23, p23
      <3>2. CASE Settles23
        BY <3>2 DEF Settles23, Sync23, IInv, RecordInv
      <3>3. ~MovesRecord /\ ~HelperRename
        BY <2>1 DEF MovesRecord, HelperRename
      <3> QED BY <3>1, <3>2, <3>3, Kinds23
    <2> QED BY <1>1, <1>4, <2>1, <2>2, <2>3 DEF IInv, ClaimsHold, NextBoot
  <1>5. CASE TrapLook \/ TrapLookAgain
    <2>1. claim' = claim
      BY <1>5 DEF TrapLook, TrapLookAgain
    <2> QED BY <1>4, <2>1
  <1> QED BY <1>2, <1>3, <1>4, <1>5, KindsFlags

-----------------------------------------------------------------------------
(* The theorems about the script.                                           *)

\* The types of the variables that are neither p24 nor p23.
LEMMA TypeStep == IInv /\ Next => TypeOK'
  <1> SUFFICES ASSUME IInv, Next PROVE TypeOK'
    OBVIOUS
  <1> USE DEF Goto, Fail, flags, window
  <1>1. fallbackNew' \in BOOLEAN /\ oldRec' \in {"none", "old"}
    BY Kinds24 DEF IInv, TypeOK, input
  <1>2. pc' \in Steps
    <2>1. CASE Script
      BY <2>1 DEF Script, Preconditions, ArmGuard, OpenNode, RemountOpen, InstallBundle,
             InstallFallback, StageSelector, SyncStaged, ProveRemount, RemountAgain, RemountRw,
             ExchangeSelector, KeepRollback, SyncActivated, SealMount, LockNode, ArchiveRecord,
             ArchiveChecks, ArchiveSync, Archive, CheckArchived, SyncArchived, Finish, Steps
    <2>2. CASE Trap
      BY <2>2 DEF Trap, TrapRemount, TrapLock, TrapLook, TrapArchive, TrapArchiveChecks,
             TrapArchiveSync, Archive, CheckArchived, SyncArchived, TrapLookAgain, TrapReport, Steps
    <2>3. CASE Interrupt \/ Kill
      BY <2>3 DEF Interrupt, Kill, Steps
    <2>4. CASE GuardRemount \/ GuardLock \/ HelperCheck \/ HelperRename
      BY <2>4 DEF GuardRemount, GuardLock, HelperCheck, HelperRename, IInv, TypeOK
    <2> QED BY <2>1, <2>2, <2>3, <2>4 DEF Next
  <1>3. /\ mount' \in {"ro", "rw"} /\ nodeRO' \in BOOLEAN /\ lockFailed' \in BOOLEAN
        /\ guard' \in {"none", "armed", "remounted", "done", "stopped"}
    <2>0. /\ mount \in {"ro", "rw"} /\ nodeRO \in BOOLEAN /\ lockFailed \in BOOLEAN
          /\ guard \in {"none", "armed", "remounted", "done", "stopped"}
      BY DEF IInv, TypeOK
    <2>1. CASE ArmGuard \/ OpenNode \/ RemountOpen \/ RemountAgain
      BY <2>0, <2>1 DEF ArmGuard, OpenNode, RemountOpen, RemountAgain, RemountRw
    <2>2. CASE ProveRemount \/ SealMount \/ TrapRemount \/ GuardRemount
      BY <2>0, <2>2 DEF ProveRemount, SealMount, TrapRemount, GuardRemount, RemountRo
    <2>3. CASE LockNode \/ TrapLock \/ GuardLock \/ Finish
      BY <2>0, <2>3 DEF LockNode, TrapLock, GuardLock, Finish, StopGuard
    <2>4. CASE ArchiveRecord \/ ArchiveChecks \/ ArchiveSync \/ TrapArchive \/ TrapArchiveChecks
               \/ TrapArchiveSync
      BY <2>0, <2>4 DEF ArchiveRecord, ArchiveChecks, ArchiveSync, TrapArchive, TrapArchiveChecks,
             TrapArchiveSync, Archive, CheckArchived, SyncArchived
    <2>5. CASE Preconditions \/ InstallBundle \/ InstallFallback \/ StageSelector \/ SyncStaged
               \/ ExchangeSelector \/ KeepRollback \/ SyncActivated
      BY <2>0, <2>5 DEF Preconditions, InstallBundle, InstallFallback, StageSelector, SyncStaged,
             ExchangeSelector, KeepRollback, SyncActivated
    <2>6. CASE TrapLook \/ TrapLookAgain \/ TrapReport \/ Interrupt \/ Kill \/ HelperCheck
               \/ HelperRename
      BY <2>0, <2>6 DEF TrapLook, TrapLookAgain, TrapReport, Interrupt, Kill, HelperCheck,
             HelperRename
    <2> QED BY <2>1, <2>2, <2>3, <2>4, <2>5, <2>6 DEF Next, Script, Trap
  <1>4. p24Durable' \in BOOLEAN
    <2>1. p24Durable' = p24Durable \/ p24Durable' = TRUE
      BY Kinds24 DEF InstallBundle, InstallFallback, StageSelector, ExchangeSelector, KeepRollback,
             SyncActivated
    <2> QED BY <2>1 DEF IInv, TypeOK
  <1>5. recordDurable' \in BOOLEAN
    <2>1. CASE ArchiveSync \/ TrapArchiveSync
      <3>1. recordDurable' = recordDurable \/ recordDurable' = TRUE
        BY <2>1 DEF ArchiveSync, TrapArchiveSync, SyncArchived
      <3> QED BY <3>1 DEF IInv, TypeOK
    <2>2. CASE ~(ArchiveSync \/ TrapArchiveSync)
      <3>1. recordDurable' = recordDurable
        <4>1. CASE Script
          BY <2>2, <4>1 DEF Script, Preconditions, ArmGuard, OpenNode, RemountOpen, InstallBundle,
                 InstallFallback, StageSelector, SyncStaged, ProveRemount, RemountAgain, RemountRw,
                 ExchangeSelector, KeepRollback, SyncActivated, SealMount, LockNode, ArchiveRecord,
                 ArchiveChecks, Archive, CheckArchived, Finish
        <4>2. CASE Trap
          BY <2>2, <4>2 DEF Trap, TrapRemount, TrapLock, TrapLook, TrapArchive, TrapArchiveChecks,
                 Archive, CheckArchived, TrapLookAgain, TrapReport
        <4>3. CASE Interrupt \/ Kill \/ GuardRemount \/ GuardLock \/ HelperCheck \/ HelperRename
          BY <4>3 DEF Interrupt, Kill, GuardRemount, GuardLock, HelperCheck, HelperRename
        <4> QED BY <4>1, <4>2, <4>3 DEF Next
      <3> QED BY <3>1 DEF IInv, TypeOK
    <2> QED BY <2>1, <2>2
  <1>6. /\ selState' \in {"unread", "previous", "new", "unknown"}
        /\ recState' \in {"unread", "previous", "absent", "archived", "unknown"}
        /\ claim' \in {"none", "unchanged", "trial", "fallback", "undetermined"}
    <2>0. /\ selState \in {"unread", "previous", "new", "unknown"}
          /\ recState \in {"unread", "previous", "absent", "archived", "unknown"}
          /\ claim \in {"none", "unchanged", "trial", "fallback", "undetermined"}
      BY DEF IInv, TypeOK
    <2>1. /\ SelectorNow \in {"previous", "new", "unknown"}
          /\ RecordNow \in {"previous", "absent", "archived", "unknown"}
      BY DEF SelectorNow, RecordNow
    <2>2. CASE Finish \/ TrapReport
      BY <2>0, <2>2 DEF Finish, TrapReport
    <2>3. CASE TrapLook \/ TrapLookAgain
      BY <2>0, <2>1, <2>3 DEF TrapLook, TrapLookAgain
    <2> QED BY <2>0, <2>2, <2>3, KindsFlags
  <1> QED BY <1>1, <1>2, <1>3, <1>4, <1>5, <1>6, Type24, RecordStep DEF TypeOK

\* The invariant holds when the script is started.
LEMMA InitInv == Init => IInv
  <1> SUFFICES ASSUME Init PROVE IInv
    OBVIOUS
  <1>1. /\ fs \in P24 /\ fs.sel = "old" /\ (~fallbackNew => fs.fall = "good")
    <2>1. fallbackNew \in BOOLEAN
      BY DEF Init
    <2>2. (IF fallbackNew THEN "none" ELSE "good") \in {"none", "partial", "good"}
      OBVIOUS
    <2>3. PICK f : f = IF fallbackNew THEN "none" ELSE "good"
      OBVIOUS
    <2>4. fs = [sel |-> "old", next |-> "none", rb |-> "none", prim |-> "none", fall |-> f]
      BY <2>3 DEF Init
    <2> QED BY <2>2, <2>3, <2>4 DEF P24
  <1>2. user \in P23 /\ user.rec = oldRec
    <2>1. user = [rec |-> oldRec, arch |-> "none"] /\ oldRec \in {"none", "old"}
      BY DEF Init
    <2> QED BY <2>1 DEF P23
  <1>3. /\ pc = "check" /\ disk24 = {fs} /\ dirty = {} /\ disk23 = {user} /\ nodeRO = TRUE
        /\ mount = "ro" /\ guard = "none" /\ p24Durable = FALSE /\ recordDurable = FALSE
        /\ selState = "unread" /\ recState = "unread" /\ claim = "none" /\ helper = "idle"
        /\ lockFailed = FALSE /\ fallbackNew \in BOOLEAN /\ oldRec \in {"none", "old"}
    BY DEF Init
  <1>4. TypeOK
    BY <1>1, <1>2, <1>3 DEF TypeOK, Steps
  <1>5. DiskInv /\ WrittenInv
    BY <1>1, <1>3 DEF DiskInv, WrittenInv, Before
  <1>6. FlagInv /\ WindowInv
    BY <1>3 DEF FlagInv, WindowInv, WindowGuarded
  <1>7. RecordInv /\ SeenInv /\ ClaimsHold
    BY <1>2, <1>3 DEF RecordInv, SeenInv, ClaimsHold
  <1> QED BY <1>4, <1>5, <1>6, <1>7 DEF IInv

\* Every step of the script, the guard and the helper keeps it.
LEMMA NextInv == IInv /\ [Next]_vars => IInv'
  <1>1. IInv /\ Next => IInv'
    BY TypeStep, DiskStep, WrittenStep, FlagStep, WindowStep, RecordStep, SeenStep, ClaimStep
       DEF IInv
  <1>2. IInv /\ UNCHANGED vars => IInv'
    <2> SUFFICES ASSUME IInv, UNCHANGED vars PROVE IInv'
      OBVIOUS
    <2>1. TypeOK'
      <3>1. TypeOK /\ UNCHANGED vars
        BY DEF IInv
      <3> QED BY <3>1 DEF vars, TypeOK
    <2>2. DiskInv' /\ WrittenInv' /\ FlagInv'
      <3>1. DiskInv /\ WrittenInv /\ FlagInv
        BY DEF IInv
      <3> QED BY <3>1 DEF vars, DiskInv, WrittenInv, FlagInv, Complete
    <2>3. WindowInv' /\ RecordInv' /\ SeenInv'
      BY DEF vars, IInv, WindowInv, WindowGuarded, RecordInv, SeenInv
    <2>4. ClaimsHold'
      BY DEF vars, IInv, ClaimsHold, NextBoot
    <2> QED BY <2>1, <2>2, <2>3, <2>4 DEF IInv
  <1> QED BY <1>1, <1>2

\* What follows from the invariant.
LEMMA InvBoots == IInv => EveryCrashBoots
  <1> SUFFICES ASSUME IInv PROVE EveryCrashBoots
    OBVIOUS
  <1>1. ASSUME NEW p \in disk24, NEW u \in disk23
        PROVE  NextBoot(p, u) \in {"unchanged", "trial", "fallback"}
    <2>1. CASE p.sel = "old"
      <3>1. ~p24Durable
        BY <2>1 DEF IInv, DiskInv
      <3>2. u.rec # "none" \/ oldRec = "none"
        BY <3>1 DEF IInv, RecordInv
      <3> QED BY <2>1, <3>2 DEF NextBoot
    <2>2. CASE Complete(p)
      BY <2>2 DEF Complete, NextBoot
    <2> QED BY <2>1, <2>2 DEF IInv, DiskInv
  <1>2. \A p \in disk24 \cup {fs} : p.sel = "old" \/ Complete(p)
    BY DEF IInv, DiskInv
  <1> QED BY <1>1, <1>2 DEF EveryCrashBoots, Complete

\* The invariant holds at every moment of an install.
THEOREM Invariance == Spec => []IInv
  BY InitInv, NextInv, PTL DEF Spec

\* Every variable of the install has its type.
THEOREM TypeCorrect == Spec => []TypeOK
  <1>1. IInv => TypeOK
    BY DEF IInv
  <1> QED BY <1>1, Invariance, PTL

\* Whatever command fails, whoever is killed and whenever power is lost, the
\* loader finds a system to boot and repeats no trial.
THEOREM AlwaysBoots == Spec => []EveryCrashBoots
  BY Invariance, InvBoots, PTL

\* The last word of the script about the next boot is true.
THEOREM LastWordHolds == Spec => []ClaimsHold
  <1>1. IInv => ClaimsHold
    BY DEF IInv
  <1> QED BY <1>1, Invariance, PTL

\* An open p24 has a guard that will lock it, unless blockdev failed: the
\* reason why the write window closes.
THEOREM WindowIsGuarded == Spec => []WindowGuarded
  <1>1. IInv => WindowGuarded
    BY DEF IInv, WindowInv
  <1> QED BY <1>1, Invariance, PTL

-----------------------------------------------------------------------------
(* The host.                                                                *)

\* Without a session nothing happened on the phone but the helper's work, no
\* session is made before the marker, the marker is created by one step only,
\* and the host reads back after PASS only.
HostInv ==
    /\ link = "none" => /\ pc = "check" /\ guard = "none" /\ nodeRO /\ mount = "ro"
                        /\ fs.sel = "old" /\ fs.prim = "none" /\ user.arch = "none"
    /\ ~entered => link = "none" /\ host \notin {"stage", "wait", "read", "remove"}
    /\ host \in {"inspect", "transfer", "preflight", "enter"} => ~entered
    /\ host = "read" \/ report = "PASS" => pc = "pass"

\* A step of the host leaves the phone alone, every other is one of the phone.
LEMMA HostSteps == HostNext => (Host /\ UNCHANGED vars) \/ (Next /\ UNCHANGED hostVars)
  <1>1. Host => UNCHANGED vars
    BY DEF Host, Inspect, Transfer, Preflight, Enter, Stage, Answered, LoseLink, ReadBack, Remove,
           KillHost
  <1>2. OnPhone \/ Beside => Next /\ UNCHANGED hostVars
    BY DEF OnPhone, Beside, Next
  <1> QED BY <1>1, <1>2 DEF HostNext

\* After PASS the script does nothing more.
LEMMA PassIsLast == pc = "pass" => ~(Script \/ Trap \/ Interrupt \/ Kill)
  <1> SUFFICES ASSUME pc = "pass" PROVE ~(Script \/ Trap \/ Interrupt \/ Kill)
    OBVIOUS
  <1>1. ~Script
    BY DEF Script, Preconditions, ArmGuard, OpenNode, RemountOpen, InstallBundle,
           InstallFallback, StageSelector, SyncStaged, ProveRemount, RemountAgain, RemountRw,
           ExchangeSelector, KeepRollback, SyncActivated, SealMount, LockNode, ArchiveRecord,
           ArchiveChecks, ArchiveSync, Archive, CheckArchived, SyncArchived, Finish
  <1>2. ~Trap
    BY DEF Trap, TrapRemount, TrapLock, TrapLook, TrapArchive, TrapArchiveChecks,
           TrapArchiveSync, Archive, CheckArchived, SyncArchived, TrapLookAgain, TrapReport
  <1>3. ~Interrupt /\ ~Kill
    BY DEF Interrupt, Kill
  <1> QED BY <1>1, <1>2, <1>3

\* Host and phone together keep it.
LEMMA HostStepInv == IInv /\ HostInv /\ [HostNext]_allVars => HostInv'
  <1> SUFFICES ASSUME IInv, HostInv, [HostNext]_allVars PROVE HostInv'
    OBVIOUS
  <1>1. ASSUME UNCHANGED vars PROVE UNCHANGED <<pc, guard, nodeRO, mount, fs, user>>
    BY <1>1 DEF vars
  <1>2. CASE Inspect \/ Transfer \/ Preflight \/ Enter
    <2>1. UNCHANGED vars
      BY <1>2 DEF Inspect, Transfer, Preflight, Enter
    <2>2. CASE Inspect \/ Transfer \/ Preflight
      <3>1. /\ ~entered /\ UNCHANGED <<entered, report, link>>
            /\ host' \in {"transfer", "preflight", "enter", "failed"}
        BY <2>2 DEF Inspect, Transfer, Preflight, HostGoes, HostInv
      <3> QED BY <1>1, <2>1, <3>1 DEF HostInv
    <2>3. CASE Enter
      BY <1>1, <2>1, <2>3 DEF Enter, HostGoes, HostInv
    <2> QED BY <1>2, <2>2, <2>3
  <1>3. CASE Stage \/ LoseLink \/ KillHost
    <2>1. UNCHANGED vars
      BY <1>3 DEF Stage, LoseLink, KillHost
    <2> QED BY <1>1, <1>3, <2>1 DEF Stage, LoseLink, KillHost, HostGoes, HostInv
  <1>4. CASE Answered \/ ReadBack \/ Remove
    <2>1. UNCHANGED vars
      BY <1>4 DEF Answered, ReadBack, Remove
    <2> QED BY <1>1, <1>4, <2>1 DEF Answered, ReadBack, Remove, HostGoes, HostInv
  <1>5. CASE OnPhone
    <2>1. link # "none" /\ pc # "pass" /\ UNCHANGED <<host, entered, report, link>>
      BY <1>5, PassIsLast DEF OnPhone, hostVars
    <2> QED BY <2>1 DEF HostInv
  <1>6. CASE Beside
    <2>1. UNCHANGED <<pc, host, entered, report, link>>
      BY <1>6 DEF Beside, GuardRemount, GuardLock, HelperCheck, HelperRename, hostVars
    <2>2. CASE link # "none"
      BY <2>1, <2>2 DEF HostInv
    <2>3. CASE link = "none"
      <3>1. /\ guard' = guard /\ nodeRO' = nodeRO /\ mount' = mount /\ fs' = fs
            /\ user' = user \/ user' = [user EXCEPT !.rec = "changed"]
        BY <1>6, <2>3 DEF HostInv, Beside, GuardRemount, GuardLock, HelperCheck, HelperRename,
               window, p24, p23
      <3>2. user'.arch = user.arch
        BY <3>1 DEF IInv, TypeOK, P23
      <3> QED BY <2>1, <3>1, <3>2 DEF HostInv
    <2> QED BY <2>2, <2>3
  <1>7. CASE UNCHANGED allVars
    BY <1>1, <1>7 DEF allVars, hostVars, HostInv
  <1> QED BY <1>2, <1>3, <1>4, <1>5, <1>6, <1>7 DEF HostNext, Host

\* Both invariants hold at every moment of an install from the host.
THEOREM HostInvariance == HostSpec => [](IInv /\ HostInv)
  <1>1. HostInit => IInv /\ HostInv
    <2> SUFFICES ASSUME HostInit PROVE IInv /\ HostInv
      OBVIOUS
    <2>1. Init /\ host = "inspect" /\ entered = FALSE /\ report = "none" /\ link = "none"
      BY DEF HostInit
    <2>2. /\ pc = "check" /\ guard = "none" /\ nodeRO = TRUE /\ mount = "ro"
          /\ fs.sel = "old" /\ fs.prim = "none" /\ user.arch = "none"
      BY <2>1 DEF Init
    <2> QED BY <2>1, <2>2, InitInv DEF HostInv
  <1>2. IInv /\ [HostNext]_allVars => IInv'
    <2>1. [HostNext]_allVars => [Next]_vars
      BY HostSteps DEF allVars
    <2> QED BY <2>1, NextInv
  <1> QED BY <1>1, <1>2, HostStepInv, PTL DEF HostSpec

\* The host's evidence is true of the phone, whether the session breaks, is
\* given up or the host program is killed.
THEOREM EvidenceIsAlwaysTrue == HostSpec => []EvidenceIsTrue
  <1>1. IInv /\ HostInv => EvidenceIsTrue
    <2> SUFFICES ASSUME IInv, HostInv PROVE EvidenceIsTrue
      OBVIOUS
    <2>1. ~entered => /\ nodeRO /\ mount = "ro" /\ fs.sel = "old" /\ fs.prim = "none"
                      /\ user.arch = "none"
      BY DEF HostInv
    <2>2. ASSUME report = "PASS"
          PROVE  /\ nodeRO /\ mount = "ro" /\ fs.sel = "new"
                 /\ helper # "renamed" => \A p \in disk24, u \in disk23 : NextBoot(p, u) = "trial"
      <3>1. pc = "pass"
        BY <2>2 DEF HostInv
      <3>2. p24Durable /\ recordDurable
        BY <3>1 DEF IInv, FlagInv
      <3>3. nodeRO /\ mount = "ro"
        BY <3>1 DEF IInv, WindowInv
      <3>4. disk24 = {fs} /\ fs.sel = "new" /\ fs.prim = "good" /\ fs.fall = "good"
        BY <3>2, DurableDisk
      <3>5. helper # "renamed" => \A u \in disk23 : u.rec = "none"
        BY <3>2 DEF IInv, RecordInv
      <3> QED BY <3>3, <3>4, <3>5 DEF NextBoot
    <2> QED BY <2>1, <2>2 DEF EvidenceIsTrue
  <1> QED BY <1>1, HostInvariance, PTL

\* Started by the host, the script keeps what it keeps alone.
THEOREM HostKeepsPhoneSafe == HostSpec => [](EveryCrashBoots /\ ClaimsHold)
  <1>1. IInv => ClaimsHold
    BY DEF IInv
  <1> QED BY <1>1, HostInvariance, InvBoots, PTL
=============================================================================
