------------------------------ MODULE NoteFold ------------------------------
(***************************************************************************)
(* One note: its file on disk, its Yjs document, the server's document,    *)
(* and what carries edits between them (engine.ts: handleLocalModify,      *)
(* foldDiskEditsIntoDoc, writeDocSnapshot, applyCatchupDoc,                *)
(* handleServerYjsUpdate; doc-manager.ts; text-merge.ts).                  *)
(*                                                                         *)
(* A text says how often each line is in it. A document is the set of      *)
(* insertions it has and the set of those that are deleted, which merge by *)
(* union as Yjs documents do. Equal texts have equal hashes.               *)
(*                                                                         *)
(* Left out: the note deleted, renamed or of another history (DocStores),  *)
(* and updates that Yjs parks because an earlier one is missing.           *)
(***************************************************************************)
EXTENDS Integers, FiniteSets, FiniteSetsExt

CONSTANTS
    First,          \* the line the note has at the start
    Mine, Theirs,   \* lines the user and a teammate may type
    NoText,         \* no text
    SamePlace,      \* the teammate types where the user types
    MaxSaves,       \* bound: saves of the file
    MaxTheirs,      \* bound: edits of the teammate
    MaxFailures,    \* bound: crashes and connections lost
    FoldAttempts    \* SNAPSHOT_FOLD_ATTEMPTS

Line == {First} \cup Mine \cup Theirs
Text == [Line -> Nat]
\* An insertion: its line and a number of its own.
Op == Line \X Nat
Doc == [ins : SUBSET Op, del : SUBSET Op]

ASSUME NoteAssumption ==
    /\ First \notin Mine /\ First \notin Theirs /\ Mine \cap Theirs = {}
    /\ NoText \notin Text /\ SamePlace \in BOOLEAN
    /\ MaxSaves \in Nat /\ MaxTheirs \in Nat /\ MaxFailures \in Nat
    /\ FoldAttempts \in Nat \ {0}

VARIABLES
    disk,       \* the text of the file
    doc,        \* the document in memory, or what the store would load
    open,       \* docManager.has
    mark,       \* entry.written: the mark of the last write to disk, NoText for none
    store,      \* the y-indexeddb store: document and mark
    rec,        \* the file's record in memory: foldedHash and contentHash
    saved,      \* the same in state.json
    base,       \* foldBases
    skipped,    \* skippedDocs
    job,        \* what holds the path's lock, and how far it is
    modifyDue,  \* a modify event of the watcher is on its way
    snapDue,    \* a snapshot is scheduled or waits for the lock
    on,         \* the plugin runs
    link,       \* connected
    checked,    \* lineageChecked
    catchup,    \* applyCatchupDoc: how far it is, and the server's document in the batch
    server,     \* the server's document
    up,         \* updates on their way to the server
    down,       \* updates on their way to this device
    \* History.
    typed,      \* lines of the user's so far
    removed,    \* lines the user removed from a disk that had them
    blind,      \* lines saved after the last look of a write under way
    coarse,     \* a fold went without a base
    torn,       \* a crash lost the record of a fold, and no mark stands for it
    overtaken,  \* a catch-up skipped a document opened after it looked
    saves, theirEdits, failures

noteFiles == <<disk, store, saved>>
noteMem == <<doc, open, mark, rec, base, skipped, job, modifyDue, snapDue>>
noteNet == <<link, checked, catchup, server, up, down>>
noteHist == <<typed, removed, blind, coarse, torn, overtaken, saves, theirEdits, failures>>
noteVars == <<noteFiles, noteMem, on, noteNet, noteHist>>

NoOps == [ins |-> {}, del |-> {}]
Merged(d, e) == [ins |-> d.ins \cup e.ins, del |-> d.del \cup e.del]
\* getText.
TextOf(d) == [l \in Line |-> Cardinality({o \in d.ins \ d.del : o[1] = l})]

NoJob == [kind |-> "none", at |-> "none", read |-> NoText, text |-> NoText, tries |-> 0]
NoCatchup == [at |-> "none", batch |-> NoOps]
JobKinds == {"none", "modify", "snap", "agree", "check"}
Steps == {"none", "fetch", "read", "fold", "hash", "merge", "blindMerge", "folded", "look",
          "write", "wrote"}
Marks == [text : Text, over : Text \cup {NoText}, synced : Text, state : Doc, here : BOOLEAN]

NoteInit ==
    LET d == [ins |-> {<<First, 1>>}, del |-> {}] t == TextOf(d) IN
       /\ disk = t /\ doc = d /\ server = d
       /\ store = [doc |-> d, mark |-> NoText]
       \* A log of before 0.3.2 has no fold marker.
       /\ \E f \in {t, NoText} : rec = [folded |-> f, content |-> t]
       /\ saved = rec
       /\ open = FALSE /\ mark = NoText /\ base = NoText /\ skipped = FALSE /\ job = NoJob
       /\ modifyDue = FALSE /\ snapDue = FALSE
       /\ on = FALSE /\ link = FALSE /\ checked = FALSE /\ catchup = NoCatchup
       /\ up = NoOps /\ down = NoOps
       /\ typed = {} /\ removed = {} /\ blind = {} /\ coarse = FALSE /\ torn = FALSE /\ overtaken = FALSE
       /\ saves = 0 /\ theirEdits = 0 /\ failures = 0

-----------------------------------------------------------------------------
(***************************************************************************)
(* The operations on texts and documents.                                  *)
(***************************************************************************)

Lower(m, n) == IF m < n THEN m ELSE n
Excess(m, n) == IF m > n THEN m - n ELSE 0

\* mergeText3: a line of the base stays if both sides have it, and both sides'
\* insertions are kept, what both inserted at a place once if it is the same.
Merge3(b, ours, theirs) ==
    LET in(t, at) == [l \in at |-> Excess(t[l], b[l])]
        place(l) == IF SamePlace THEN Line ELSE IF l \in Theirs THEN Theirs ELSE Line \ Theirs
    IN [l \in Line |->
          Lower(b[l], Lower(ours[l], theirs[l]))
          + IF in(ours, place(l)) = in(theirs, place(l)) THEN Excess(ours[l], b[l])
            ELSE Excess(ours[l], b[l]) + Excess(theirs[l], b[l])]

\* An insertion nobody has.
NewOps(l, n) ==
    LET used == {o[2] : o \in {p \in doc.ins \cup server.ins \cup store.doc.ins : p[1] = l}}
        last == Max({0} \cup used)
    IN {<<l, k>> : k \in last + 1 .. last + n}

\* setText: the least change of the document that gives the text.
SetTexts(t) ==
    LET now == TextOf(doc)
        more == UNION {NewOps(l, Excess(t[l], now[l])) : l \in Line}
        alive(l) == {o \in doc.ins \ doc.del : o[1] = l}
    IN {[ins |-> doc.ins \cup more, del |-> doc.del \cup gone] :
          gone \in {g \in SUBSET {o \in doc.ins \ doc.del : t[o[1]] < now[o[1]]} :
                      \A l \in Line : Cardinality(g \cap alive(l)) = Excess(now[l], t[l])}}

-----------------------------------------------------------------------------
(***************************************************************************)
(* The user and the teammate.                                              *)
(***************************************************************************)

\* A save: of a line typed or one removed, with the plugin running or not.
Save(text) ==
    /\ saves < MaxSaves
    /\ saves' = saves + 1
    /\ disk' = text
    /\ modifyDue' = (modifyDue \/ on)
    /\ UNCHANGED <<doc, open, mark, store, rec, saved, base, skipped, job, snapDue, on, noteNet,
                   coarse, torn, overtaken, theirEdits, failures>>

Type(l) ==
    /\ l \in Mine \ typed
    /\ typed' = typed \cup {l}
    /\ blind' = IF job.at = "write" THEN blind \cup {l} ELSE blind
    /\ Save([disk EXCEPT ![l] = 1])
    /\ UNCHANGED removed

Erase(l) ==
    /\ disk[l] > 0
    /\ removed' = removed \cup {l}
    /\ Save([disk EXCEPT ![l] = 0])
    /\ UNCHANGED <<typed, blind>>

\* The teammate's edit reaches the server, and from there this device.
TheirEdit ==
    /\ theirEdits < MaxTheirs
    /\ theirEdits' = theirEdits + 1
    /\ \E e \in {[ins |-> {<<l, 1>>}, del |-> {}] : l \in {k \in Theirs : <<k, 1>> \notin server.ins}}
                \cup {[ins |-> {}, del |-> {o}] : o \in server.ins \ server.del} :
          /\ server' = Merged(server, e)
          /\ down' = IF link THEN Merged(down, e) ELSE down
    /\ UNCHANGED <<noteFiles, noteMem, on, link, checked, catchup, up, typed, removed, blind, coarse,
                   torn, overtaken, saves, failures>>

-----------------------------------------------------------------------------
(***************************************************************************)
(* Starting, crashing, the connection, and what is stored in the           *)
(* background.                                                             *)
(***************************************************************************)

PluginStarts ==
    /\ ~on
    /\ on' = TRUE
    /\ UNCHANGED <<noteFiles, noteMem, noteNet, noteHist>>

\* The store's mark says what state.json misses.
MarkStands ==
    /\ store.mark # NoText /\ store.mark.here /\ store.mark.text = rec.folded
    /\ store.mark.over = saved.folded /\ store.mark.synced = saved.content

\* Only the file, the store and state.json are left.
NoteCrash ==
    /\ on /\ failures < MaxFailures
    /\ failures' = failures + 1
    /\ on' = FALSE /\ open' = FALSE
    /\ doc' = store.doc /\ mark' = NoText /\ rec' = saved
    /\ base' = NoText /\ skipped' = FALSE /\ job' = NoJob
    /\ modifyDue' = FALSE /\ snapDue' = FALSE
    /\ link' = FALSE /\ checked' = FALSE /\ catchup' = NoCatchup
    /\ up' = NoOps /\ down' = NoOps
    /\ UNCHANGED <<noteFiles, server, typed, removed, blind, coarse, overtaken, saves, theirEdits>>
    /\ torn' = (torn \/ job.at = "wrote" \/ (saved.folded # rec.folded /\ ~MarkStands))

\* The join: the server sends its document, and every edit from now on.
NoteConnects ==
    /\ on /\ ~link
    /\ link' = TRUE /\ checked' = FALSE
    /\ catchup' = [NoCatchup EXCEPT !.at = "batch", !.batch = server]
    /\ up' = NoOps /\ down' = NoOps
    /\ UNCHANGED <<noteFiles, noteMem, on, server, noteHist>>

NoteDrops ==
    /\ link /\ failures < MaxFailures
    /\ failures' = failures + 1
    /\ link' = FALSE /\ catchup' = NoCatchup /\ up' = NoOps /\ down' = NoOps
    /\ UNCHANGED <<noteFiles, noteMem, on, checked, server, typed, removed, blind, coarse, torn, overtaken,
                   saves, theirEdits>>

ServerTakes ==
    /\ up # NoOps
    /\ server' = Merged(server, up)
    /\ up' = NoOps
    /\ UNCHANGED <<noteFiles, noteMem, on, link, checked, catchup, down, noteHist>>

\* y-indexeddb stores in order: the edits before a mark, the mark, later edits.
StoreTakes ==
    /\ open
    /\ \/ /\ store.mark = mark /\ store.doc # doc
          /\ store' = [store EXCEPT !.doc = doc]
       \/ /\ store.mark # mark
          /\ IF mark = NoText \/ Merged(mark.state, store.doc) = store.doc
             THEN store' = [store EXCEPT !.mark = mark]
             ELSE store' = [store EXCEPT !.doc = Merged(@, mark.state)]
    /\ UNCHANGED <<disk, saved, noteMem, on, noteNet, noteHist>>

\* state.json is written half a second after a change of it; the edits made up to
\* then reach the store at once.
RecordSaved ==
    /\ on /\ saved # rec /\ (open => store.doc = doc)
    /\ saved' = rec
    /\ UNCHANGED <<disk, store, noteMem, on, noteNet, noteHist>>

-----------------------------------------------------------------------------
(***************************************************************************)
(* The fold.                                                               *)
(***************************************************************************)

\* setFoldedHash, on a document open or not: another text than the last write's
\* drops the mark of that write.
SetFolded(text, content) ==
    /\ rec' = [folded |-> text, content |-> content]
    /\ mark' = IF open /\ mark # NoText /\ mark.text # text THEN NoText ELSE mark

\* markFolded.
MarkFolded(text) == base' = text /\ SetFolded(text, rec.content)

\* Mutant: the mark tells where the disk comes from even before it is confirmed.
LostWriteUnconfirmed(read) ==
    /\ open /\ mark # NoText
    /\ mark.text # rec.folded /\ mark.over = rec.folded
    /\ mark.synced = rec.content

\* lostWriteMark: state.json missed the last write of the note, and the disk is
\* that text or comes from it.
LostWrite(read) ==
    /\ open /\ mark # NoText
    /\ mark.text # rec.folded /\ mark.over = rec.folded
    /\ mark.synced = rec.content
    /\ read = mark.text \/ mark.here

\* Mutant: the record counts, whatever the mark tells.
MarkerOfRecord(read) == rec.folded

\* The record of the last fold, or the mark when state.json missed it.
Marker(read) == IF LostWrite(read) THEN mark.text ELSE rec.folded

\* textAt: what was deleted since is collected.
Rebuilt(m) == Merged(m.state, doc) = doc /\ doc.del \cap m.state.ins \subseteq m.state.del

\* foldDiskEditsIntoDoc, up to its first await.
Fold ==
    /\ job.at = "fold"
    /\ IF job.read = TextOf(doc)
       THEN MarkFolded(job.read) /\ job' = [job EXCEPT !.at = "folded"]
       ELSE job' = [job EXCEPT !.at = "hash"] /\ UNCHANGED <<base, rec, mark>>
    /\ UNCHANGED <<noteFiles, doc, open, skipped, modifyDue, snapDue, on, noteNet, noteHist>>

\* The disk is hashed: nothing new on it, or a base to find (resolveFoldBase);
\* the server's version history may have it.
FindBase ==
    /\ job.at = "hash"
    /\ LET marker == Marker(job.read)
           known == \/ base = marker \/ TextOf(doc) = marker
                    \/ LostWrite(job.read) /\ Rebuilt(mark)
       IN
       IF job.read = IF marker = NoText THEN rec.content ELSE marker
       THEN /\ IF LostWrite(job.read) THEN MarkFolded(job.read)
               ELSE /\ base' = IF marker = NoText THEN base ELSE job.read
                    /\ UNCHANGED <<rec, mark>>
            /\ job' = [job EXCEPT !.at = "folded"]
       ELSE /\ \/ marker # NoText /\ (known \/ link)
                  /\ job' = [job EXCEPT !.at = "merge", !.text = marker]
               \/ (marker = NoText \/ ~known)
                  /\ job' = [job EXCEPT !.at = "blindMerge"]
            /\ base' = IF marker # NoText /\ base # marker THEN NoText ELSE base
            /\ UNCHANGED <<rec, mark>>
    /\ UNCHANGED <<noteFiles, doc, open, skipped, modifyDue, snapDue, on, noteNet, noteHist>>

\* The rest of the fold, without an await: merge and setText. The edits go
\* out as they are made.
FoldIn ==
    /\ job.at \in {"merge", "blindMerge"}
    /\ LET now == TextOf(doc)
           next == IF job.at = "blindMerge" THEN job.read ELSE Merge3(job.text, job.read, now)
       IN /\ doc' \in SetTexts(next)
          /\ coarse' = (coarse \/ job.at = "blindMerge")
    /\ up' = IF link THEN Merged(up, doc') ELSE up
    /\ MarkFolded(job.read)
    /\ job' = [job EXCEPT !.at = "folded", !.text = NoText]
    /\ UNCHANGED <<noteFiles, open, skipped, modifyDue, snapDue, on, link, checked, catchup, server,
                   down, typed, removed, blind, torn, overtaken, saves, theirEdits, failures>>

-----------------------------------------------------------------------------
(***************************************************************************)
(* A save folded in, and a snapshot written out: one at a time, under the  *)
(* path's lock.                                                            *)
(***************************************************************************)

Open == open' = TRUE /\ mark' = IF open THEN mark ELSE store.mark

\* handleLocalModify, up to its first await.
BeginModify ==
    /\ on /\ modifyDue /\ job = NoJob
    /\ modifyDue' = FALSE
    /\ Open
    /\ job' = [NoJob EXCEPT !.kind = "modify", !.at = "fetch"]
    /\ UNCHANGED <<noteFiles, doc, rec, base, skipped, snapDue, on, noteNet, noteHist>>

BeginSnapshot ==
    /\ on /\ snapDue /\ job = NoJob
    /\ snapDue' = FALSE
    /\ job' = IF open THEN [NoJob EXCEPT !.kind = "snap", !.at = "fetch"] ELSE NoJob
    /\ UNCHANGED <<noteFiles, doc, open, mark, rec, base, skipped, modifyDue, on, noteNet, noteHist>>

\* rememberBaseBeforeRemote, then applyRemoteUpdate.
TakeIn(d, has) ==
    /\ base' = IF base = NoText /\ has THEN TextOf(doc) ELSE base
    /\ doc' = Merged(doc, d)

\* pushMissingOps.
Push(d) == up' = IF Merged(doc', d) # d THEN Merged(up, doc') ELSE up

\* ensureHydrated: a document the catch-up skipped is fetched first, if it can be.
Hydrate ==
    /\ job.at = "fetch"
    /\ job' = [job EXCEPT !.at = "read"]
    /\ IF skipped /\ link
       THEN /\ TakeIn(server, TRUE) /\ Push(server)
            /\ skipped' = FALSE /\ snapDue' = TRUE /\ checked' = TRUE
       ELSE UNCHANGED <<doc, base, up, skipped, snapDue, checked>>
    /\ UNCHANGED <<noteFiles, open, mark, rec, modifyDue, on, link, catchup, server, down, noteHist>>

ReadDisk ==
    /\ job.at = "read" /\ job.kind \in {"modify", "snap"}
    /\ job' = [job EXCEPT !.at = "fold", !.read = disk]
    /\ UNCHANGED <<noteFiles, doc, open, mark, rec, base, skipped, modifyDue, snapDue, on, noteNet,
                   noteHist>>

\* handleLocalModify after the fold: what the disk has not yet is scheduled.
EndModify ==
    /\ job.kind = "modify" /\ job.at = "folded"
    /\ snapDue' = (snapDue \/ TextOf(doc) # job.read)
    /\ job' = NoJob
    /\ UNCHANGED <<noteFiles, doc, open, mark, rec, base, skipped, modifyDue, on, noteNet, noteHist>>

\* writeDocSnapshot after the fold: nothing to write, or the write is marked.
MarkWrite ==
    /\ job.kind = "snap" /\ job.at = "folded"
    /\ LET text == TextOf(doc) IN
       IF job.read = text
       THEN /\ base' = text /\ SetFolded(text, text)
            /\ job' = NoJob
       ELSE /\ mark' = [text |-> text, over |-> rec.folded, synced |-> rec.content, state |-> doc,
                        here |-> FALSE]
            /\ job' = [job EXCEPT !.at = "look", !.text = text]
            /\ UNCHANGED <<rec, base>>
    /\ UNCHANGED <<noteFiles, doc, open, skipped, modifyDue, snapDue, on, noteNet, noteHist>>

\* Mutant: the loop is not left when the disk is as it was.
LookAgainForever ==
    /\ job.at = "look" /\ disk = job.read
    /\ job' = [job EXCEPT !.at = "fold", !.text = NoText, !.tries = @ + 1]
    /\ UNCHANGED <<noteFiles, doc, open, mark, rec, base, skipped, modifyDue, snapDue, on, noteNet,
                   noteHist>>

\* Mutant: the disk is not looked at again.
LookAgainNot ==
    /\ job.at = "look"
    /\ job' = [job EXCEPT !.at = "write"]
    /\ rec' = [rec EXCEPT !.content = job.text]
    /\ UNCHANGED <<noteFiles, doc, open, mark, base, skipped, modifyDue, snapDue, on, noteNet,
                   noteHist>>

\* The look right before the write: a save that came meanwhile is folded too.
LookAgain ==
    /\ job.at = "look"
    /\ \/ /\ disk = job.read
          /\ job' = [job EXCEPT !.at = "write"]
          /\ rec' = [rec EXCEPT !.content = job.text]
          /\ UNCHANGED <<base, mark, snapDue>>
       \/ /\ disk # job.read /\ job.tries + 1 < FoldAttempts
          /\ MarkFolded(job.read)
          /\ job' = [job EXCEPT !.at = "fold", !.read = disk, !.text = NoText, !.tries = @ + 1]
          /\ UNCHANGED snapDue
       \/ /\ disk # job.read /\ job.tries + 1 >= FoldAttempts
          /\ snapDue' = TRUE
          /\ job' = NoJob
          /\ UNCHANGED <<base, rec, mark>>
    /\ UNCHANGED <<noteFiles, doc, open, skipped, modifyDue, on, noteNet, noteHist>>

WriteDisk ==
    /\ job.at = "write"
    /\ disk' = job.text
    /\ job' = [job EXCEPT !.at = "wrote"]
    /\ UNCHANGED <<store, saved, doc, open, mark, rec, base, skipped, modifyDue, snapDue, on, noteNet,
                   noteHist>>

\* The write went through: the mark is confirmed, and the text is the base.
EndSnapshot ==
    /\ job.at = "wrote"
    /\ base' = job.text
    /\ rec' = [rec EXCEPT !.folded = job.text]
    /\ mark' = IF mark # NoText /\ mark.text = job.text THEN [mark EXCEPT !.here = TRUE] ELSE NoText
    /\ job' = NoJob
    /\ UNCHANGED <<noteFiles, doc, open, skipped, modifyDue, snapDue, on, noteNet, noteHist>>

-----------------------------------------------------------------------------
(***************************************************************************)
(* The server's document and the teammate's live edits.                    *)
(***************************************************************************)

\* catchupDocIsRedundant: no document is open.
CatchupLook ==
    /\ catchup.at = "batch"
    /\ catchup' = [catchup EXCEPT !.at = IF open THEN "load" ELSE "closed"]
    /\ UNCHANGED <<noteFiles, noteMem, on, link, checked, server, up, down, noteHist>>

\* And the disk, read after it, has the server's text. The hash of the text read
\* is done before a later save gets through the watcher's debounce.
CatchupSkips ==
    /\ catchup.at = "closed"
    /\ IF disk = TextOf(catchup.batch)
       THEN /\ base' = IF base = disk THEN base ELSE NoText
            /\ SetFolded(disk, rec.content)
            /\ skipped' = TRUE
            /\ catchup' = NoCatchup
            /\ overtaken' = (overtaken \/ open)
       ELSE /\ catchup' = [catchup EXCEPT !.at = "load"]
            /\ UNCHANGED <<base, rec, mark, skipped, overtaken>>
    /\ UNCHANGED <<noteFiles, doc, open, job, modifyDue, snapDue, on, link, checked, server, up, down,
                   typed, removed, blind, coarse, torn, saves, theirEdits, failures>>

\* openDoc, then the lock: the disk is read to see whether it agrees.
CatchupOpens ==
    /\ catchup.at = "load" /\ job = NoJob
    /\ Open
    /\ job' = [NoJob EXCEPT !.kind = "agree", !.at = "read"]
    /\ catchup' = [catchup EXCEPT !.at = "lock"]
    /\ UNCHANGED <<noteFiles, doc, rec, base, skipped, modifyDue, snapDue, on, link, checked, server,
                   up, down, noteHist>>

\* noteDiskAgreement.
NoteAgreement ==
    /\ job.kind = "agree"
    /\ IF disk = TextOf(doc) THEN MarkFolded(disk) ELSE UNCHANGED <<base, rec, mark>>
    /\ job' = NoJob
    /\ catchup' = IF catchup.at = "lock" THEN [catchup EXCEPT !.at = "apply"] ELSE catchup
    /\ checked' = (checked \/ catchup.at = "lock")
    /\ UNCHANGED <<noteFiles, doc, open, skipped, modifyDue, snapDue, on, link, server, up, down,
                   noteHist>>

\* The document is merged in and written out; what the server lacks is pushed.
CatchupApplies ==
    /\ catchup.at = "apply"
    /\ TakeIn(catchup.batch, TRUE)
    /\ Push(catchup.batch)
    /\ skipped' = FALSE /\ snapDue' = TRUE
    /\ catchup' = NoCatchup
    /\ UNCHANGED <<noteFiles, open, mark, rec, job, modifyDue, on, link, checked, server, down,
                   noteHist>>

\* Mutant: no snapshot is scheduled.
TheirEditComesUnwritten ==
    /\ down # NoOps /\ checked
    /\ TakeIn(down, open)
    /\ Open
    /\ down' = NoOps
    /\ UNCHANGED <<noteFiles, rec, skipped, job, modifyDue, snapDue, on, link, checked, catchup,
                   server, up, noteHist>>

\* handleServerYjsUpdate.
TheirEditComes ==
    /\ down # NoOps /\ checked
    /\ TakeIn(down, open)
    /\ Open
    /\ down' = NoOps
    /\ snapDue' = TRUE
    /\ UNCHANGED <<noteFiles, rec, skipped, job, modifyDue, on, link, checked, catchup,
                   server, up, noteHist>>

\* applyAfterLineageCheck: an edit of a note not checked since the join waits
\* for the server's document, fetched and merged in under the lock.
CheckFirst ==
    /\ down # NoOps /\ ~checked /\ job = NoJob
    /\ Open
    /\ TakeIn(server, TRUE) /\ Push(server)
    /\ skipped' = FALSE /\ checked' = TRUE /\ snapDue' = TRUE
    /\ UNCHANGED <<noteFiles, rec, job, modifyDue, on, link, catchup, server, down, noteHist>>

-----------------------------------------------------------------------------
Device ==
    \/ Fold \/ FindBase \/ FoldIn
    \/ BeginModify \/ EndModify \/ Hydrate \/ ReadDisk
    \/ BeginSnapshot \/ MarkWrite \/ LookAgain \/ WriteDisk \/ EndSnapshot
    \/ CatchupLook \/ CatchupSkips \/ CatchupOpens \/ NoteAgreement \/ CatchupApplies
    \/ TheirEditComes \/ CheckFirst

NoteNext ==
    \/ \E l \in Line : Type(l) \/ Erase(l)
    \/ TheirEdit \/ PluginStarts \/ NoteCrash \/ NoteConnects \/ NoteDrops
    \/ ServerTakes \/ StoreTakes \/ RecordSaved
    \/ Device

NoteSpec == NoteInit /\ [][NoteNext]_noteVars

\* The event loop, the disk, the server and the connection answer.
NoteFairness ==
    /\ WF_noteVars(Device) /\ WF_noteVars(ServerTakes)
    /\ WF_noteVars(NoteConnects) /\ WF_noteVars(PluginStarts)

NoteFairSpec == NoteSpec /\ NoteFairness

-----------------------------------------------------------------------------
(***************************************************************************)
(* Properties.                                                             *)
(***************************************************************************)

\* Types; a snapshot folds at most FoldAttempts times (writeDocSnapshot).
NoteTypeOK ==
    /\ job.tries \in 0..FoldAttempts - 1
    /\ disk \in Text /\ doc \in Doc /\ server \in Doc /\ up \in Doc /\ down \in Doc
    /\ store.doc \in Doc /\ store.mark \in Marks \cup {NoText} /\ mark \in Marks \cup {NoText}
    /\ rec \in [folded : Text \cup {NoText}, content : Text] /\ saved \in [folded : Text \cup {NoText}, content : Text]
    /\ base \in Text \cup {NoText}
    /\ job.kind \in JobKinds /\ job.at \in Steps
    /\ job.read \in Text \cup {NoText} /\ job.text \in Text \cup {NoText}
    /\ {open, skipped, modifyDue, snapDue, on, link, checked, coarse, torn, overtaken} \subseteq BOOLEAN

\* A line the user saved and did not remove is never gone: until a document has
\* taken it in, no snapshot goes over it on disk, whatever arrives or crashes in
\* between. (A save between a snapshot's last look and its write excepted.)
NothingTypedLost ==
    \A l \in typed \ (removed \cup blind) :
       disk[l] > 0 \/ \E o \in doc.ins \cup server.ins : o[1] = l

\* A fold does not take a teammate's edit the disk has not got yet for the
\* user's deletion of it, as long as it finds the text folded last: after a crash
\* too, if the record of the fold before it, or the mark of the write, is there.
KeepsTheirs ==
    ~coarse /\ ~torn => \A l \in Theirs \ removed : \A o \in doc.del \ server.del : o[1] # l

\* A fold does not insert anew what the document has, as long as it finds the text
\* folded last: after a crash too, if the record of the fold before it, or the
\* mark of the write, is there.
NotDoubled == ~coarse /\ ~torn /\ ~overtaken => \A l \in Line : TextOf(server)[l] <= 1

\* A base missing text that both the disk and the document have is never used
\* (resolveFoldBase): no text is inserted again.
NotReinserted == \A l \in Line : TextOf(server)[l] <= 1

\* Once the edits stop, the disk, the document and the server agree.
Converges == <>[](disk = TextOf(server) /\ (skipped \/ disk = TextOf(doc)))
=============================================================================
