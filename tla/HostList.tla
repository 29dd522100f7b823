------------------------------- MODULE HostList -------------------------------
(***************************************************************************)
(* The hosts and folders of the store and connections.json.  Every change  *)
(* saves the whole list: saveToMain takes a snapshot when it is called,    *)
(* the saves run one after the other, and a failed one does not stop the   *)
(* next.  addConnection and editConnection wait for their save before they *)
(* change the store, every other operation changes the store first.  A     *)
(* restore from sync, or a reset of the vault, rewrites the file and loads *)
(* it again, and the program may stop at any time.                         *)
(***************************************************************************)
EXTENDS Naturals, Sequences, SequencesExt

CONSTANTS Host,       \* the ids of hosts
          Temp,       \* those of quick connects that are not to be saved
          Path,       \* bound: the folders, sequences of names
          InitLists,  \* the files the program may find
          MaxSteps    \* bound: operations and restarts

Root   == <<>>        \* the folder of a host that is in none
Folder == Path \cup {Root}
Conn   == [id : Host, folder : Folder]
NoConn == [id |-> "none", folder |-> Root]

Lists == [connections : UNION {[S -> Folder] : S \in SUBSET Host}, folders : SUBSET Path]
Empty == [connections |-> <<>>, folders |-> {}]

ASSUME HostListAssumption == /\ Temp \subseteq Host /\ "none" \notin Host
                             /\ \A p \in Path : p # Root /\ p \in Seq(ToSet(p))
                             /\ InitLists \subseteq Lists /\ MaxSteps \in Nat

VARIABLES list,     \* connections and folders of the store
          file,     \* connections.json
          saves,    \* the saves that have not been answered, the first one under way
          written,  \* the first one is in the file
          loading,  \* loadConnections: "no", "asked", "read"
          loaded,   \* what it has read
          agree,    \* ghost: no overlap and no failure since the file was last right
          strays,   \* ghost: hosts that the file once had in a folder it did not have
          steps

storage  == <<file, saves, written, loading, loaded, agree, strays>>
listVars == <<list, storage, steps>>

Known(l) == DOMAIN l.connections

\* The hosts in a folder that the list does not have.
Misplaced(l) == {h \in Known(l) : l.connections[h] \notin l.folders \cup {Root}}

\* The save was asked for by addConnection or editConnection: its host is
\* not in the store yet.
Waits(s) == s.for # NoConn

ListTypes ==
    /\ list \in Lists /\ file \in Lists /\ loaded \in Lists
    /\ saves \in Seq([list : Lists, for : Conn \cup {NoConn}, clean : BOOLEAN])
    /\ written \in BOOLEAN /\ (written => saves # <<>>)
    /\ loading \in {"no", "asked", "read"} /\ agree \in BOOLEAN /\ strays \subseteq Host
    /\ steps \in 0..MaxSteps

InitList == /\ file \in InitLists /\ list = file /\ strays = Misplaced(file)
            /\ saves = <<>> /\ written = FALSE
            /\ loading = "no" /\ loaded = Empty /\ agree = TRUE /\ steps = 0

-----------------------------------------------------------------------------
(* folderTreeOps.ts and connectionService.ts: what is made of a list *)

\* isFolderOrDescendant
Inside(a, p) == a # Root /\ IsPrefix(a, p)

\* remapFolderPath
Remapped(p, a, b) == IF Inside(a, p) THEN b \o SubSeq(p, Len(a) + 1, Len(p)) ELSE p

\* ensureFolderExists
Ensured(folders, p) == folders \cup ({p} \ {Root})

\* upsertConnectionInState
Upserted(l, c) ==
    [connections |-> [h \in Known(l) \cup {c.id} |-> IF h = c.id THEN c.folder
                                                    ELSE l.connections[h]],
     folders     |-> Ensured(l.folders, c.folder)]

\* updateConnectionFolderInState
Refoldered(l, h, p) == [connections |-> [l.connections EXCEPT ![h] = p],
                        folders     |-> Ensured(l.folders, p)]

\* A variant of FolderDeleted that moves only the hosts directly in the folder.
FolderDeletedExact(l, p) ==
    [connections |-> [h \in Known(l) |-> IF l.connections[h] = p THEN Root ELSE l.connections[h]],
     folders     |-> {q \in l.folders : ~Inside(p, q)}]

\* deleteFolderFromState: the folder, those below it, and the hosts' places in them.
FolderDeleted(l, p) ==
    [connections |-> [h \in Known(l) |-> IF Inside(p, l.connections[h]) THEN Root
                                         ELSE l.connections[h]],
     folders     |-> {q \in l.folders : ~Inside(p, q)}]

\* renameFolderInState: nothing when the new name is taken.
FolderRenamed(l, p, q) ==
    IF p = q \/ q \in l.folders THEN l
    ELSE [connections |-> [h \in Known(l) |-> Remapped(l.connections[h], p, q)],
          folders     |-> {Remapped(r, p, q) : r \in l.folders}]

\* Within the bound.
Fits(l) == l.folders \subseteq Path /\ \A h \in Known(l) : l.connections[h] \in Folder

Without(l, h) == [l EXCEPT !.connections = [g \in Known(l) \ {h} |-> l.connections[g]]]

-----------------------------------------------------------------------------
Step == steps < MaxSteps /\ steps' = steps + 1

\* saveToMain: the snapshot joins the saves.  It is clean when nobody else
\* is about to change the store without having looked at it again.
SaveToMain(l, c) ==
    /\ saves' = Append(saves, [list  |-> l, for |-> c,
                               clean |-> loading = "no" /\ \A i \in DOMAIN saves : ~Waits(saves[i])])
    /\ UNCHANGED <<file, written, loading, loaded, agree, strays>>

\* An operation that changes the store and saves what it has made of it.
ChangeTo(l) == Step /\ list' = l /\ SaveToMain(l, NoConn)

\* A random id: nothing has used it.
Unused(h) == /\ h \notin Known(list) \cup Known(file) \cup Known(loaded)
             /\ \A i \in DOMAIN saves : h \notin Known(saves[i].list)

\* addConnection: a temporary host is not saved, and in the store at once.
\* Only a quick connect adds one, to no folder.
AddConnection(c) ==
    /\ Step /\ Unused(c.id)
    /\ IF c.id \in Temp THEN list' = Upserted(list, c) /\ UNCHANGED storage
                        ELSE SaveToMain(Upserted(list, c), c) /\ UNCHANGED list

\* editConnection, of the user's form and of a connect that learned something.
EditConnection(c) == /\ Step /\ c.id \in Known(list)
                     /\ SaveToMain(Upserted(list, c), c) /\ UNCHANGED list

\* importConnections: a host that is known by its name is updated, another one
\* added; the folders that come along are those of the hosts.
ImportConnections(c) == (c.id \in Known(list) \/ Unused(c.id)) /\ ChangeTo(Upserted(list, c))

\* buildTree: the folders the sidebar offers, those of the list, those only a
\* host is in, and all above them.
Drawn(l) == {p \in Path : \E q \in l.folders \cup {l.connections[h] : h \in Known(l)} : Inside(p, q)}

AddFolder(p) == p \notin list.folders /\ ChangeTo([list EXCEPT !.folders = @ \cup {p}])

DeleteFolder(p) == p \in Drawn(list) /\ ChangeTo(FolderDeleted(list, p))

RenameFolder(p, q) == /\ p \in Drawn(list) /\ Fits(FolderRenamed(list, p, q))
                      /\ ChangeTo(FolderRenamed(list, p, q))

UpdateConnectionFolder(h, p) == h \in Known(list) /\ ChangeTo(Refoldered(list, h, p))

\* toggleFavorite and toggleConnectionFeature: marks of a host, not of the list.
ToggleFavorite(h) == h \in Known(list) /\ ChangeTo(list)

DeleteFromList(h) == h \in Known(list) /\ ChangeTo(Without(list, h))

ClearList == ChangeTo(Empty)

-----------------------------------------------------------------------------
(* The saves *)

\* The backend has written the snapshot of the first save.
Write == /\ saves # <<>> /\ ~written
         /\ file' = Head(saves).list /\ written' = TRUE /\ agree' = Head(saves).clean
         /\ UNCHANGED <<list, saves, loading, loaded, steps, strays>>

\* The caller is told, and puts its host into the store as it is by now.
SaveEnds == /\ written
            /\ list' = IF Waits(Head(saves)) THEN Upserted(list, Head(saves).for) ELSE list
            /\ saves' = Tail(saves) /\ written' = FALSE
            /\ UNCHANGED <<file, loading, loaded, agree, steps, strays>>

\* A variant of SaveFails after which the caller goes on as if it had not.
SaveFailsSilently ==
    /\ saves # <<>> /\ ~written
    /\ list' = IF Waits(Head(saves)) THEN Upserted(list, Head(saves).for) ELSE list
    /\ saves' = Tail(saves) /\ agree' = (agree /\ Waits(Head(saves)))
    /\ UNCHANGED <<file, written, loading, loaded, steps, strays>>

\* A credential without a vault id, or an error of the backend: the call is
\* rejected, and what it was for does not reach the store.
SaveFails == /\ saves # <<>> /\ ~written
             /\ saves' = Tail(saves) /\ agree' = (agree /\ Waits(Head(saves)))
             /\ UNCHANGED <<list, file, written, loading, loaded, steps, strays>>

-----------------------------------------------------------------------------
(* Loading *)

\* apply_hosts_restore_records: the host, and no folder.
Restored(l, c) == [Upserted(l, c) EXCEPT !.folders = l.folders]

\* A restore from sync writes a host into the file, in the folder that it has
\* elsewhere, and the caller loads the list again.
RestoreHost(c) == /\ Step /\ loading = "no" /\ c.id \notin Temp
                  /\ file' = Restored(file, c) /\ loading' = "asked" /\ agree' = FALSE
                  /\ strays' = strays \cup ({c.id} \cap Misplaced(file'))
                  /\ UNCHANGED <<list, saves, written, loaded>>

ReadList == /\ loading = "asked" /\ loaded' = file /\ loading' = "read"
            /\ UNCHANGED <<list, file, saves, written, agree, steps, strays>>

\* loadConnections reports an error to the console and leaves the store alone.
LoadFails == /\ loading = "asked" /\ loading' = "no"
             /\ UNCHANGED <<list, file, saves, written, loaded, agree, steps, strays>>

\* What was read replaces the store.  The saves that are still under way know
\* nothing of it, so none of them makes the file right again.
SetList == /\ loading = "read" /\ list' = loaded
           /\ loading' = "no" /\ loaded' = Empty
           /\ agree' = (saves = <<>> /\ file = loaded)
           /\ saves' = [i \in DOMAIN saves |-> [saves[i] EXCEPT !.clean = FALSE]]
           /\ UNCHANGED <<file, written, steps, strays>>

\* The program stops and is started again.  When the list cannot be loaded
\* the store stays empty.
RestartList(read) == /\ list' = IF read THEN file ELSE Empty
                     /\ saves' = <<>> /\ written' = FALSE /\ loading' = "no" /\ loaded' = Empty
                     /\ agree' = read /\ UNCHANGED <<file, steps, strays>>

-----------------------------------------------------------------------------
\* The steps that concern nothing but the list.
ListSteps ==
    \/ /\ steps < MaxSteps
       /\ \/ \E c \in Conn : (c.id \notin Temp /\ AddConnection(c)) \/ EditConnection(c)
                             \/ RestoreHost(c) \/ ImportConnections(c)
          \/ \E p \in Path : AddFolder(p) \/ DeleteFolder(p) \/ \E q \in Path : RenameFolder(p, q)
          \/ \E h \in Host : ToggleFavorite(h) \/ \E p \in Folder : UpdateConnectionFolder(h, p)
    \/ Write \/ SaveEnds \/ SaveFails \/ ReadList \/ LoadFails \/ SetList

-----------------------------------------------------------------------------
\* The hosts that are to be saved, with their folders.
Lasting(l) == [connections |-> [h \in Known(l) \ Temp |-> l.connections[h]], folders |-> l.folders]

\* Once every save has ended the file holds the list of the store, unless a
\* snapshot was taken while a host waited for its save or a load was under
\* way, or the last change could not be saved.  No order of calls, of
\* failures and of restarts loses anything else.
SettledListIsSaved ==
    agree /\ saves = <<>> /\ loading = "no" => Lasting(file) = Lasting(list)

\* A host is in a folder that exists, in the store and in the file, whatever
\* is deleted, renamed, imported or loaded while it is on its way there: none
\* falls out of its folder, the sync alone puts one where there is none.
FoldersHoldTheirHosts == \A l \in {list, file} : Misplaced(l) \subseteq strays
=============================================================================
