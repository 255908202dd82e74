---------------------------- MODULE WindowsClient ----------------------------
(***************************************************************************)
(* The Windows client (src/bin/zfs-send-explore-windows/mod.rs): commands  *)
(* of the user change the window's state and start a job on a worker       *)
(* thread; the window stays alive, and the job's result, posted as         *)
(* WM_JOB_COMPLETE, changes the state again and may start the next job.    *)
(* A job works on copies that were taken when it was started.              *)
(*                                                                         *)
(* A listing is the place it was read from.  Key material is left out: a   *)
(* key is its scope, and a job holds every key it might have taken.        *)
(* Agent passwords, settings dialogs and the layout are not modelled.      *)
(***************************************************************************)
EXTENDS Integers, Sequences, FiniteSets, ClientPlaces

CONSTANTS
    Source,                 \* paths
    ZfsSource, ImageSource, \* the ones that open as ZFS, or as an image
    MaxFrames               \* how many disk images can be open (8 in the code)

ASSUME WindowsAssumption ==
    /\ ZfsSource \subseteq Source /\ ImageSource \subseteq Source
    /\ MaxFrames \in Nat \ {0}
    /\ None \notin Source \cup Dir

VARIABLES
    app,      \* AppState
    clear,    \* the setting clear_credentials_on_source_change
    steady,   \* does the first listing after a change of place succeed?
    misplaced \* history, if steady: a restore was from elsewhere than the list

windowsVars == <<app, clear, steady, misplaced>>

\* An image that was entered: where from (a standalone one has no path).
ImageFrame == [source : Source, view : View \cup {None},
               path : Dir \cup {None}, volume : Volume \cup {None}]

\* A place: the current view of the source, or a volume of the top image.
Context(a) ==
    IF a.inception = <<>>
    THEN [source |-> a.catalog, view |-> a.view, images |-> <<>>, volume |-> None]
    ELSE [source |-> None, view |-> None, images |-> a.inception,
          volume |-> a.volume]

Place(context, path) == [context |-> context, path |-> path]

Secret == [source : Source \cup {None}, view : View \cup {None}]

NoJob == [kind |-> "none"]

-----------------------------------------------------------------------------
(* Reading and changing the state.                                         *)

\* source_open
source_open(a) == a.catalog # None \/ a.inception # <<>>

\* active_source_path
Active(a) ==
    IF a.catalog # None THEN a.catalog
    ELSE IF a.inception # <<>> /\ a.inception[1].path = None
    THEN a.inception[1].source ELSE None

\* credential_scope, credential_view
Scope(a) == IF Active(a) # None THEN Active(a) ELSE a.box
CredentialView(a) == IF a.catalog = None THEN None ELSE a.view

\* Mutant: a key is good for every restore point of its source.
MatchingAnyView(a) == {k \in a.keys : k.source \in {None, Scope(a)}}

\* active_zfs_key takes the newest of these.
Matching(a) ==
    {k \in a.keys : /\ k.source \in {None, Scope(a)}
                    /\ k.view \in {None, CredentialView(a)}}

\* store_zfs_key, of a key entered now.
StoreKey(a) ==
    [a EXCEPT !.keys = @ \cup {[source |-> Scope(a), view |-> CredentialView(a)]}]

\* remove_active_zfs_key
RemoveKeys(a) == [a EXCEPT !.keys = @ \ Matching(a)]

\* clear_credentials_silent
ForgetAll(a) == [a EXCEPT !.keys = {}, !.container_key = {}]

\* clear_credentials_for_source
ForgetOthers(a, s) ==
    [a EXCEPT !.keys = {k \in @ : k.source \in {None, s}},
              !.container_key = @ \cap {s}]

\* clear_directory_ui
ClearDirectory(a) == [a EXCEPT !.listed = None, !.path = Root]

\* catalog, images and combo boxes are emptied.
Emptied(a) ==
    ClearDirectory([a EXCEPT !.catalog = None, !.view = None,
                             !.inception = <<>>, !.volume = None])

\* source_is_changing
Changing(a, s) ==
    \/ a.catalog \notin {None, s}
    \/ /\ a.inception # <<>>
       /\ a.inception[1].path = None /\ a.inception[1].source # s

\* Mutant: the keys are kept.
ActivateKeeps(a, s) == [(IF Changing(a, s) THEN Emptied(a) ELSE a) EXCEPT !.box = s]

\* activate_source
Activate(a, s) ==
    IF Changing(a, s)
    THEN [Emptied(IF clear THEN ForgetOthers(a, s) ELSE a) EXCEPT !.box = s]
    ELSE [a EXCEPT !.box = s]

\* browse: a job that lists p, unless there is nothing to list.
Browse(a, p) ==
    IF \/ a.inception # <<>> /\ a.volume = None
       \/ a.inception = <<>> /\ (a.catalog = None \/ a.view = None)
    THEN a
    ELSE [a EXCEPT !.job = [kind |-> "browse", at |-> Context(a), path |-> p,
                            keys |-> Matching(a)]]

\* open_source, of the path in the source box.
OpenBox(a) ==
    [a EXCEPT !.job = [kind |-> "open", source |-> a.box,
                       container |-> a.container_key \cap {None, a.box}]]

\* extract_selected, explore_selected_image: an entry of the list.
Extracting(a) ==
    IF a.listed = None THEN a
    ELSE [a EXCEPT !.job = [kind |-> "extract", at |-> Context(a),
                            path |-> a.path, keys |-> Matching(a)]]

Exploring(a) ==
    IF a.listed = None THEN a
    ELSE [a EXCEPT !.job = [kind |-> "explore", at |-> Context(a),
                            path |-> a.path, keys |-> Matching(a)]]

\* update_extracted_file: the active key, or else the newest of all keys,
\* whatever they were entered for.
Updating(a) ==
    [a EXCEPT !.job = [kind |-> "update",
                       keys |-> IF Matching(a) # {} THEN Matching(a) ELSE a.keys]]

\* ensure_selected_view_key, then the root; `supplied' is the user's answer.
Unlocked(a, supplied) ==
    IF a.view \notin Encrypted \/ Matching(a) # {} THEN Browse(a, Root)
    ELSE IF supplied THEN Browse(StoreKey(a), Root)
    ELSE ClearDirectory(a)

-----------------------------------------------------------------------------
WindowsInit ==
    /\ app = [catalog |-> None, view |-> None, inception |-> <<>>,
              volume |-> None, path |-> Root, listed |-> None, box |-> None,
              keys |-> {}, container_key |-> {}, job |-> NoJob]
    /\ clear \in BOOLEAN /\ steady \in BOOLEAN /\ misplaced = FALSE

Becomes(a) == app' = a /\ UNCHANGED <<clear, steady, misplaced>>

Busy == app.job # NoJob

\* choose_source, open_path_dialog, open_physical_drive
OpenSource(s) == ~Busy /\ Becomes(OpenBox([app EXCEPT !.box = s]))

CloseSource ==
    /\ ~Busy /\ source_open(app)
    /\ Becomes([Emptied(IF clear THEN ForgetAll(app) ELSE app) EXCEPT !.box = None])

\* Mutant: the old list stays.
SelectViewKeeps(v, supplied) ==
    LET a == [app EXCEPT !.view = v]
    IN  /\ ~Busy /\ app.catalog # None /\ app.inception = <<>>
        /\ Becomes(IF v \notin Encrypted \/ Matching(a) # {} \/ supplied
                   THEN Unlocked(a, supplied) ELSE a)

\* ID_VIEW: the combo box is enabled outside images only.
SelectView(v, supplied) ==
    /\ ~Busy /\ app.catalog # None /\ app.inception = <<>>
    /\ Becomes(Unlocked(ClearDirectory([app EXCEPT !.view = v]), supplied))

\* ID_VOLUME; after a re-opening of the source the combo box is empty.
SelectVolume(v) ==
    /\ ~Busy /\ app.inception # <<>> /\ app.volume # None
    /\ Becomes(Browse([app EXCEPT !.volume = v], Root))

\* ID_GO, ID_UP, ID_REFRESH, and a folder in open_selected.
Go(p) == ~Busy /\ source_open(app) /\ Becomes(Browse(app, p))

\* enter_key, choose_key_file, then refresh_after_zfs_key.
EnterKey ==
    LET a == StoreKey(app)
    IN  /\ ~Busy
        /\ Becomes(IF a.catalog # None /\ a.inception = <<>>
                   THEN Browse(a, a.path) ELSE a)

\* enter_container_key: its scope is the source box.
EnterContainerKey == ~Busy /\ Becomes([app EXCEPT !.container_key = {app.box}])

\* clear_credentials: the open backup is closed, the source box stays.
ClearCredentials ==
    ~Busy /\ Becomes(IF source_open(app) THEN Emptied(ForgetAll(app)) ELSE ForgetAll(app))

extract_selected == ~Busy /\ app.listed # None /\ Becomes(Extracting(app))

Explore ==
    /\ ~Busy /\ app.listed # None /\ Len(app.inception) < MaxFrames
    /\ Becomes(Exploring(app))

\* leave_inception: the parent's volume is chosen again and its directory
\* listed; after a standalone image nothing is open.
Left(a) ==
    LET frame == a.inception[Len(a.inception)]
        b == [a EXCEPT !.inception = SubSeq(@, 1, Len(@) - 1),
                       !.volume = frame.volume]
    IN  IF source_open(b) THEN Browse(b, IF frame.path = None THEN Root ELSE frame.path)
        ELSE ClearDirectory(b)

\* Mutant: the command is not ignored while a job runs.
LeaveImageBusy == app.inception # <<>> /\ Becomes(Left(app))

LeaveImage == ~Busy /\ app.inception # <<>> /\ Becomes(Left(app))

Update == ~Busy /\ Becomes(Updating(app))

-----------------------------------------------------------------------------
(* finish_job.                                                             *)

Done == [app EXCEPT !.job = NoJob]

\* Catalog: v is the recommended restore point.
FinishCatalog(v, supplied) ==
    LET a == [Activate(Done, app.job.source) EXCEPT !.volume = None, !.view = v,
                                                    !.catalog = app.job.source]
    IN  /\ app.job.kind = "open" /\ app.job.source \in ZfsSource
        /\ Becomes(Unlocked(a, supplied))

\* The image that frame tells of is entered, at its recommended volume.
Entered(a, frame, volume) ==
    Browse([a EXCEPT !.inception = Append(@, frame), !.volume = volume,
                     !.path = Root], Root)

\* InceptionOpened, standalone.
FinishImage(volume) ==
    LET s == app.job.source
    IN  /\ app.job.kind = "open" /\ s \in ImageSource
        /\ Becomes(Entered(Emptied(Activate(Done, s)),
                [source |-> s, view |-> None, path |-> None, volume |-> None], volume))

\* InceptionOpened, in the current directory.
FinishExplore(volume) ==
    LET base == IF app.inception = <<>> THEN app.catalog ELSE app.inception[1].source
    IN  /\ app.job.kind = "explore"
        /\ app.inception # <<>> => app.job.at.volume # None
        /\ Becomes(Entered(Done,
                [source |-> base, view |-> app.view, path |-> app.job.path,
                 volume |-> app.volume], volume))

FinishDirectory ==
    /\ app.job.kind = "browse"
    /\ Becomes([Done EXCEPT !.path = app.job.path,
                            !.listed = Place(app.job.at, app.job.path)])

FinishExtract ==
    /\ app.job.kind = "extract"
    /\ app.job.at.images # <<>> => app.job.at.volume # None
    /\ misplaced' = (misplaced \/ (steady /\ Place(app.job.at, app.job.path) # app.listed))
    /\ app' = Done
    /\ UNCHANGED <<clear, steady>>

\* The update returns, with or without success.
FinishUpdate == app.job.kind = "update" /\ Becomes(Done)

-----------------------------------------------------------------------------
(* handle_job_error.                                                       *)

\* retry_pending_job
Retried(a, kind) ==
    CASE kind = "open" -> OpenBox(a)
      [] kind = "browse" -> Browse(a, a.path)
      [] kind = "extract" -> Extracting(a)
      [] kind = "explore" -> IF Len(a.inception) < MaxFrames THEN Exploring(a) ELSE a
      [] OTHER -> Updating(a)

\* restore_source_box_after_failed_open
BoxRestored(a, kind) ==
    IF kind = "open" /\ Active(a) # None THEN [a EXCEPT !.box = Active(a)] ELSE a

\* If steady, a listing of another place than the shown one succeeds.
MayFail ==
    (steady /\ app.job.kind = "browse" /\ app.listed # None) =>
        app.listed.context = app.job.at

\* A locked container: another passphrase, or none.
ContainerKeyNeeded(supplied) ==
    LET kind == app.job.kind
    IN  /\ kind \in {"open", "browse", "extract", "explore"}
        /\ kind # "open" => app.inception = <<>>
        /\ supplied \/ MayFail
        /\ Becomes(IF supplied
                   THEN Retried([Done EXCEPT !.container_key = {app.box}], kind)
                   ELSE BoxRestored([Done EXCEPT !.container_key = {}], kind))

\* A missing or wrong key: the list is emptied before the job is tried again.
KeyNeeded(supplied) ==
    LET a == ClearDirectory(RemoveKeys(Done))
    IN  /\ \/ app.job.kind = "update"
           \/ /\ app.job.kind \in {"browse", "extract", "explore"}
              /\ app.inception = <<>> /\ app.view \in Encrypted
        /\ Becomes(IF supplied THEN Retried(StoreKey(a), app.job.kind) ELSE a)

\* Another error of an open: the user gives up (the source box is put back
\* or, from some dialogs, is not) or chooses another source.
OpenFails(box) ==
    /\ app.job.kind = "open"
    /\ \/ Becomes(BoxRestored(Done, "open"))
       \/ Becomes(Done)
       \/ Becomes(OpenBox([Done EXCEPT !.box = box]))

\* Another error of a listing, an extraction or an image.
JobFails(restore) ==
    /\ app.job.kind \in {"browse", "extract", "explore"}
    /\ MayFail
    /\ Becomes(IF restore /\ app.job.kind = "explore" THEN Extracting(Done) ELSE Done)

WindowsNext ==
    \/ \E s \in Source : OpenSource(s)
    \/ CloseSource
    \/ \E v \in View, supplied \in BOOLEAN : SelectView(v, supplied)
    \/ \E v \in Volume : SelectVolume(v)
    \/ \E p \in Dir : Go(p)
    \/ EnterKey
    \/ EnterContainerKey
    \/ ClearCredentials
    \/ extract_selected
    \/ Explore
    \/ LeaveImage
    \/ Update
    \/ \E v \in View, supplied \in BOOLEAN : FinishCatalog(v, supplied)
    \/ \E v \in Volume : FinishImage(v) \/ FinishExplore(v)
    \/ FinishDirectory
    \/ FinishExtract
    \/ FinishUpdate
    \/ \E supplied \in BOOLEAN : ContainerKeyNeeded(supplied) \/ KeyNeeded(supplied)
    \/ \E s \in Source : OpenFails(s)
    \/ \E restore \in BOOLEAN : JobFails(restore)

WindowsSpec == WindowsInit /\ [][WindowsNext]_windowsVars

-----------------------------------------------------------------------------
\* AppState, with no more images open than the client allows.
WindowsTypeOK ==
    /\ app.catalog \in ZfsSource \cup {None} /\ app.view \in View \cup {None}
    /\ app.inception \in Seq(ImageFrame) /\ Len(app.inception) <= MaxFrames
    /\ app.volume \in Volume \cup {None} /\ app.path \in Dir
    /\ app.box \in Source \cup {None}
    /\ app.keys \subseteq Secret
    /\ Cardinality(app.container_key) <= 1
    /\ app.job.kind \in {"none", "open", "browse", "extract", "explore", "update"}

\* A result never arrives in a window that has moved on: while a worker reads
\* a view or an image, that is what the window has open, so a listing is
\* never shown, nor an image entered, under another backup or restore point.
ResultFitsState ==
    app.job.kind \in {"browse", "extract", "explore"} => app.job.at = Context(app)

\* A restore takes the file from the place whose list was on the screen, if
\* the first listing after a change of place succeeds.
RestoredIsListed == ~misplaced

\* K holds no key that was entered for another backup or restore point than
\* the open one.
InScope(a, K) ==
    \A k \in K : k.source \in {None, Active(a)} /\ k.view \in {None, a.view}

\* A job that reads the open backup is given no key that was entered for
\* another backup or restore point, and an opening no passphrase of another
\* path.  An update is given none while the window has a key that was entered
\* for the open restore point: when it has not, see UpdateKeyInScope.
KeyInScope ==
    /\ app.job.kind \in {"browse", "extract", "explore"} =>
          InScope(app, app.job.keys)
    /\ app.job.kind = "open" => app.job.container \subseteq {None, app.job.source}
    /\ /\ app.job.kind = "update" /\ source_open(app)
       /\ [source |-> Active(app), view |-> CredentialView(app)] \in app.keys
       => InScope(app, app.job.keys)

\* windows-client.md: keys are "scoped to the backup and restore point".  Not
\* so for an update: while a restore point is open that has no key, it is given
\* the newest of all keys, which may be another's (mod.rs:1698).
UpdateKeyInScope ==
    app.job.kind = "update" /\ source_open(app) => InScope(app, app.job.keys)

\* With the setting on, the keys of a restore point do not survive the opening
\* of another backup: every key of a restore point is of the open one.  A path
\* that opens both as a backup and as a disk image keeps its keys while it is
\* open as an image.
OthersForgotten ==
    clear => \A k \in app.keys :
        k.view # None /\ k.source \notin ImageSource => k.source = app.catalog
=============================================================================
