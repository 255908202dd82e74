--------------------------- MODULE DesktopSession ---------------------------
(***************************************************************************)
(* The session of the desktop bridge (src/bin/zfs-explore-service.rs) and  *)
(* the screen of the client that drives it (macos/ZFSExplore.swift).       *)
(* Requests are handled one at a time; each one reads the source, perhaps  *)
(* several times, and any reading can fail.  The client replaces its       *)
(* screen when a request succeeds and keeps it when one fails, and names a *)
(* file to restore by its entry on the screen only.                        *)
(*                                                                         *)
(* Sources are opened again by path for every request, and the view is     *)
(* looked up by its selector in whatever is there: another ZFS medium at   *)
(* the path that has a view of the same name is read without a question.   *)
(* A device that the user may not open is read through a handle that the   *)
(* system handed out after a prompt, kept by path in AUTHORIZED_SOURCES    *)
(* (src/source.rs).  The media behind the paths, and the user, are         *)
(* external; a view that the medium at the path lacks is a reading that    *)
(* fails.                                                                  *)
(***************************************************************************)
EXTENDS Integers, Sequences, ClientPlaces

CONSTANTS
    Path, Device,         \* paths, and the device nodes among them
    Restricted,           \* the device nodes that the user cannot open
    Medium, Zfs, Image,   \* media; ZFS sources and disk images among them
    Key, KeyOf(_, _),     \* keys, and the key of an encrypted view of a medium
    MaxLayers             \* how many disk images can be open (8 in the code)

ASSUME DesktopAssumption ==
    /\ Restricted \subseteq Device /\ Device \subseteq Path
    /\ Zfs \subseteq Medium /\ Image \subseteq Medium /\ Zfs \cap Image = {}
    /\ \A m \in Zfs, v \in Encrypted : KeyOf(m, v) \in Key
    /\ MaxLayers \in Nat \ {0}
    /\ None \notin Path \cup Medium \cup Key

VARIABLES
    session,   \* Session
    handles,   \* AUTHORIZED_SOURCES: the medium behind each pinned handle
    attached,  \* the medium at each path now
    flaky,     \* may a listing fail that has just succeeded?
    screen,    \* what the client shows: the last state it was sent
    exchanged, \* history: another medium took the place of the session's
    astray     \* history: a restore was from elsewhere than the screen said

vars == <<session, handles, attached, flaky, screen, exchanged, astray>>

Layer == [volume : Volume \cup {None}, path : Dir]

Session ==
    [source : Zfs \cup {None}, medium : Medium \cup {None},
     at : Path \cup {None}, view : View \cup {None}, path : Dir,
     key : Key \cup {None}, layers : Seq(Layer),
     authorized : Path \cup {None},
     \* history: what the last Unlock was tried on
     unlocked : [medium : Zfs, view : View] \cup {None}]

NoSession ==
    [source |-> None, medium |-> None, at |-> None, view |-> None,
     path |-> Root, key |-> None, layers |-> <<>>, authorized |-> None,
     unlocked |-> None]

-----------------------------------------------------------------------------
(* Reading.                                                                *)

Top(s) == s.layers[Len(s.layers)]

\* current_path
CurrentPath(s) == IF s.layers = <<>> THEN s.path ELSE Top(s).path

\* What state() tells the client of where the session is.
Location(s) == [source |-> s.source, view |-> s.view, layers |-> s.layers,
                path |-> CurrentPath(s)]

Locked(s) ==
    /\ s.layers = <<>> /\ s.key = None
    /\ s.source # None /\ s.view \in Encrypted

\* open_read_only: the medium that a path is read from, None if it cannot
\* be.  A pinned handle is used only while its device is still there.
OpenReadOnly(p, hs) ==
    IF hs[p] # None THEN IF attached[p] = hs[p] THEN hs[p] ELSE None
    ELSE IF p \in Restricted THEN None ELSE attached[p]

\* open_pool_member: the medium at the path, whichever it is by now.
Reopened(s, hs) == OpenReadOnly(s.at, hs)

\* list_directory_with_key_material: the view by its selector, with its key;
\* io is the fate of the reading.
ListsSource(s, hs, io) ==
    /\ s.source # None
    /\ Reopened(s, hs) \in Zfs
    /\ s.view \in Encrypted => s.key = KeyOf(Reopened(s, hs), s.view)
    /\ io

\* list: a disk image is read through its own open handle, a source by path.
Lists(s, hs, io) ==
    IF s.layers # <<>> THEN Top(s).volume = None \/ io ELSE ListsSource(s, hs, io)

\* state() succeeds.
Browsable(s, hs, io) ==
    \/ Locked(s)
    \/ s.source = None /\ s.layers = <<>>
    \/ Lists(s, hs, io)

\* An entry of the current directory can be opened.
HasEntry(s, hs) ==
    Lists(s, hs, TRUE) /\ (s.layers # <<>> => Top(s).volume # None)

-----------------------------------------------------------------------------
Init ==
    /\ session = NoSession
    /\ handles = [p \in Path |-> None]
    /\ attached \in [Path -> Medium \cup {None}]
    /\ flaky \in BOOLEAN
    /\ screen = Location(NoSession)
    /\ exchanged = FALSE /\ astray = FALSE

\* The request succeeds with session s.
Accept(s) ==
    /\ session' = s /\ screen' = Location(s)
    /\ UNCHANGED <<handles, attached, flaky, exchanged, astray>>

\* The request fails with session s: the client keeps its screen.
Reject(s) ==
    /\ session' = s
    /\ UNCHANGED <<handles, attached, flaky, screen, exchanged, astray>>

\* The session is read from m if it is read from p.
Exchange(p, m) == exchanged \/ (p = session.at /\ m \notin {session.source, None})

\* release_authorized_sources
Released(hs, keep) == [p \in Path |-> IF p = keep THEN hs[p] ELSE None]

\* The layer of an image: its only supported volume, or none chosen.
NewLayer(volume) == [volume |-> volume, path |-> Root]

\* open_source: the session that opening the medium m at p leads to.
Candidate(m, p, view, volume) ==
    [NoSession EXCEPT
        !.source = IF m \in Zfs THEN m ELSE None,
        !.medium = m, !.at = p,
        !.view = IF m \in Zfs THEN view ELSE None,
        !.layers = IF m \in Zfs THEN <<>> ELSE <<NewLayer(volume)>>]

\* Mutant: a failed open keeps the handle it asked for.
OpenLeaks(p, authorize, view, volume, io) ==
    LET hs == IF authorize THEN [handles EXCEPT ![p] = attached[p]] ELSE handles
        m  == OpenReadOnly(p, hs)
        s  == [Candidate(m, p, view, volume) EXCEPT
                  !.authorized = IF authorize THEN p ELSE None]
    IN  /\ authorize => p \in Device /\ attached[p] # None
        /\ IF m \in Zfs \cup Image /\ Browsable(s, hs, io)
           THEN /\ session' = s /\ screen' = Location(s) /\ exchanged' = FALSE
                /\ handles' = Released(hs, s.authorized)
           ELSE /\ handles' = hs
                /\ UNCHANGED <<session, screen, exchanged>>
        /\ UNCHANGED <<attached, flaky, astray>>

\* Open: ask for access, open the source as a stream, a pool or an image,
\* list it, and only then replace the session.  The view is the recommended
\* one.  A prompt that is refused ends the request before it has changed
\* anything.
Open(p, authorize, view, volume, io) ==
    LET hs == IF authorize THEN [handles EXCEPT ![p] = attached[p]] ELSE handles
        m  == OpenReadOnly(p, hs)
        s  == [Candidate(m, p, view, volume) EXCEPT
                  !.authorized = IF authorize THEN p ELSE None]
    IN  /\ authorize => p \in Device /\ attached[p] # None
        /\ IF m \in Zfs \cup Image /\ Browsable(s, hs, io)
           THEN /\ session' = s /\ screen' = Location(s) /\ exchanged' = FALSE
                /\ handles' = Released(hs, s.authorized)
           ELSE /\ handles' = Released(hs, session.authorized)
                /\ exchanged' = IF authorize /\ p = session.authorized
                                THEN Exchange(p, attached[p]) ELSE exchanged
                /\ UNCHANGED <<session, screen>>
        /\ UNCHANGED <<attached, flaky, astray>>

\* Mutant: a key outlives the view it was given for.
SelectKeepsKey(view, io) ==
    LET s == [session EXCEPT !.view = view, !.path = Root, !.layers = <<>>]
    IN  /\ session.source # None
        /\ IF Browsable(s, handles, io) THEN Accept(s) ELSE Reject(session)

\* Select: forgets path, key and images, and takes them back on an error.
Select(view, io) ==
    LET s == [session EXCEPT !.view = view, !.path = Root, !.key = None,
                             !.layers = <<>>]
    IN  /\ session.source # None
        /\ IF Browsable(s, handles, io) THEN Accept(s) ELSE Reject(session)

\* Unlock: the root of the view is listed with the key before it is kept.
Unlock(key, io, again) ==
    LET m == OpenReadOnly(session.at, handles)
        s == [session EXCEPT !.key = key, !.path = Root,
                             !.unlocked = [medium |-> m, view |-> session.view]]
        root == [s EXCEPT !.layers = <<>>]
        fine == IF s.layers = <<>> THEN again ELSE io
    IN  /\ session.source # None
        /\ IF ~Lists(root, handles, TRUE) THEN Reject(session)
           ELSE IF Browsable(s, handles, fine) THEN Accept(s) ELSE Reject(s)

\* The session with path p in its top image or in the source.
AtPath(s, p) ==
    IF s.layers = <<>> THEN [s EXCEPT !.path = p]
    ELSE [s EXCEPT !.layers[Len(s.layers)].path = p]

\* List: the directory is listed, becomes the current one, and is listed
\* again for the answer.
List(p, io, again) ==
    LET s == AtPath(session, p)
    IN  IF ~Lists(s, handles, io) THEN Reject(session)
        ELSE IF Browsable(s, handles, again) THEN Accept(s) ELSE Reject(s)

\* Enter: an image in the current directory is opened and becomes a layer;
\* it is taken back if it cannot be listed.
Enter(volume, io) ==
    LET s == [session EXCEPT !.layers = Append(@, NewLayer(volume))]
    IN  /\ Len(session.layers) < MaxLayers
        /\ HasEntry(session, handles)
        /\ IF Browsable(s, handles, io) THEN Accept(s) ELSE Reject(session)

Popped(s) == [s EXCEPT !.layers = SubSeq(@, 1, Len(@) - 1)]

\* Mutant: an image that was left is not taken back on an error.
BackOnly(io) ==
    LET s == Popped(session)
    IN  /\ Len(session.layers) > (IF session.source = None THEN 1 ELSE 0)
        /\ IF Browsable(s, handles, io) THEN Accept(s) ELSE Reject(s)

\* Back: leaves the top image, and returns to it on an error.
Back(io) ==
    LET s == Popped(session)
    IN  /\ Len(session.layers) > (IF session.source = None THEN 1 ELSE 0)
        /\ IF Browsable(s, handles, io) THEN Accept(s) ELSE Reject(session)

\* Volume: a supported volume of the top image, once its root was listed.
ChooseVolume(volume, io, again) ==
    LET s == [session EXCEPT !.layers[Len(session.layers)] = NewLayer(volume)]
    IN  /\ session.layers # <<>>
        /\ IF ~Lists(s, handles, io) THEN Reject(session)
           ELSE IF Browsable(s, handles, again) THEN Accept(s) ELSE Reject(s)

\* Extract: the client names an entry of its screen; the bridge takes the
\* entry of that name in its own current directory.
Extract ==
    /\ HasEntry(session, handles)
    /\ astray' = \/ astray
                 \/ Location(session) # screen
                 \/ /\ ~exchanged /\ session.layers = <<>>
                    /\ OpenReadOnly(session.at, handles) # screen.source
    /\ UNCHANGED <<session, handles, attached, flaky, screen, exchanged>>

Close ==
    /\ session' = NoSession /\ screen' = Location(NoSession) /\ exchanged' = FALSE
    /\ handles' = Released(handles, None)
    /\ UNCHANGED <<attached, flaky, astray>>

\* A medium is taken away, attached, or replaced by another at its path,
\* which a session without a pinned handle does not notice.
Replug(p, m) ==
    /\ attached' = [attached EXCEPT ![p] = m]
    /\ exchanged' = IF handles[p] = None THEN Exchange(p, m) ELSE exchanged
    /\ UNCHANGED <<session, handles, flaky, screen, astray>>

Next ==
    \/ \E p \in Path, view \in View, volume \in Volume \cup {None} :
          \E authorize, io \in BOOLEAN : Open(p, authorize, view, volume, io)
    \/ \E view \in View, io \in BOOLEAN : Select(view, io)
    \/ \E io \in BOOLEAN, again \in BOOLEAN :
          /\ again \/ flaky
          /\ \/ \E key \in Key : Unlock(key, io, again)
             \/ \E p \in Dir : List(p, io, again)
             \/ \E volume \in Volume : ChooseVolume(volume, io, again)
    \/ \E volume \in Volume \cup {None}, io \in BOOLEAN : Enter(volume, io)
    \/ \E io \in BOOLEAN : Back(io)
    \/ Extract
    \/ Close
    \/ \E p \in Path, m \in Medium \cup {None} : Replug(p, m)

Spec == Init /\ [][Next]_vars

-----------------------------------------------------------------------------
\* The session, with no more images open than the bridge allows.
TypeOK ==
    /\ session \in Session
    /\ Len(session.layers) <= MaxLayers
    /\ handles \in [Path -> Medium \cup {None}]
    /\ attached \in [Path -> Medium \cup {None}]
    /\ flaky \in BOOLEAN /\ exchanged \in BOOLEAN /\ astray \in BOOLEAN

\* The key that is kept is the key of the view that is open, in the medium it
\* was tried on, through every order of switching, unlocking, entering images
\* and errors in between: a key never outlives its view, and a rollback brings
\* back both or neither.
KeyFitsView ==
    session.key # None =>
        LET u == session.unlocked
        IN  /\ session.source # None /\ u.view = session.view
            /\ session.view \in Encrypted => session.key = KeyOf(u.medium, u.view)

\* A restore takes the file from the view, images and directory that the client
\* shows, whatever requests failed before, if a directory that was listed can
\* be listed again for the answer.  It takes it from the medium that the client
\* opened if the session has a pinned handle, whatever is at the path by then,
\* or no other medium came to its path.  The rest of the sessions open the path
\* again for each request and restore from a like-named view of whatever is
\* there, and so do those that asked for their own device again in vain.
RestoredIsShown ==
    ~flaky => ~astray

\* Between requests no handle to a device is held but the one of the session.
OnlyItsHandle ==
    /\ \A p \in Path : handles[p] # None => p = session.authorized
    /\ session.authorized # None => handles[session.authorized] # None
=============================================================================
