---------------------------- MODULE ClientProofs ----------------------------
(***************************************************************************)
(* The two clients.  The session of the desktop bridge keeps the key of its*)
(* view, the handle of its source and the place its client shows, for any  *)
(* number of paths, media, views, keys, directories and nested images.  The*)
(* Windows client keeps its results, its lists and its keys in step with the*)
(* backup they belong to, for any backups, restore points, directories,    *)
(* volumes and number of open images.                                      *)
(***************************************************************************)
EXTENDS DesktopSession, WindowsClient, TLAPS

-----------------------------------------------------------------------------
(* DesktopSession: the desktop bridge.                                     *)

\* If a listing that has just succeeded succeeds again, the client shows the
\* place where the session is, and no restore was from another one.
Shown == ~flaky => ~astray /\ screen = Location(session)

\* The session reads its own source, until another medium has taken its place.
Homed ==
    /\ session.authorized \in {None, session.at}
    /\ session.source # None =>
          /\ session.at \in Path /\ session.view \in View
          /\ exchanged \/ IF handles[session.at] # None
                          THEN handles[session.at] = session.source
                          ELSE attached[session.at] \in {session.source, None}

Inv == TypeOK /\ KeyFitsView /\ Shown /\ OnlyItsHandle /\ Homed

-----------------------------------------------------------------------------
(* The sessions that requests lead to.                                     *)

LEMMA NoSessionFacts ==
    /\ NoSession \in Session
    /\ NoSession.key = None /\ NoSession.authorized = None
    /\ NoSession.source = None
    /\ Len(NoSession.layers) = 0
BY DesktopAssumption, PlacesAssumption DEF NoSession, Session

\* A source that open_source finds gives a session without a key.
LEMMA CandidateFacts ==
    ASSUME NEW m \in Zfs \cup Image, NEW p \in Path, NEW view \in View,
           NEW volume \in Volume \cup {None}, NEW a \in Path \cup {None}
    PROVE  LET s == [Candidate(m, p, view, volume) EXCEPT !.authorized = a]
           IN  /\ s \in Session /\ Len(s.layers) <= MaxLayers
               /\ s.key = None /\ s.authorized = a /\ s.at = p
               /\ s.source # None => s.source = m /\ s.view = view
<1> DEFINE L == IF m \in Zfs THEN <<>> ELSE <<NewLayer(volume)>>
           src == IF m \in Zfs THEN m ELSE None
           v == IF m \in Zfs THEN view ELSE None
<1>1. NewLayer(volume) \in Layer
  BY DesktopAssumption, PlacesAssumption DEF NewLayer, Layer
<1>2. L \in Seq(Layer) /\ Len(L) <= MaxLayers
  BY <1>1, DesktopAssumption, PlacesAssumption
<1>3. /\ src \in Zfs \cup {None} /\ v \in View \cup {None} /\ m \in Medium \cup {None}
      /\ src # None => src = m /\ v = view
  BY DesktopAssumption, PlacesAssumption
<1>4. Candidate(m, p, view, volume) =
         [NoSession EXCEPT !.source = src, !.medium = m, !.at = p, !.view = v,
                           !.layers = L]
  BY DEF Candidate
<1> HIDE DEF L, src, v
<1> QED BY <1>2, <1>3, <1>4, NoSessionFacts DEF Session

\* The top image exists and is a layer.
LEMMA TopFacts ==
    ASSUME NEW s \in Session, s.layers # <<>>
    PROVE  /\ s.layers \in Seq(Layer) /\ Len(s.layers) \in Nat \ {0}
           /\ Top(s) \in Layer
           /\ Len(s.layers) \in 1..Len(s.layers)
BY DEF Session, Top

\* Replacing the top image keeps the others and their number.
LEMMA TopReplaced ==
    ASSUME NEW s \in Session, s.layers # <<>>, NEW l \in Layer
    PROVE  LET t == [s EXCEPT !.layers[Len(s.layers)] = l]
           IN  /\ t \in Session /\ t = [s EXCEPT !.layers = t.layers]
               /\ Len(t.layers) = Len(s.layers) /\ t.layers # <<>>
               /\ Top(t) = l
<1> DEFINE L == [s.layers EXCEPT ![Len(s.layers)] = l]
<1>1. /\ L \in Seq(Layer) /\ Len(L) = Len(s.layers) /\ L # <<>>
      /\ L[Len(L)] = l
  BY TopFacts
<1>2. [s EXCEPT !.layers[Len(s.layers)] = l] = [s EXCEPT !.layers = L]
  BY DEF Session
<1> HIDE DEF L
<1>3. /\ [s EXCEPT !.layers = L] \in Session
      /\ [s EXCEPT !.layers = L].layers = L
  BY <1>1 DEF Session
<1> QED BY <1>1, <1>2, <1>3 DEF Top

\* Moving to another directory changes a path and nothing else.
LEMMA AtPathFacts ==
    ASSUME NEW s \in Session, NEW p \in Dir
    PROVE  LET t == AtPath(s, p)
           IN  /\ t \in Session /\ Len(t.layers) = Len(s.layers)
               /\ t.source = s.source /\ t.view = s.view /\ t.key = s.key
               /\ t.unlocked = s.unlocked /\ t.authorized = s.authorized
               /\ t.at = s.at
<1>1. CASE s.layers = <<>>
  BY <1>1 DEF AtPath, Session
<1>2. CASE s.layers # <<>>
  <2> DEFINE l == [Top(s) EXCEPT !.path = p]
  <2>1. l \in Layer
    BY <1>2, TopFacts DEF Layer
  <2>2. AtPath(s, p) = [s EXCEPT !.layers[Len(s.layers)] = l]
    BY <1>2 DEF AtPath, Top, Session
  <2> HIDE DEF l
  <2> DEFINE t == [s EXCEPT !.layers[Len(s.layers)] = l]
  <2>3. /\ t \in Session /\ Len(t.layers) = Len(s.layers)
        /\ t = [s EXCEPT !.layers = t.layers]
    BY <1>2, <2>1, TopReplaced
  <2> HIDE DEF t
  <2>4. /\ t.source = s.source /\ t.view = s.view /\ t.key = s.key
        /\ t.unlocked = s.unlocked /\ t.authorized = s.authorized
        /\ t.at = s.at
    BY <2>3 DEF Session
  <2> QED BY <2>2, <2>3, <2>4 DEF t
<1> QED BY <1>1, <1>2

\* Entering an image adds a layer, leaving one takes it off.
LEMMA LayerFacts ==
    ASSUME NEW s \in Session, NEW l \in Layer
    PROVE  /\ LET t == [s EXCEPT !.layers = Append(s.layers, l)]
              IN  /\ t \in Session /\ Len(t.layers) = Len(s.layers) + 1
                  /\ t.source = s.source /\ t.view = s.view /\ t.key = s.key
                  /\ t.unlocked = s.unlocked /\ t.authorized = s.authorized
                  /\ t.at = s.at
           /\ s.layers # <<>> =>
              /\ Popped(s) \in Session /\ Len(Popped(s).layers) = Len(s.layers) - 1
              /\ Popped(s).source = s.source /\ Popped(s).view = s.view
              /\ Popped(s).key = s.key /\ Popped(s).unlocked = s.unlocked
              /\ Popped(s).authorized = s.authorized /\ Popped(s).at = s.at
<1>1. s.layers \in Seq(Layer)
  BY DEF Session
<1>2. Append(s.layers, l) \in Seq(Layer) /\ Len(Append(s.layers, l)) = Len(s.layers) + 1
  BY <1>1
<1>3. ASSUME s.layers # <<>>
      PROVE  /\ SubSeq(s.layers, 1, Len(s.layers) - 1) \in Seq(Layer)
             /\ Len(SubSeq(s.layers, 1, Len(s.layers) - 1)) = Len(s.layers) - 1
  BY <1>1, <1>3
<1>4. LET t == [s EXCEPT !.layers = Append(s.layers, l)]
      IN  /\ t \in Session /\ Len(t.layers) = Len(s.layers) + 1
          /\ t.source = s.source /\ t.view = s.view /\ t.key = s.key
          /\ t.unlocked = s.unlocked /\ t.authorized = s.authorized
          /\ t.at = s.at
  BY <1>2 DEF Session
<1> QED BY <1>3, <1>4 DEF Session, Popped

\* A directory that can be listed while reading may fail can be listed.
LEMMA ListsAgain ==
    ASSUME NEW s, NEW hs, NEW io \in BOOLEAN, Lists(s, hs, io)
    PROVE  Lists(s, hs, TRUE) /\ Browsable(s, hs, TRUE)
BY DEF Lists, ListsSource, Browsable

-----------------------------------------------------------------------------
(* Requests that leave the handles alone.                                  *)

\* Inv of the session alone, and of the session with its handles.
Fits(s) ==
    /\ s \in Session /\ Len(s.layers) <= MaxLayers
    /\ s.authorized = session.authorized /\ s.at = session.at
    /\ s.source = session.source /\ (s.source # None => s.view \in View)
    /\ s.key # None =>
          /\ s.source # None /\ s.unlocked.view = s.view
          /\ s.view \in Encrypted => s.key = KeyOf(s.unlocked.medium, s.unlocked.view)

LEMMA AcceptKeeps ==
    ASSUME Inv, NEW s, Fits(s), Accept(s)
    PROVE  Inv'
<1> USE DEF Inv, Accept, Fits
<1>1. TypeOK' /\ KeyFitsView'
  BY DEF TypeOK, KeyFitsView
<1>2. Shown'
  BY DEF Shown
<1>3. OnlyItsHandle' /\ Homed'
  BY DEF OnlyItsHandle, Homed
<1> QED BY <1>1, <1>2, <1>3

LEMMA RejectKeeps ==
    ASSUME Inv, NEW s, Fits(s), Reject(s), ~flaky => Location(s) = Location(session)
    PROVE  Inv'
<1> USE DEF Inv, Reject, Fits
<1>1. TypeOK' /\ KeyFitsView'
  BY DEF TypeOK, KeyFitsView
<1>2. Shown'
  BY DEF Shown
<1>3. OnlyItsHandle' /\ Homed'
  BY DEF OnlyItsHandle, Homed
<1> QED BY <1>1, <1>2, <1>3

LEMMA SessionFits == Inv => Fits(session)
BY DEF Inv, Fits, TypeOK, KeyFitsView, Homed

LEMMA SelectKeeps ==
    ASSUME Inv, NEW view \in View, NEW io \in BOOLEAN, Select(view, io)
    PROVE  Inv'
<1> DEFINE s == [session EXCEPT !.view = view, !.path = Root, !.key = None,
                                !.layers = <<>>]
<1>0. session \in Session /\ <<>> \in Seq(Layer)
  BY DEF Inv, TypeOK
<1>1. s \in Session /\ s.layers = <<>> /\ s.key = None /\ s.view = view
      /\ s.authorized = session.authorized /\ s.at = session.at
      /\ s.source = session.source
  BY <1>0, DesktopAssumption, PlacesAssumption DEF Session
<1>2. Accept(s) \/ Reject(session)
  BY DEF Select
<1> HIDE DEF s
<1>3. Fits(s)
  BY <1>1, DesktopAssumption, PlacesAssumption DEF Fits
<1> QED BY <1>2, <1>3, AcceptKeeps, RejectKeeps, SessionFits

\* The root of the view was listed with the key, so the key is the view's.
LEMMA UnlockKeeps ==
    ASSUME Inv, NEW key \in Key, NEW io \in BOOLEAN, NEW again \in BOOLEAN,
           again \/ flaky, Unlock(key, io, again)
    PROVE  Inv'
<1> DEFINE m == OpenReadOnly(session.at, handles)
           u == [medium |-> m, view |-> session.view]
           s == [session EXCEPT !.key = key, !.path = Root, !.unlocked = u]
           root == [s EXCEPT !.layers = <<>>]
           fine == IF s.layers = <<>> THEN again ELSE io
<1>0. session \in Session /\ Len(session.layers) <= MaxLayers
      /\ session.source # None /\ session.view \in View
  BY DEF Inv, TypeOK, Homed, Unlock
<1>1. s.layers = session.layers /\ s.view = session.view /\ s.at = session.at
      /\ s.source = session.source /\ s.key = key /\ s.authorized = session.authorized
      /\ s.unlocked = u /\ u.view = session.view /\ u.medium = m
      /\ (m \in Zfs => s \in Session)
  BY <1>0, DesktopAssumption, PlacesAssumption DEF Session
<1>2. root.layers = <<>> /\ root.source = s.source /\ root.view = s.view
      /\ root.key = key /\ root.at = s.at
  BY <1>0 DEF Session
<1>3. CASE ~Lists(root, handles, TRUE)
  <2>1. Reject(session)
    BY <1>3 DEF Unlock
  <2> QED BY <2>1, SessionFits, RejectKeeps
<1>4. CASE Lists(root, handles, TRUE)
  <2>0. m \in Zfs /\ (s.view \in Encrypted => key = KeyOf(m, s.view))
    BY <1>1, <1>2, <1>4 DEF Lists, ListsSource, Reopened
  <2>1. Fits(s)
    <3> HIDE DEF m, u, s
    <3> QED BY <1>0, <1>1, <2>0 DEF Fits
  <2>2. CASE Browsable(s, handles, fine)
    <3>1. Accept(s)
      BY <1>4, <2>2 DEF Unlock
    <3> QED BY <2>1, <3>1, AcceptKeeps
  <2>3. CASE ~Browsable(s, handles, fine)
    <3>1. Reject(s)
      BY <1>4, <2>3 DEF Unlock
    <3>2. ASSUME ~flaky PROVE s.layers # <<>>
      BY <1>1, <1>2, <1>4, <2>3, <3>2 DEF Lists, ListsSource, Reopened, Browsable
    <3>3. ~flaky => Location(s) = Location(session)
      BY <1>1, <3>2 DEF Location, CurrentPath, Top
    <3> QED BY <2>1, <3>1, <3>3, RejectKeeps
  <2> QED BY <2>2, <2>3
<1> QED BY <1>3, <1>4

LEMMA ListKeeps ==
    ASSUME Inv, NEW p \in Dir, NEW io \in BOOLEAN, NEW again \in BOOLEAN,
           again \/ flaky, List(p, io, again)
    PROVE  Inv'
<1> DEFINE s == AtPath(session, p)
<1>1. Fits(s)
  BY AtPathFacts DEF Inv, TypeOK, KeyFitsView, Fits, Homed
<1>2. \/ Reject(session)
      \/ Accept(s)
      \/ Reject(s) /\ Lists(s, handles, io) /\ ~Browsable(s, handles, again)
  BY DEF List
<1> HIDE DEF s
<1>3. Lists(s, handles, io) /\ ~Browsable(s, handles, again) => flaky
  BY ListsAgain
<1> QED BY <1>1, <1>2, <1>3, AcceptKeeps, RejectKeeps, SessionFits

LEMMA ChooseVolumeKeeps ==
    ASSUME Inv, NEW volume \in Volume, NEW io \in BOOLEAN, NEW again \in BOOLEAN,
           again \/ flaky, ChooseVolume(volume, io, again)
    PROVE  Inv'
<1> DEFINE s == [session EXCEPT !.layers[Len(session.layers)] = NewLayer(volume)]
<1>1. session \in Session /\ session.layers # <<>> /\ NewLayer(volume) \in Layer
  BY DesktopAssumption, PlacesAssumption DEF Inv, TypeOK, ChooseVolume, NewLayer, Layer
<1>2. s \in Session /\ s = [session EXCEPT !.layers = s.layers]
      /\ Len(s.layers) = Len(session.layers)
  BY <1>1, TopReplaced
<1>3. \/ Reject(session)
      \/ Accept(s)
      \/ Reject(s) /\ Lists(s, handles, io) /\ ~Browsable(s, handles, again)
  BY DEF ChooseVolume
<1> HIDE DEF s
<1>4. s.source = session.source /\ s.view = session.view /\ s.key = session.key
      /\ s.unlocked = session.unlocked /\ s.authorized = session.authorized
      /\ s.at = session.at
  BY <1>1, <1>2 DEF Session
<1>5. Fits(s)
  BY <1>2, <1>4 DEF Inv, TypeOK, KeyFitsView, Fits, Homed
<1>6. Lists(s, handles, io) /\ ~Browsable(s, handles, again) => flaky
  BY ListsAgain
<1> QED BY <1>3, <1>5, <1>6, AcceptKeeps, RejectKeeps, SessionFits

LEMMA EnterKeeps ==
    ASSUME Inv, NEW volume \in Volume \cup {None}, NEW io \in BOOLEAN,
           Enter(volume, io)
    PROVE  Inv'
<1> DEFINE s == [session EXCEPT !.layers = Append(session.layers, NewLayer(volume))]
<1>1. session \in Session /\ NewLayer(volume) \in Layer
  BY DesktopAssumption, PlacesAssumption DEF Inv, TypeOK, NewLayer, Layer
<1>2. s = [session EXCEPT !.layers = Append(@, NewLayer(volume))]
  BY <1>1 DEF Session
<1>3. Len(session.layers) < MaxLayers /\ (Accept(s) \/ Reject(session))
  BY <1>2 DEF Enter
<1>4. Len(session.layers) \in Nat
  BY <1>1 DEF Session
<1>5. Fits(s)
  BY <1>1, <1>3, <1>4, LayerFacts, DesktopAssumption, PlacesAssumption
     DEF Inv, KeyFitsView, Fits, Homed
<1> HIDE DEF s
<1> QED BY <1>3, <1>5, AcceptKeeps, RejectKeeps, SessionFits

LEMMA BackKeeps ==
    ASSUME Inv, NEW io \in BOOLEAN, Back(io)
    PROVE  Inv'
<1>1. session \in Session /\ Len(session.layers) <= MaxLayers /\ Len(session.layers) \in Nat
  BY DEF Inv, TypeOK, Session
<1>2. Accept(Popped(session)) \/ Reject(session)
  BY DEF Back
<1>3. Len(session.layers) > 0 /\ session.layers # <<>>
  BY <1>1 DEF Back
<1>4. NewLayer(None) \in Layer
  BY DesktopAssumption, PlacesAssumption DEF NewLayer, Layer
<1>5. /\ Popped(session) \in Session
      /\ Len(Popped(session).layers) = Len(session.layers) - 1
      /\ Popped(session).source = session.source /\ Popped(session).view = session.view
      /\ Popped(session).key = session.key
      /\ Popped(session).unlocked = session.unlocked
      /\ Popped(session).authorized = session.authorized
      /\ Popped(session).at = session.at
  BY <1>1, <1>3, <1>4, LayerFacts
<1>6. Fits(Popped(session))
  BY <1>1, <1>5, DesktopAssumption, PlacesAssumption DEF Inv, KeyFitsView, Fits, Homed
<1> QED BY <1>2, <1>6, AcceptKeeps, RejectKeeps, SessionFits

-----------------------------------------------------------------------------
(* Requests that change the handles.                                       *)

\* After either end of an Open only the handle of the session that stays is
\* held, and it is held if that session asked for it.
LEMMA OpenKeeps ==
    ASSUME Inv, NEW p \in Path, NEW view \in View,
           NEW volume \in Volume \cup {None}, NEW authorize \in BOOLEAN,
           NEW io \in BOOLEAN, Open(p, authorize, view, volume, io)
    PROVE  Inv'
<1> DEFINE hs == IF authorize THEN [handles EXCEPT ![p] = attached[p]] ELSE handles
           m  == OpenReadOnly(p, hs)
           a  == IF authorize THEN p ELSE None
           s  == [Candidate(m, p, view, volume) EXCEPT !.authorized = a]
<1>1. /\ handles \in [Path -> Medium \cup {None}]
      /\ attached \in [Path -> Medium \cup {None}]
      /\ session.authorized \in Path \cup {None}
  BY DEF Inv, TypeOK, Session
<1>2. hs \in [Path -> Medium \cup {None}] /\ a \in Path \cup {None}
  BY <1>1
<1>3. authorize => hs[p] # None
  BY <1>1 DEF Open
<1>4. \A q \in Path : q # p => hs[q] = handles[q]
  BY <1>1
<1>5. ~authorize => hs = handles
  OBVIOUS
<1>6. \A k : /\ Released(hs, k) \in [Path -> Medium \cup {None}]
             /\ \A q \in Path : Released(hs, k)[q] = IF q = k THEN hs[q] ELSE None
  BY <1>2, DesktopAssumption, PlacesAssumption DEF Released
<1>7. CASE m \in Zfs \cup Image /\ Browsable(s, hs, io)
  <2>1. /\ session' = s /\ screen' = Location(s) /\ handles' = Released(hs, s.authorized)
        /\ exchanged' = FALSE /\ UNCHANGED <<attached, flaky, astray>>
    BY <1>7 DEF Open
  <2>2. /\ s \in Session /\ Len(s.layers) <= MaxLayers /\ s.key = None
        /\ s.authorized = a /\ s.at = p /\ (s.source # None => s.source = m /\ s.view = view)
    <3> HIDE DEF hs, m, a
    <3> QED BY <1>2, <1>7, CandidateFacts
  <2>0. m = attached[p] /\ (authorize => hs[p] = m)
    <3>1. m # None
      BY <1>7, DesktopAssumption, PlacesAssumption
    <3>2. authorize => hs[p] = attached[p]
      BY <1>1
    <3> HIDE DEF hs
    <3> QED BY <3>1, <3>2 DEF OpenReadOnly
  <2> HIDE DEF hs, m, s
  <2>3. TypeOK' /\ KeyFitsView'
    BY <1>6, <2>1, <2>2 DEF Inv, TypeOK, KeyFitsView
  <2>4. Shown'
    BY <2>1 DEF Inv, Shown
  <2>5. OnlyItsHandle'
    BY <1>3, <1>6, <2>1, <2>2, DesktopAssumption, PlacesAssumption DEF OnlyItsHandle
  <2>6. Homed'
    <3>1. authorize => handles'[p] = m /\ m # None
      BY <1>3, <1>6, <2>0, <2>1, <2>2
    <3>2. ~authorize => handles'[p] = None
      BY <1>6, <2>1, <2>2, DesktopAssumption
    <3> QED BY <2>0, <2>1, <2>2, <3>1, <3>2 DEF Homed
  <2> QED BY <2>3, <2>4, <2>5, <2>6 DEF Inv
<1>8. CASE ~(m \in Zfs \cup Image /\ Browsable(s, hs, io))
  <2>1. /\ handles' = Released(hs, session.authorized)
        /\ exchanged' = IF authorize /\ p = session.authorized
                        THEN Exchange(p, attached[p]) ELSE exchanged
        /\ UNCHANGED <<session, screen, attached, flaky, astray>>
    BY <1>8 DEF Open
  <2>0. (authorize => hs[p] = attached[p] /\ attached[p] # None)
        /\ exchanged \in BOOLEAN
    BY <1>1 DEF Open, Inv, TypeOK
  <2> HIDE DEF hs, m, s
  <2>2. TypeOK' /\ KeyFitsView'
    <3>1. exchanged' \in BOOLEAN
      BY <2>0, <2>1 DEF Exchange
    <3> QED BY <1>6, <2>1, <3>1 DEF Inv, TypeOK, KeyFitsView
  <2>3. Shown'
    BY <2>1 DEF Inv, Shown, Location, CurrentPath, Top
  <2>4. OnlyItsHandle'
    BY <1>1, <1>3, <1>4, <1>5, <1>6, <2>1, DesktopAssumption, PlacesAssumption DEF Inv, OnlyItsHandle
  <2>5. Homed'
    <3>1. SUFFICES ASSUME session.source # None, ~exchanged'
                   PROVE  IF handles'[session.at] # None
                          THEN handles'[session.at] = session.source
                          ELSE attached[session.at] \in {session.source, None}
      BY <2>1 DEF Inv, Homed
    <3>2. session.at \in Path /\ ~exchanged
      BY <2>1, <3>1 DEF Inv, Homed, Exchange
    <3>3. CASE session.authorized = None
      <4>1. handles[session.at] = None /\ handles'[session.at] = None
        BY <1>6, <2>1, <3>2, <3>3, DesktopAssumption DEF Inv, OnlyItsHandle
      <4> QED BY <3>1, <3>2, <4>1 DEF Inv, Homed
    <3>4. CASE session.authorized = session.at
      <4>1. handles'[session.at] = hs[session.at] /\ handles[session.at] # None
        BY <1>6, <2>1, <3>2, <3>4, DesktopAssumption DEF Inv, OnlyItsHandle
      <4>2. handles[session.at] = session.source
        BY <3>1, <3>2, <4>1 DEF Inv, Homed
      <4>3. CASE authorize /\ p = session.at
        <5>1. attached[p] \in {session.source, None}
          BY <2>1, <3>1, <3>4, <4>3 DEF Exchange
        <5> QED BY <2>0, <4>1, <4>3, <5>1
      <4>4. CASE ~(authorize /\ p = session.at)
        <5>1. hs[session.at] = handles[session.at]
          BY <1>4, <1>5, <3>2, <4>4
        <5> QED BY <4>1, <4>2, <5>1
      <4> QED BY <4>3, <4>4
    <3> QED BY <3>3, <3>4 DEF Inv, Homed
  <2> QED BY <2>2, <2>3, <2>4, <2>5 DEF Inv
<1> QED BY <1>7, <1>8

LEMMA CloseKeeps ==
    ASSUME Inv, Close
    PROVE  Inv'
<1>1. /\ Released(handles, None) \in [Path -> Medium \cup {None}]
      /\ \A p \in Path : Released(handles, None)[p] = None
  BY DesktopAssumption, PlacesAssumption DEF Inv, TypeOK, Released
<1>2. TypeOK' /\ KeyFitsView'
  <2>1. /\ session' = NoSession /\ exchanged' = FALSE
        /\ handles' = Released(handles, None)
        /\ UNCHANGED <<attached, flaky, astray>>
    BY DEF Close
  <2>2. TypeOK'
    <3>1. session' \in Session /\ Len(session'.layers) <= MaxLayers
      BY <2>1, NoSessionFacts, DesktopAssumption
    <3>2. /\ handles' \in [Path -> Medium \cup {None}]
          /\ attached' \in [Path -> Medium \cup {None}]
      BY <1>1, <2>1 DEF Inv, TypeOK
    <3>3. flaky' \in BOOLEAN /\ exchanged' \in BOOLEAN /\ astray' \in BOOLEAN
      BY <2>1 DEF Inv, TypeOK
    <3> QED BY <3>1, <3>2, <3>3 DEF TypeOK
  <2>3. KeyFitsView'
    BY <2>1, NoSessionFacts DEF KeyFitsView
  <2> QED BY <2>2, <2>3
<1>3. Shown'
  BY DEF Inv, Close, Shown
<1>4. OnlyItsHandle' /\ Homed'
  BY <1>1, NoSessionFacts DEF Close, OnlyItsHandle, Homed
<1> QED BY <1>2, <1>3, <1>4 DEF Inv

LEMMA ExtractKeeps ==
    ASSUME Inv, Extract
    PROVE  Inv'
<1>1. /\ session' = session /\ handles' = handles /\ attached' = attached
      /\ flaky' = flaky /\ screen' = screen /\ exchanged' = exchanged
      /\ astray' \in BOOLEAN
  BY DEF Extract
<1>2. TypeOK' /\ KeyFitsView' /\ OnlyItsHandle' /\ Homed'
  BY <1>1 DEF Inv, TypeOK, KeyFitsView, OnlyItsHandle, Homed
<1>3. ASSUME ~exchanged, session.layers = <<>>
      PROVE  OpenReadOnly(session.at, handles) = session.source
  <2>1. /\ session.source # None
        /\ OpenReadOnly(session.at, handles) # None
    BY <1>3, DesktopAssumption DEF Extract, HasEntry, Lists, ListsSource, Reopened
  <2> QED BY <1>3, <2>1 DEF OpenReadOnly, Inv, Homed
<1>4. ASSUME ~flaky PROVE ~astray' /\ screen = Location(session)
  <2>1. ~astray /\ screen = Location(session)
    BY <1>4 DEF Inv, Shown
  <2>2. screen.source = session.source
    BY <2>1 DEF Location
  <2> QED BY <1>3, <2>1, <2>2 DEF Extract
<1>5. Shown'
  BY <1>1, <1>4 DEF Shown, Location, CurrentPath, Top
<1> QED BY <1>2, <1>5 DEF Inv

LEMMA ReplugKeeps ==
    ASSUME Inv, NEW p \in Path, NEW m \in Medium \cup {None}, Replug(p, m)
    PROVE  Inv'
<1>1. TypeOK' /\ KeyFitsView' /\ OnlyItsHandle'
  <2>1. exchanged' \in BOOLEAN
    BY DEF Inv, TypeOK, Replug, Exchange
  <2> QED BY <2>1 DEF Inv, Replug, TypeOK, KeyFitsView, OnlyItsHandle
<1>2. Shown'
  BY DEF Inv, Replug, Shown, Location, CurrentPath, Top
<1>3. Homed'
  <2>1. /\ session' = session /\ handles' = handles
        /\ attached' = [attached EXCEPT ![p] = m]
        /\ exchanged' = IF handles[p] = None THEN Exchange(p, m) ELSE exchanged
    BY DEF Replug
  <2>2. attached \in [Path -> Medium \cup {None}]
    BY DEF Inv, TypeOK
  <2>3. CASE p # session.at
    <3>1. session.at \in Path => attached'[session.at] = attached[session.at]
      BY <2>1, <2>2, <2>3
    <3>2. exchanged' => exchanged
      BY <2>1, <2>3 DEF Exchange
    <3>3. exchanged => exchanged'
      BY <2>1 DEF Exchange
    <3> QED BY <2>1, <3>1, <3>2, <3>3 DEF Inv, Homed
  <2>4. CASE p = session.at /\ handles[p] # None
    BY <2>1, <2>4 DEF Inv, Homed
  <2>5. CASE p = session.at /\ handles[p] = None
    <3>1. attached'[session.at] = m
      BY <2>1, <2>2, <2>5
    <3>2. m \notin {session.source, None} => exchanged'
      BY <2>1, <2>5 DEF Exchange
    <3> QED BY <2>1, <2>5, <3>1, <3>2 DEF Inv, Homed
  <2> QED BY <2>3, <2>4, <2>5
<1> QED BY <1>1, <1>2, <1>3 DEF Inv

-----------------------------------------------------------------------------
LEMMA InitInv == Init => Inv
<1> SUFFICES ASSUME Init PROVE Inv
  OBVIOUS
<1>0. 0 <= MaxLayers
  BY DesktopAssumption, PlacesAssumption
<1>1. TypeOK /\ KeyFitsView
  BY <1>0, NoSessionFacts DEF Init, TypeOK, KeyFitsView
<1>2. Shown
  BY DEF Init, Shown
<1>3. OnlyItsHandle /\ Homed
  BY NoSessionFacts DEF Init, OnlyItsHandle, Homed
<1> QED BY <1>1, <1>2, <1>3 DEF Inv

LEMMA NextInv == Inv /\ [Next]_vars => Inv'
<1> SUFFICES ASSUME Inv, [Next]_vars PROVE Inv'
  OBVIOUS
<1>1. CASE Next
  BY <1>1, OpenKeeps, SelectKeeps, UnlockKeeps, ListKeeps, ChooseVolumeKeeps,
     EnterKeeps, BackKeeps, ExtractKeeps, CloseKeeps, ReplugKeeps DEF Next
<1>2. CASE UNCHANGED vars
  BY <1>2 DEF vars, Inv, TypeOK, KeyFitsView, Shown, OnlyItsHandle, Homed, Location,
              CurrentPath, Top
<1> QED BY <1>1, <1>2

LEMMA InvHolds == Spec => []Inv
BY InitInv, NextInv, PTL DEF Spec

\* Whatever order views are selected, unlocked and left in, and whatever
\* requests fail (the rollbacks of Select, Enter, Back in the bridge): the
\* key that is kept is the one of the open view.
THEOREM DesktopKeyFitsView == Spec => []KeyFitsView
<1>1. Inv => KeyFitsView
  BY DEF Inv
<1> QED BY <1>1, InvHolds, PTL

\* If a directory that was listed can be listed again for the answer, what is
\* restored is the file of the view, images and directory that the client
\* shows, after any sequence of failed requests; and it is from the medium that
\* was opened, if the session has a pinned handle or no other medium came to
\* its path.
THEOREM DesktopRestoredIsShown == Spec => []RestoredIsShown
<1>1. Inv => RestoredIsShown
  BY DEF Inv, Shown, RestoredIsShown
<1> QED BY <1>1, InvHolds, PTL

\* AUTHORIZED_SOURCES holds the handle of the session's source and no other,
\* after an Open that succeeds, fails or is repeated, and after Close.
THEOREM DesktopOnlyItsHandle == Spec => []OnlyItsHandle
<1>1. Inv => OnlyItsHandle
  BY DEF Inv
<1> QED BY <1>1, InvHolds, PTL

-----------------------------------------------------------------------------
(* WindowsClient: the Windows client.                                      *)

Reading == {"browse", "extract", "explore"}

Frame == [source : Source \cup {None}, view : View \cup {None},
          path : Dir \cup {None}, volume : Volume \cup {None}]

Where == [source : Source \cup {None}, view : View \cup {None},
          images : Seq(Frame), volume : Volume \cup {None}]

OpenJob == [kind : {"open"}, source : Source \cup {None},
            container : SUBSET (Source \cup {None})]
ReadJob == [kind : Reading, at : Where, path : Dir, keys : SUBSET Secret]
UpdateJob == [kind : {"update"}, keys : SUBSET Secret]
Job == {NoJob} \cup OpenJob \cup ReadJob \cup UpdateJob

AppState ==
    [catalog : Source \cup {None}, view : View \cup {None},
     inception : Seq(Frame), volume : Volume \cup {None}, path : Dir,
     listed : [context : Where, path : Dir] \cup {None},
     box : Source \cup {None}, keys : SUBSET Secret,
     container_key : SUBSET (Source \cup {None}), job : Job]

-----------------------------------------------------------------------------
(* The inductive invariant, as a predicate on the window's state a.        *)

\* browse would start a job.
Readable(a) ==
    IF a.inception = <<>> THEN a.catalog # None /\ a.view # None
    ELSE a.volume # None

\* An open backup has a restore point; without one the outermost image stands
\* alone, and if it still does under a backup it is the same file.  An image
\* in an image was found in a volume.
Rooted(a) ==
    /\ a.catalog # None => a.view # None
    /\ a.catalog = None /\ a.inception # <<>> =>
          a.inception[1].path = None /\ a.inception[1].source # None
    /\ a.catalog # None /\ a.inception # <<>> /\ a.inception[1].path = None =>
          a.inception[1].source = a.catalog
    /\ \A i \in 2..Len(a.inception) : a.inception[i].volume # None

\* A key of a restore point is of the open backup, unless its backup can also
\* be opened as a disk image.
Forgotten(a) ==
    clear => \A k \in a.keys :
        k.view # None /\ k.source \notin ImageSource =>
            k.source = a.catalog /\ a.catalog # None

Core(a) ==
    /\ a \in AppState /\ Rooted(a) /\ Forgotten(a)
    /\ a.listed # None => source_open(a)

\* A source was opened again under an open image: its volume is not chosen.
Blank(a) ==
    a.inception # <<>> /\ a.volume = None /\ a.listed.context.images = a.inception

\* The list is that of the current directory.
Settled(a) ==
    \/ a.listed = None
    \/ a.listed = Place(Context(a), a.path)
    \/ Blank(a)

\* The list is of a place the window has left.
Behind(a) == Readable(a) /\ a.listed.context # Context(a)

\* The window has a key that was entered for the open restore point.
OwnKey(a) == [source |-> Active(a), view |-> CredentialView(a)] \in a.keys

JobFits(a) ==
    /\ a.job.kind \in Reading =>
          a.job.at = Context(a) /\ source_open(a) /\ InScope(a, a.job.keys)
    /\ a.job.kind = "browse" => Readable(a)
    /\ a.job.kind = "extract" => a.listed # None /\ a.job.path = a.path
    /\ a.job.kind = "open" => a.job.container \subseteq {None, a.job.source}
    /\ a.job.kind = "update" /\ source_open(a) /\ OwnKey(a) =>
          InScope(a, a.job.keys)

ListFits(a) == steady => Settled(a) \/ (a.job.kind = "browse" /\ Behind(a))

Good(a) == Core(a) /\ JobFits(a) /\ ListFits(a)

WindowsInv == Good(app) /\ ~misplaced

\* A state between two jobs; one on the way to a listing.
Calm(a) == Core(a) /\ a.job = NoJob /\ (steady => Settled(a))
Moved(a) == Core(a) /\ a.job = NoJob /\ (steady => Settled(a) \/ Behind(a))

-----------------------------------------------------------------------------
(* What the invariant is about does not depend on jobs and boxes.          *)

SamePlace(a, b) ==
    /\ a.catalog = b.catalog /\ a.view = b.view
    /\ a.inception = b.inception /\ a.volume = b.volume

SameList(a, b) == a.path = b.path /\ a.listed = b.listed

LEMMA PlaceKept ==
    ASSUME NEW a, NEW b, SamePlace(a, b)
    PROVE  /\ Context(b) = Context(a) /\ source_open(b) = source_open(a)
           /\ Active(b) = Active(a) /\ Readable(b) = Readable(a)
           /\ Rooted(b) = Rooted(a) /\ \A K : InScope(b, K) = InScope(a, K)
BY DEF SamePlace, Context, source_open, Active, Readable, Rooted, InScope

LEMMA ListKept ==
    ASSUME NEW a, NEW b, SamePlace(a, b), SameList(a, b)
    PROVE  Settled(b) = Settled(a) /\ Behind(b) = Behind(a)
<1>1. Context(b) = Context(a) /\ Readable(b) = Readable(a)
  BY PlaceKept
<1>2. a.inception = b.inception /\ a.volume = b.volume
      /\ a.path = b.path /\ a.listed = b.listed
  BY DEF SamePlace, SameList
<1> QED BY <1>1, <1>2 DEF Settled, Behind, Blank

\* A change of keys, boxes or the job keeps the core, if the keys may stay.
LEMMA CoreKept ==
    ASSUME NEW a, NEW b, Core(a), b \in AppState, SamePlace(a, b), SameList(a, b),
           Forgotten(b)
    PROVE  Core(b)
<1>1. source_open(b) = source_open(a) /\ Rooted(b) = Rooted(a) /\ a.listed = b.listed
  BY PlaceKept DEF SameList
<1> QED BY <1>1 DEF Core

LEMMA KeysKept ==
    ASSUME NEW a, NEW b, Forgotten(a), b.keys \subseteq a.keys, b.catalog = a.catalog
    PROVE  Forgotten(b)
BY DEF Forgotten

LEMMA CalmKept ==
    ASSUME NEW a, NEW b, Calm(a), b \in AppState, SamePlace(a, b), SameList(a, b),
           b.job = NoJob, Forgotten(b)
    PROVE  Calm(b)
<1>1. Core(b)
  BY CoreKept DEF Calm
<1>2. Settled(b) = Settled(a)
  BY ListKept
<1> QED BY <1>1, <1>2 DEF Calm

LEMMA CalmMoved ==
    ASSUME NEW a, Calm(a)
    PROVE  Moved(a)
BY DEF Calm, Moved

\* The values of a context.
LEMMA ContextType ==
    ASSUME NEW a \in AppState
    PROVE  Context(a) \in Where
<1>1. a.catalog \in Source \cup {None} /\ a.view \in View \cup {None}
      /\ a.inception \in Seq(Frame) /\ a.volume \in Volume \cup {None}
  BY DEF AppState
<1>2. <<>> \in Seq(Frame)
  OBVIOUS
<1> QED BY <1>1, <1>2 DEF Context, Where

\* The keys a job is given: an open window has an active source.
LEMMA MatchingInScope ==
    ASSUME NEW a, Core(a), source_open(a)
    PROVE  InScope(a, Matching(a)) /\ Matching(a) \in SUBSET Secret
<1>1. Active(a) # None
  <2>1. Rooted(a)
    BY DEF Core
  <2> QED BY <2>1 DEF source_open, Active, Rooted
<1>2. a.keys \in SUBSET Secret
  BY DEF Core, AppState
<1>3. Scope(a) = Active(a) /\ CredentialView(a) \in {None, a.view}
  BY <1>1 DEF Scope, CredentialView
<1> QED BY <1>2, <1>3 DEF InScope, Matching

-----------------------------------------------------------------------------
(* Starting a job.                                                         *)

LEMMA JobPut ==
    ASSUME NEW a, Core(a), NEW j \in Job
    PROVE  LET b == [a EXCEPT !.job = j]
           IN  /\ Core(b) /\ SamePlace(a, b) /\ SameList(a, b) /\ b.job = j
               /\ b.box = a.box /\ b.keys = a.keys
               /\ b.container_key = a.container_key
<1> DEFINE b == [a EXCEPT !.job = j]
<1>1. a \in AppState
  BY DEF Core
<1>2. /\ b \in AppState /\ SamePlace(a, b) /\ SameList(a, b) /\ b.job = j
      /\ b.keys = a.keys /\ b.catalog = a.catalog
      /\ b.box = a.box /\ b.container_key = a.container_key
  BY <1>1 DEF AppState, SamePlace, SameList
<1> HIDE DEF b
<1>3. Forgotten(b)
  BY <1>2, KeysKept DEF Core
<1>4. Core(b)
  BY <1>2, <1>3, CoreKept
<1> QED BY <1>2, <1>4 DEF b

\* A state without a job, and one with a job that reads nothing of the window.
LEMMA CalmGood ==
    ASSUME NEW a, Calm(a)
    PROVE  Good(a)
<1>1. a.job.kind = "none"
  BY DEF Calm, NoJob
<1> QED BY <1>1 DEF Calm, Good, JobFits, ListFits, Reading

LEMMA UpdateGood ==
    ASSUME NEW a, Calm(a)
    PROVE  Good(Updating(a))
<1> DEFINE K == IF Matching(a) # {} THEN Matching(a) ELSE a.keys
           j == [kind |-> "update", keys |-> K]
           b == [a EXCEPT !.job = j]
<1>1. Core(a) /\ a.keys \in SUBSET Secret
  BY DEF Calm, Core, AppState
<1>2. K \in SUBSET Secret
  BY <1>1 DEF Matching
<1>3. ASSUME source_open(a), OwnKey(a) PROVE InScope(a, K)
  <2>1. Active(a) # None
    BY <1>1, <1>3 DEF source_open, Active, Core, Rooted
  <2>2. [source |-> Active(a), view |-> CredentialView(a)] \in Matching(a)
    BY <1>3, <2>1 DEF OwnKey, Matching, Scope
  <2> QED BY <1>1, <1>3, <2>2, MatchingInScope
<1> HIDE DEF K
<1>4. j \in Job /\ j.kind = "update" /\ j.keys = K
  BY <1>2 DEF Job, UpdateJob
<1> HIDE DEF j
<1>5. Core(b) /\ SamePlace(a, b) /\ SameList(a, b) /\ b.job = j /\ b.keys = a.keys
  BY <1>1, <1>4, JobPut
<1> HIDE DEF b
<1>6. /\ Settled(b) = Settled(a) /\ source_open(b) = source_open(a)
      /\ OwnKey(b) = OwnKey(a) /\ InScope(b, K) = InScope(a, K)
  <2>1. Active(b) = Active(a) /\ CredentialView(b) = CredentialView(a)
    BY <1>5, PlaceKept DEF SamePlace, CredentialView
  <2> QED BY <1>5, <2>1, ListKept, PlaceKept DEF OwnKey
<1>7. JobFits(b)
  BY <1>3, <1>4, <1>5, <1>6 DEF JobFits, Reading
<1>8. Good(b)
  BY <1>4, <1>5, <1>6, <1>7 DEF Calm, Good, ListFits
<1> QED BY <1>8 DEF b, j, K, Updating

LEMMA OpenBoxGood ==
    ASSUME NEW a, Calm(a)
    PROVE  Good(OpenBox(a))
<1> DEFINE j == [kind |-> "open", source |-> a.box,
                 container |-> a.container_key \cap {None, a.box}]
           b == [a EXCEPT !.job = j]
<1>1. j \in Job /\ j.kind = "open" /\ j.container \subseteq {None, j.source}
  BY DEF Job, OpenJob, Calm, Core, AppState
<1> HIDE DEF j
<1>2. Core(b) /\ SamePlace(a, b) /\ SameList(a, b) /\ b.job = j
  BY <1>1, JobPut DEF Calm
<1> HIDE DEF b
<1>3. Settled(b) = Settled(a)
  BY <1>2, ListKept
<1>4. Good(b)
  BY <1>1, <1>2, <1>3 DEF Calm, Good, JobFits, ListFits, Reading
<1> QED BY <1>4 DEF b, j, OpenBox

\* A job that reads the current place with the keys of the place.
LEMMA ReadGood ==
    ASSUME NEW a, Moved(a), source_open(a), NEW p \in Dir, NEW kind \in Reading,
           kind = "browse" => Readable(a),
           kind # "browse" => (steady => Settled(a)),
           kind = "extract" => a.listed # None /\ p = a.path
    PROVE  Good([a EXCEPT !.job = [kind |-> kind, at |-> Context(a), path |-> p,
                                   keys |-> Matching(a)]])
<1> DEFINE j == [kind |-> kind, at |-> Context(a), path |-> p, keys |-> Matching(a)]
           b == [a EXCEPT !.job = j]
<1>1. Core(a) /\ a \in AppState
  BY DEF Moved, Core
<1>2. /\ j \in Job /\ j.kind = kind /\ j.at = Context(a) /\ j.keys = Matching(a)
      /\ j.path = p
      /\ InScope(a, j.keys)
  <2>1. Context(a) \in Where /\ Matching(a) \in SUBSET Secret
    BY <1>1, ContextType, MatchingInScope
  <2>2. j \in ReadJob
    BY <2>1 DEF ReadJob
  <2>3. InScope(a, Matching(a))
    BY <1>1, MatchingInScope
  <2> QED BY <2>2, <2>3 DEF Job
<1> HIDE DEF j
<1>3. Core(b) /\ SamePlace(a, b) /\ SameList(a, b) /\ b.job = j
  BY <1>1, <1>2, JobPut
<1> HIDE DEF b
<1>4. /\ Context(b) = Context(a) /\ source_open(b) = source_open(a) /\ Readable(b) = Readable(a)
      /\ \A K : InScope(b, K) = InScope(a, K)
  BY <1>3, PlaceKept
<1>5. Settled(b) = Settled(a) /\ Behind(b) = Behind(a)
  BY <1>3, ListKept
<1>6. JobFits(b)
  BY <1>2, <1>3, <1>4 DEF JobFits, Reading, SameList
<1>7. ListFits(b)
  BY <1>2, <1>3, <1>5 DEF ListFits, Moved
<1>8. Good(b)
  BY <1>3, <1>6, <1>7 DEF Good
<1> QED BY <1>8 DEF b, j

LEMMA BrowseGood ==
    ASSUME NEW a, Moved(a), NEW p \in Dir
    PROVE  Good(Browse(a, p))
<1>1. CASE Readable(a)
  <2>1. source_open(a)
    BY <1>1 DEF Readable, source_open
  <2>2. Good([a EXCEPT !.job = [kind |-> "browse", at |-> Context(a), path |-> p,
                                keys |-> Matching(a)]])
    BY <1>1, <2>1, ReadGood DEF Reading
  <2> QED BY <1>1, <2>2 DEF Browse, Readable
<1>2. CASE ~Readable(a)
  <2>1. Calm(a) /\ Browse(a, p) = a
    BY <1>2 DEF Calm, Moved, Behind, Browse, Readable
  <2> QED BY <2>1, CalmGood
<1> QED BY <1>1, <1>2

LEMMA ExtractingGood ==
    ASSUME NEW a, Calm(a)
    PROVE  Good(Extracting(a))
<1>1. CASE a.listed = None
  BY <1>1, CalmGood DEF Extracting
<1>2. CASE a.listed # None
  <2>1. source_open(a) /\ a.path \in Dir /\ Moved(a) /\ (steady => Settled(a))
    BY <1>2, CalmMoved DEF Calm, Core, AppState
  <2> QED BY <1>2, <2>1, ReadGood DEF Extracting, Reading
<1> QED BY <1>1, <1>2

LEMMA ExploringGood ==
    ASSUME NEW a, Calm(a)
    PROVE  Good(Exploring(a))
<1>1. CASE a.listed = None
  BY <1>1, CalmGood DEF Exploring
<1>2. CASE a.listed # None
  <2>1. source_open(a) /\ a.path \in Dir /\ Moved(a) /\ (steady => Settled(a))
    BY <1>2, CalmMoved DEF Calm, Core, AppState
  <2> QED BY <1>2, <2>1, ReadGood DEF Exploring, Reading
<1> QED BY <1>1, <1>2

-----------------------------------------------------------------------------
(* Keys, boxes and clearing.                                               *)

LEMMA StoreKeyKeeps ==
    ASSUME NEW a, Core(a)
    PROVE  /\ Core(StoreKey(a)) /\ SamePlace(a, StoreKey(a))
           /\ SameList(a, StoreKey(a)) /\ StoreKey(a).job = a.job
           /\ StoreKey(a).path = a.path
<1> DEFINE k == [source |-> Scope(a), view |-> CredentialView(a)]
           b == StoreKey(a)
<1>1. a \in AppState /\ Rooted(a) /\ Forgotten(a)
  BY DEF Core
<1>2. Scope(a) \in Source \cup {None} /\ CredentialView(a) \in View \cup {None}
  <2>1. Active(a) \in Source \cup {None}
    <3>1. a.inception # <<>> => a.inception[1] \in Frame
      BY <1>1 DEF AppState
    <3>2. a.inception # <<>> => a.inception[1].source \in Source \cup {None}
      BY <3>1 DEF Frame
    <3> QED BY <1>1, <3>2 DEF Active, AppState
  <2> QED BY <1>1, <2>1 DEF Scope, CredentialView, AppState
<1>3. k \in Secret
  BY <1>2 DEF Secret
<1>4. k.view # None => k.source = a.catalog /\ a.catalog # None
  BY DEF CredentialView, Scope, Active
<1> HIDE DEF k
<1>5. b = [a EXCEPT !.keys = a.keys \cup {k}]
  BY DEF StoreKey, k
<1>6. a.keys \cup {k} \in SUBSET Secret
  BY <1>1, <1>3 DEF AppState
<1>7. /\ b \in AppState /\ SamePlace(a, b) /\ SameList(a, b)
      /\ b.job = a.job /\ b.path = a.path /\ b.keys = a.keys \cup {k}
      /\ b.catalog = a.catalog
  BY <1>1, <1>5, <1>6 DEF AppState, SamePlace, SameList
<1> HIDE DEF b
<1>8. Forgotten(b)
  BY <1>1, <1>4, <1>7 DEF Forgotten
<1>9. Core(b)
  BY <1>7, <1>8, CoreKept
<1> QED BY <1>7, <1>9 DEF b

LEMMA StoreKeyCalm ==
    ASSUME NEW a, Calm(a)
    PROVE  Calm(StoreKey(a))
<1>1. Core(a) /\ a.job = NoJob
  BY DEF Calm
<1>2. /\ Core(StoreKey(a)) /\ SamePlace(a, StoreKey(a))
      /\ SameList(a, StoreKey(a)) /\ StoreKey(a).job = NoJob
  BY <1>1, StoreKeyKeeps
<1>3. StoreKey(a) \in AppState /\ Forgotten(StoreKey(a))
  BY <1>2 DEF Core
<1> QED BY <1>2, <1>3, CalmKept

LEMMA StoreKeyMoved ==
    ASSUME NEW a, Moved(a)
    PROVE  Moved(StoreKey(a))
<1>1. Core(a) /\ a.job = NoJob
  BY DEF Moved
<1>2. /\ Core(StoreKey(a)) /\ SamePlace(a, StoreKey(a))
      /\ SameList(a, StoreKey(a)) /\ StoreKey(a).job = NoJob
  BY <1>1, StoreKeyKeeps
<1>3. Settled(StoreKey(a)) = Settled(a) /\ Behind(StoreKey(a)) = Behind(a)
  BY <1>2, ListKept
<1> QED BY <1>2, <1>3 DEF Moved

LEMMA RemoveKeysKeeps ==
    ASSUME NEW a, Core(a), a.job = NoJob
    PROVE  Core(RemoveKeys(a)) /\ RemoveKeys(a).job = NoJob
<1> DEFINE b == RemoveKeys(a)
<1>1. a \in AppState /\ Forgotten(a)
  BY DEF Core
<1>2. /\ b \in AppState /\ SamePlace(a, b) /\ SameList(a, b) /\ b.job = NoJob
      /\ b.keys \subseteq a.keys /\ b.catalog = a.catalog
  BY <1>1 DEF AppState, RemoveKeys, SamePlace, SameList
<1> HIDE DEF b
<1>3. Forgotten(b)
  BY <1>1, <1>2, KeysKept
<1>4. Core(b)
  BY <1>2, <1>3, CoreKept
<1> QED BY <1>2, <1>4 DEF b

LEMMA ForgetAllCalm ==
    ASSUME NEW a, Calm(a)
    PROVE  Calm(ForgetAll(a)) /\ ForgetAll(a).keys = {}
<1> DEFINE b == ForgetAll(a)
<1>1. a \in AppState /\ a.job = NoJob
  BY DEF Calm, Core
<1>2. /\ b \in AppState /\ SamePlace(a, b) /\ SameList(a, b) /\ b.job = NoJob
      /\ b.keys = {}
  BY <1>1 DEF AppState, ForgetAll, SamePlace, SameList
<1> HIDE DEF b
<1>3. Forgotten(b)
  BY <1>2 DEF Forgotten
<1>4. Calm(b)
  BY <1>2, <1>3, CalmKept
<1> QED BY <1>2, <1>4 DEF b

LEMMA BoxCalm ==
    ASSUME NEW a, Calm(a), NEW s \in Source \cup {None}
    PROVE  Calm([a EXCEPT !.box = s])
<1> DEFINE b == [a EXCEPT !.box = s]
<1>1. a \in AppState /\ Forgotten(a) /\ a.job = NoJob
  BY DEF Calm, Core
<1>2. /\ b \in AppState /\ SamePlace(a, b) /\ SameList(a, b) /\ b.job = NoJob
      /\ b.keys \subseteq a.keys /\ b.catalog = a.catalog
  BY <1>1 DEF AppState, SamePlace, SameList
<1> HIDE DEF b
<1>3. Forgotten(b)
  BY <1>1, <1>2, KeysKept
<1>4. Calm(b)
  BY <1>2, <1>3, CalmKept
<1> QED BY <1>4 DEF b

LEMMA ContainerCalm ==
    ASSUME NEW a, Calm(a), NEW K \in SUBSET (Source \cup {None})
    PROVE  Calm([a EXCEPT !.container_key = K])
<1> DEFINE b == [a EXCEPT !.container_key = K]
<1>1. a \in AppState /\ Forgotten(a) /\ a.job = NoJob
  BY DEF Calm, Core
<1>2. /\ b \in AppState /\ SamePlace(a, b) /\ SameList(a, b) /\ b.job = NoJob
      /\ b.keys \subseteq a.keys /\ b.catalog = a.catalog
  BY <1>1 DEF AppState, SamePlace, SameList
<1> HIDE DEF b
<1>3. Forgotten(b)
  BY <1>1, <1>2, KeysKept
<1>4. Calm(b)
  BY <1>2, <1>3, CalmKept
<1> QED BY <1>4 DEF b

LEMMA ContainerMoved ==
    ASSUME NEW a, Moved(a), NEW K \in SUBSET (Source \cup {None})
    PROVE  Moved([a EXCEPT !.container_key = K])
<1> DEFINE b == [a EXCEPT !.container_key = K]
<1>1. Core(a) /\ a \in AppState /\ Forgotten(a) /\ a.job = NoJob
  BY DEF Moved, Core
<1>2. /\ b \in AppState /\ SamePlace(a, b) /\ SameList(a, b) /\ b.job = NoJob
      /\ b.keys \subseteq a.keys /\ b.catalog = a.catalog
  BY <1>1 DEF AppState, SamePlace, SameList
<1> HIDE DEF b
<1>3. Core(b)
  BY <1>1, <1>2, KeysKept, CoreKept
<1>4. Settled(b) = Settled(a) /\ Behind(b) = Behind(a)
  BY <1>2, ListKept
<1>5. Moved(b)
  BY <1>2, <1>3, <1>4 DEF Moved
<1> QED BY <1>5 DEF b

\* An empty list claims nothing.
LEMMA ClearedCalm ==
    ASSUME NEW a \in AppState, Rooted(a), Forgotten(a), a.job = NoJob
    PROVE  Calm(ClearDirectory(a)) /\ SamePlace(a, ClearDirectory(a))
<1> DEFINE b == ClearDirectory(a)
<1>2. Root \in Dir
  BY WindowsAssumption, PlacesAssumption
<1>3. /\ b \in AppState /\ SamePlace(a, b) /\ b.listed = None /\ b.job = NoJob
      /\ b.keys \subseteq a.keys /\ b.catalog = a.catalog
  BY <1>2 DEF AppState, ClearDirectory, SamePlace
<1> HIDE DEF b
<1>4. Forgotten(b) /\ Rooted(b)
  BY <1>3, KeysKept, PlaceKept
<1>5. Calm(b)
  BY <1>3, <1>4 DEF Calm, Core, Settled
<1> QED BY <1>3, <1>5 DEF b

\* Nothing is open afterwards: then no key of a restore point may be left.
LEMMA EmptiedCalm ==
    ASSUME NEW a, a \in AppState, a.job = NoJob,
           clear => \A k \in a.keys : k.view # None => k.source \in ImageSource
    PROVE  Calm(Emptied(a))
<1> DEFINE b == [a EXCEPT !.catalog = None, !.view = None, !.inception = <<>>,
                          !.volume = None]
           c == Emptied(a)
<1>1. Root \in Dir /\ <<>> \in Seq(Frame)
  BY WindowsAssumption, PlacesAssumption
<1>2. /\ b \in AppState /\ b.catalog = None /\ b.inception = <<>>
      /\ b.keys = a.keys /\ b.job = NoJob
  BY <1>1 DEF AppState
<1>3. c = [b EXCEPT !.listed = None, !.path = Root]
  BY DEF Emptied, ClearDirectory
<1> HIDE DEF b, c
<1>4. /\ c \in AppState /\ c.catalog = None /\ c.inception = <<>>
      /\ c.keys = a.keys /\ c.job = NoJob /\ c.listed = None
  BY <1>1, <1>2, <1>3 DEF AppState
<1>5. Rooted(c)
  BY <1>4 DEF Rooted
<1>6. Forgotten(c)
  BY <1>4 DEF Forgotten
<1>7. Calm(c)
  BY <1>4, <1>5, <1>6 DEF Calm, Core, Settled
<1> QED BY <1>7 DEF c

-----------------------------------------------------------------------------
(* Other sources, places and images.                                       *)

LEMMA ActiveType ==
    ASSUME NEW a \in AppState
    PROVE  Active(a) \in Source \cup {None}
<1>1. a.inception # <<>> => a.inception[1] \in Frame
  BY DEF AppState
<1>2. a.inception # <<>> => a.inception[1].source \in Source \cup {None}
  BY <1>1 DEF Frame
<1> QED BY <1>2 DEF Active, AppState

\* activate_source: what stays open is the source itself.
LEMMA ActivateCalm ==
    ASSUME NEW a, Calm(a), NEW s \in Source
    PROVE  LET b == Activate(a, s)
           IN  /\ Calm(b) /\ b.catalog \in {None, s}
               /\ b.inception # <<>> /\ b.inception[1].path = None =>
                     b.inception[1].source = s
<1> DEFINE b == Activate(a, s)
<1>1. a \in AppState /\ a.job = NoJob /\ Rooted(a) /\ Forgotten(a)
  BY DEF Calm, Core
<1>2. CASE ~Changing(a, s)
  <2>1. b = [a EXCEPT !.box = s]
    BY <1>2 DEF Activate
  <2>2. b.catalog = a.catalog /\ b.inception = a.inception
    BY <1>1, <2>1 DEF AppState
  <2>3. Calm(b)
    BY <2>1, BoxCalm
  <2> HIDE DEF b
  <2> QED BY <1>2, <2>2, <2>3 DEF Changing, b
<1>3. CASE Changing(a, s)
  <2> DEFINE f == IF clear THEN ForgetOthers(a, s) ELSE a
             e == Emptied(f)
  <2>1. b = [e EXCEPT !.box = s]
    BY <1>3 DEF Activate
  <2>2. /\ f \in AppState /\ f.job = NoJob /\ f.keys \subseteq a.keys
        /\ clear => \A k \in f.keys : k.source \in {None, s}
    <3>1. CASE clear
      BY <1>1, <3>1 DEF AppState, ForgetOthers
    <3>2. CASE ~clear
      BY <1>1, <3>2
    <3> QED BY <3>1, <3>2
  <2>3. a.catalog # s \/ a.catalog = None
    BY <1>1, <1>3 DEF Changing, Rooted
  <2>4. clear => \A k \in f.keys : k.view # None => k.source \in ImageSource
    BY <1>1, <2>2, <2>3 DEF Forgotten
  <2> HIDE DEF f
  <2>5. Calm(e)
    BY <2>2, <2>4, EmptiedCalm
  <2>6. e \in AppState /\ e.catalog = None /\ e.inception = <<>>
    <3>1. e \in AppState
      BY <2>5 DEF Calm, Core
    <3> QED BY <2>2, <3>1 DEF Emptied, ClearDirectory, AppState
  <2> HIDE DEF e
  <2>7. b.catalog = None /\ b.inception = <<>>
    BY <2>1, <2>6 DEF AppState
  <2>8. Calm(b)
    BY <2>1, <2>5, BoxCalm
  <2> HIDE DEF b
  <2> QED BY <2>7, <2>8 DEF b
<1> QED BY <1>2, <1>3

\* A list that is settled is of the images that are open.
LEMMA SettledImages ==
    ASSUME NEW a, Settled(a), a.listed # None
    PROVE  a.listed.context.images = a.inception
BY DEF Settled, Blank, Place, Context

\* ensure_selected_view_key, and the root directory.
LEMMA UnlockedGood ==
    ASSUME NEW a, Moved(a), NEW supplied \in BOOLEAN
    PROVE  Good(Unlocked(a, supplied))
<1>1. Root \in Dir
  BY WindowsAssumption, PlacesAssumption
<1>2. Good(Browse(a, Root))
  BY <1>1, BrowseGood
<1>3. Good(Browse(StoreKey(a), Root))
  BY <1>1, BrowseGood, StoreKeyMoved
<1>4. Good(ClearDirectory(a))
  BY ClearedCalm, CalmGood DEF Moved, Core
<1> QED BY <1>2, <1>3, <1>4 DEF Unlocked

\* A catalog takes the place of what was open, or of itself.
LEMMA CatalogMoved ==
    ASSUME NEW a, Calm(a), NEW s \in Source, a.catalog \in {None, s},
           a.inception # <<>> /\ a.inception[1].path = None =>
               a.inception[1].source = s,
           NEW v \in View
    PROVE  Moved([a EXCEPT !.volume = None, !.view = v, !.catalog = s])
<1> DEFINE b == [a EXCEPT !.volume = None, !.view = v, !.catalog = s]
<1>1. a \in AppState /\ a.job = NoJob /\ Rooted(a) /\ Forgotten(a)
  BY DEF Calm, Core
<1>2. v # None /\ s # None
  BY WindowsAssumption, PlacesAssumption
<1>3. /\ b \in AppState /\ b.job = NoJob /\ b.catalog = s /\ b.view = v
      /\ b.volume = None /\ b.inception = a.inception /\ b.keys = a.keys
      /\ b.listed = a.listed /\ b.path = a.path
  BY <1>1 DEF AppState
<1> HIDE DEF b
<1>4. Rooted(b)
  BY <1>1, <1>2, <1>3 DEF Rooted
<1>5. Forgotten(b)
  BY <1>1, <1>2, <1>3 DEF Forgotten
<1>6. source_open(b)
  BY <1>2, <1>3 DEF source_open
<1>7. steady => Settled(b) \/ Behind(b)
  <2> SUFFICES ASSUME steady, b.listed # None PROVE Settled(b) \/ Behind(b)
    BY DEF Settled
  <2>1. Settled(a) /\ a.listed # None
    BY <1>3 DEF Calm
  <2>2. CASE b.inception # <<>>
    <3>1. b.listed.context.images = b.inception
      BY <1>3, <2>1, SettledImages
    <3> QED BY <1>3, <2>2, <3>1 DEF Settled, Blank
  <2>3. CASE b.inception = <<>>
    <3>1. a.listed = Place(Context(a), a.path)
      BY <1>3, <2>1, <2>3 DEF Settled, Blank
    <3>2. Readable(b)
      BY <1>2, <1>3, <2>3 DEF Readable
    <3>3. b.listed.context = Context(a) /\ b.listed = Place(Context(a), b.path)
      BY <1>3, <3>1 DEF Place
    <3> QED BY <3>2, <3>3 DEF Settled, Behind
  <2> QED BY <2>2, <2>3
<1>8. Moved(b)
  BY <1>3, <1>4, <1>5, <1>6, <1>7 DEF Moved, Core
<1> QED BY <1>8 DEF b

\* Another restore point, with the list cleared.
LEMMA ViewMoved ==
    ASSUME NEW a, Calm(a), NEW v \in View
    PROVE  Moved(ClearDirectory([a EXCEPT !.view = v]))
<1> DEFINE b == [a EXCEPT !.view = v]
<1>1. a \in AppState /\ a.job = NoJob /\ Rooted(a) /\ Forgotten(a)
  BY DEF Calm, Core
<1>2. v # None
  BY WindowsAssumption, PlacesAssumption
<1>3. /\ b \in AppState /\ b.job = NoJob /\ b.catalog = a.catalog /\ b.view = v
      /\ b.inception = a.inception /\ b.keys = a.keys
  BY <1>1 DEF AppState
<1> HIDE DEF b
<1>4. Rooted(b)
  BY <1>1, <1>2, <1>3 DEF Rooted
<1>5. Forgotten(b)
  BY <1>1, <1>3 DEF Forgotten
<1>6. Calm(ClearDirectory(b))
  BY <1>3, <1>4, <1>5, ClearedCalm
<1>7. Moved(ClearDirectory(b))
  BY <1>6, CalmMoved
<1> QED BY <1>7 DEF b

\* Another volume of the image.
LEMMA VolumeMoved ==
    ASSUME NEW a, Calm(a), a.inception # <<>>, a.volume # None, NEW v \in Volume
    PROVE  Moved([a EXCEPT !.volume = v])
<1> DEFINE b == [a EXCEPT !.volume = v]
<1>1. a \in AppState /\ a.job = NoJob /\ Rooted(a) /\ Forgotten(a)
  BY DEF Calm, Core
<1>2. v # None
  BY WindowsAssumption, PlacesAssumption
<1>3. /\ b \in AppState /\ b.job = NoJob /\ b.catalog = a.catalog /\ b.view = a.view
      /\ b.volume = v /\ b.inception = a.inception /\ b.keys = a.keys
      /\ b.listed = a.listed /\ b.path = a.path
  BY <1>1 DEF AppState
<1> HIDE DEF b
<1>4. Rooted(b) /\ source_open(b)
  BY <1>1, <1>3 DEF Rooted, source_open
<1>5. Forgotten(b)
  BY <1>1, <1>3 DEF Forgotten
<1>6. steady => Settled(b) \/ Behind(b)
  <2> SUFFICES ASSUME steady, b.listed # None PROVE Settled(b) \/ Behind(b)
    BY DEF Settled
  <2>1. a.listed = Place(Context(a), a.path)
    BY <1>3 DEF Calm, Settled, Blank
  <2>2. Readable(b)
    BY <1>2, <1>3 DEF Readable
  <2>3. b.listed.context = Context(a) /\ b.listed = Place(Context(a), b.path)
    BY <1>3, <2>1 DEF Place
  <2> QED BY <2>2, <2>3 DEF Settled, Behind
<1>7. Moved(b)
  BY <1>3, <1>4, <1>5, <1>6 DEF Moved, Core
<1> QED BY <1>7 DEF b

\* The stack of images grows and shrinks at its end.
LEMMA Pushed ==
    ASSUME NEW s \in Seq(Frame), NEW f \in Frame
    PROVE  LET t == Append(s, f)
           IN  /\ t \in Seq(Frame) /\ t # <<>> /\ t # s
               /\ s = <<>> => t[1] = f /\ Len(t) = 1
               /\ s # <<>> => t[1] = s[1]
               /\ \A i \in 2..Len(t) : \/ i \in 2..Len(s) /\ t[i] = s[i]
                                       \/ s # <<>> /\ t[i] = f
<1> DEFINE t == Append(s, f)
<1>1. t \in Seq(Frame) /\ Len(t) = Len(s) + 1 /\ Len(s) \in Nat
  OBVIOUS
<1>2. \A i \in 1..Len(t) : t[i] = IF i = Len(t) THEN f ELSE s[i]
  OBVIOUS
<1>3. s = <<>> <=> Len(s) = 0
  OBVIOUS
<1> HIDE DEF t
<1>4. t # <<>> /\ t # s
  BY <1>1
<1>5. s = <<>> => t[1] = f /\ Len(t) = 1
  BY <1>1, <1>2, <1>3
<1>6. s # <<>> => t[1] = s[1]
  BY <1>1, <1>2, <1>3
<1>7. ASSUME NEW i \in 2..Len(t)
      PROVE  \/ i \in 2..Len(s) /\ t[i] = s[i]
             \/ s # <<>> /\ t[i] = f
  <2>1. i \in Int /\ 2 <= i /\ i <= Len(s) + 1 /\ i \in 1..Len(t)
    BY <1>1
  <2>2. s # <<>>
    BY <1>1, <1>3, <2>1
  <2> QED BY <1>1, <1>2, <2>1, <2>2
<1> QED BY <1>1, <1>4, <1>5, <1>6, <1>7 DEF t

LEMMA PrefixFacts ==
    ASSUME NEW S, NEW s \in Seq(S), NEW n \in Nat, n <= Len(s)
    PROVE  /\ SubSeq(s, 1, n) \in Seq(S) /\ Len(SubSeq(s, 1, n)) = n
           /\ \A i \in 1..n : SubSeq(s, 1, n)[i] = s[i]
OBVIOUS

LEMMA PoppedFrame ==
    ASSUME NEW s \in Seq(Frame), s # <<>>
    PROVE  LET t == SubSeq(s, 1, Len(s) - 1)
           IN  /\ t \in Seq(Frame) /\ t # s /\ s[Len(s)] \in Frame
               /\ t # <<>> => t[1] = s[1] /\ Len(s) \in 2..Len(s)
               /\ \A i \in 2..Len(t) : i \in 2..Len(s) /\ t[i] = s[i]
<1> DEFINE n == Len(s) - 1
           t == SubSeq(s, 1, n)
<1>1. Len(s) \in Nat /\ Len(s) # 0 /\ s[Len(s)] \in Frame
  OBVIOUS
<1>2. n \in Nat /\ n <= Len(s)
  BY <1>1
<1> HIDE DEF n
<1>3. /\ t \in Seq(Frame) /\ Len(t) = n
      /\ \A i \in 1..Len(t) : t[i] = s[i]
  BY <1>2, PrefixFacts
<1> HIDE DEF t
<1>4. t # <<>> => Len(t) # 0
  BY <1>3
<1>5. t # s
  BY <1>1, <1>3 DEF n
<1>6. t # <<>> => t[1] = s[1] /\ Len(s) \in 2..Len(s)
  BY <1>1, <1>2, <1>3, <1>4 DEF n
<1>7. \A i \in 2..Len(t) : i \in 2..Len(s) /\ t[i] = s[i]
  BY <1>1, <1>2, <1>3 DEF n
<1> QED BY <1>1, <1>3, <1>5, <1>6, <1>7 DEF t, n

\* leave_inception
LEMMA LeftGood ==
    ASSUME NEW a, Calm(a), a.inception # <<>>
    PROVE  Good(Left(a))
<1> DEFINE t == SubSeq(a.inception, 1, Len(a.inception) - 1)
           frame == a.inception[Len(a.inception)]
           b == [a EXCEPT !.inception = t, !.volume = frame.volume]
<1>1. a \in AppState /\ a.job = NoJob /\ Rooted(a) /\ Forgotten(a)
      /\ a.inception \in Seq(Frame)
  BY DEF Calm, Core, AppState
<1>2. /\ t \in Seq(Frame) /\ t # a.inception /\ frame \in Frame
      /\ t # <<>> => t[1] = a.inception[1] /\ Len(a.inception) \in 2..Len(a.inception)
      /\ \A i \in 2..Len(t) : i \in 2..Len(a.inception) /\ t[i] = a.inception[i]
  BY <1>1, PoppedFrame
<1>3. t # <<>> => frame.volume # None
  BY <1>1, <1>2 DEF Rooted
<1>4. frame.volume \in Volume \cup {None} /\ frame.path \in Dir \cup {None}
  BY <1>2 DEF Frame
<1> HIDE DEF t, frame
<1>5. /\ b \in AppState /\ b.job = NoJob /\ b.catalog = a.catalog /\ b.view = a.view
      /\ b.volume = frame.volume /\ b.inception = t /\ b.keys = a.keys
      /\ b.listed = a.listed /\ b.path = a.path
  BY <1>1, <1>2, <1>4 DEF AppState
<1>6. Left(a) = IF source_open(b)
                THEN Browse(b, IF frame.path = None THEN Root ELSE frame.path)
                ELSE ClearDirectory(b)
  BY DEF Left, frame, t
<1> HIDE DEF b
<1>7. Rooted(b)
  BY <1>1, <1>2, <1>5 DEF Rooted
<1>8. Forgotten(b)
  BY <1>1, <1>5 DEF Forgotten
<1>9. CASE source_open(b)
  <2>1. Readable(b)
    BY <1>3, <1>5, <1>7, <1>9 DEF Readable, source_open, Rooted
  <2>2. steady => Settled(b) \/ Behind(b)
    <3> SUFFICES ASSUME steady, b.listed # None PROVE Behind(b)
      BY DEF Settled
    <3>1. b.listed.context.images = a.inception
      BY <1>5, SettledImages DEF Calm
    <3>2. Context(b).images = t
      BY <1>5 DEF Context
    <3> QED BY <1>2, <2>1, <3>1, <3>2 DEF Behind
  <2>3. Moved(b)
    BY <1>5, <1>7, <1>8, <1>9, <2>2 DEF Moved, Core
  <2>4. (IF frame.path = None THEN Root ELSE frame.path) \in Dir
    BY <1>4, WindowsAssumption, PlacesAssumption
  <2> QED BY <1>6, <1>9, <2>3, <2>4, BrowseGood
<1>10. CASE ~source_open(b)
  <2>1. Calm(ClearDirectory(b))
    BY <1>5, <1>7, <1>8, ClearedCalm
  <2> QED BY <1>6, <1>10, <2>1, CalmGood
<1> QED BY <1>9, <1>10

\* An image is entered: alone, in a backup, or in the volume of an image.
LEMMA EnteredGood ==
    ASSUME NEW a, Calm(a), NEW f \in Frame, NEW v \in Volume,
           a.inception = <<>> /\ a.catalog = None =>
               f.path = None /\ f.source # None,
           a.inception = <<>> /\ a.catalog # None => f.path # None,
           a.inception # <<>> => f.volume # None,
           a.inception # <<>> /\ a.listed # None => a.volume # None
    PROVE  Good(Entered(a, f, v))
<1> DEFINE t == Append(a.inception, f)
           b == [a EXCEPT !.inception = t, !.volume = v, !.path = Root]
<1>1. a \in AppState /\ a.job = NoJob /\ Rooted(a) /\ Forgotten(a)
      /\ a.inception \in Seq(Frame)
  BY DEF Calm, Core, AppState
<1>2. /\ t \in Seq(Frame) /\ t # <<>> /\ t # a.inception
      /\ a.inception = <<>> => t[1] = f /\ Len(t) = 1
      /\ a.inception # <<>> => t[1] = a.inception[1]
      /\ \A i \in 2..Len(t) : \/ i \in 2..Len(a.inception) /\ t[i] = a.inception[i]
                              \/ a.inception # <<>> /\ t[i] = f
  BY <1>1, Pushed
<1>3. Root \in Dir /\ v # None
  BY WindowsAssumption, PlacesAssumption
<1> HIDE DEF t
<1>4. /\ b \in AppState /\ b.job = NoJob /\ b.catalog = a.catalog /\ b.view = a.view
      /\ b.volume = v /\ b.inception = t /\ b.keys = a.keys /\ b.listed = a.listed
  BY <1>1, <1>2, <1>3 DEF AppState
<1>5. Entered(a, f, v) = Browse(b, Root)
  BY DEF Entered, t
<1> HIDE DEF b
<1>6. Rooted(b)
  <2>1. \A i \in 2..Len(b.inception) : b.inception[i].volume # None
    BY <1>1, <1>2, <1>4 DEF Rooted
  <2>2. CASE a.inception = <<>>
    BY <1>1, <1>2, <1>4, <2>1, <2>2 DEF Rooted
  <2>3. CASE a.inception # <<>>
    BY <1>1, <1>2, <1>4, <2>1, <2>3 DEF Rooted
  <2> QED BY <2>2, <2>3
<1>7. Forgotten(b) /\ source_open(b) /\ Readable(b)
  BY <1>1, <1>2, <1>3, <1>4 DEF Forgotten, source_open, Readable
<1>8. steady => Settled(b) \/ Behind(b)
  <2> SUFFICES ASSUME steady, b.listed # None PROVE Behind(b)
    BY DEF Settled
  <2>1. b.listed.context.images = a.inception
    BY <1>4, SettledImages DEF Calm
  <2>2. Context(b).images = t
    BY <1>2, <1>4 DEF Context
  <2> QED BY <1>2, <1>7, <2>1, <2>2 DEF Behind
<1>9. Moved(b)
  BY <1>4, <1>6, <1>7, <1>8 DEF Moved, Core
<1> QED BY <1>3, <1>5, <1>9, BrowseGood

-----------------------------------------------------------------------------
(* The steps.                                                              *)

LEMMA GoodNext ==
    ASSUME NEW a, app' = a, UNCHANGED <<clear, steady>>, Good(a)
    PROVE  Good(app)'
<1>1. app' = a /\ clear' = clear /\ steady' = steady
  OBVIOUS
<1>2. Core(app)'
  BY <1>1 DEF Good, Core, Rooted, Forgotten, source_open
<1>3. JobFits(app)'
  BY <1>1 DEF Good, JobFits, Context, source_open, InScope, Active, Readable
<1>4. ListFits(app)'
  BY <1>1 DEF Good, ListFits, Settled, Blank, Behind, Readable, Context, Place
<1> QED BY <1>2, <1>3, <1>4 DEF Good

LEMMA BecomesInv ==
    ASSUME NEW a, WindowsInv, Becomes(a), Good(a)
    PROVE  WindowsInv'
<1>1. app' = a /\ clear' = clear /\ steady' = steady /\ misplaced' = misplaced
  BY DEF Becomes
<1>2. Good(app)'
  BY <1>1, GoodNext
<1> QED BY <1>1, <1>2 DEF WindowsInv

LEMMA IdleCalm ==
    ASSUME WindowsInv, ~Busy
    PROVE  Calm(app)
<1>1. app.job = NoJob /\ app.job.kind = "none"
  BY DEF Busy, NoJob
<1> QED BY <1>1 DEF WindowsInv, Good, ListFits, Calm

\* The window when its job has ended.
LEMMA DoneFields ==
    ASSUME WindowsInv
    PROVE  /\ Done \in AppState /\ Core(Done) /\ Done.job = NoJob
           /\ SamePlace(app, Done) /\ SameList(app, Done) /\ Done.box = app.box
           /\ Settled(Done) = Settled(app) /\ Behind(Done) = Behind(app)
<1>1. NoJob \in Job /\ Core(app)
  BY DEF Job, WindowsInv, Good
<1>2. /\ Core(Done) /\ SamePlace(app, Done) /\ SameList(app, Done)
      /\ Done.job = NoJob /\ Done.box = app.box
  BY <1>1, JobPut DEF Done
<1>3. Settled(Done) = Settled(app) /\ Behind(Done) = Behind(app)
  BY <1>2, ListKept
<1> QED BY <1>2, <1>3 DEF Core

LEMMA DoneMoved ==
    ASSUME WindowsInv
    PROVE  Moved(Done) /\ (app.job.kind # "browse" \/ MayFail => Calm(Done))
<1>1. ListFits(app) /\ JobFits(app)
  BY DEF WindowsInv, Good
<1>2. /\ Core(Done) /\ Done.job = NoJob
      /\ Settled(Done) = Settled(app) /\ Behind(Done) = Behind(app)
  BY DoneFields
<1>3. Moved(Done)
  BY <1>1, <1>2 DEF Moved, ListFits
<1>4. ASSUME app.job.kind # "browse"
      PROVE  Calm(Done)
  BY <1>1, <1>2, <1>4 DEF Calm, ListFits
<1>5. ASSUME MayFail, app.job.kind = "browse"
      PROVE  Calm(Done)
  <2>1. app.job.at = Context(app)
    BY <1>1, <1>5 DEF JobFits, Reading
  <2>2. steady => Settled(app)
    BY <1>1, <1>5, <2>1 DEF MayFail, ListFits, Behind, Settled
  <2> QED BY <1>2, <2>2 DEF Calm
<1> QED BY <1>3, <1>4, <1>5

LEMMA JobTypes ==
    ASSUME WindowsInv
    PROVE  /\ app.job.kind \in Reading =>
                 app.job.at \in Where /\ app.job.path \in Dir
           /\ app.job.kind = "open" => app.job.source \in Source \cup {None}
<1>1. app.job \in Job
  BY DEF WindowsInv, Good, Core, AppState
<1>2. CASE app.job \in ReadJob
  BY <1>2 DEF ReadJob, Reading
<1>3. CASE app.job \in OpenJob
  BY <1>3 DEF OpenJob, Reading
<1>4. CASE app.job \in UpdateJob \/ app.job = NoJob
  BY <1>4 DEF UpdateJob, NoJob, Reading
<1> QED BY <1>1, <1>2, <1>3, <1>4 DEF Job

\* retry_pending_job
LEMMA RetriedGood ==
    ASSUME NEW a, Moved(a), NEW kind, kind # "browse" => Calm(a)
    PROVE  Good(Retried(a, kind))
<1>1. CASE kind = "open"
  BY <1>1, OpenBoxGood DEF Retried
<1>2. CASE kind = "browse"
  <2>1. a.path \in Dir
    BY DEF Moved, Core, AppState
  <2> QED BY <1>2, <2>1, BrowseGood DEF Retried
<1>3. CASE kind = "extract"
  BY <1>3, ExtractingGood DEF Retried
<1>4. CASE kind = "explore"
  BY <1>4, ExploringGood, CalmGood DEF Retried
<1>5. CASE kind \notin {"open", "browse", "extract", "explore"}
  <2>1. Retried(a, kind) = Updating(a)
    BY <1>5 DEF Retried
  <2> QED BY <1>5, <2>1, UpdateGood
<1> QED BY <1>1, <1>2, <1>3, <1>4, <1>5

\* restore_source_box_after_failed_open
LEMMA BoxRestoredCalm ==
    ASSUME NEW a, Calm(a), NEW kind
    PROVE  Calm(BoxRestored(a, kind))
<1>1. Active(a) \in Source \cup {None}
  BY ActiveType DEF Calm, Core
<1>2. Calm([a EXCEPT !.box = Active(a)])
  BY <1>1, BoxCalm
<1> QED BY <1>2 DEF BoxRestored

LEMMA CloseSourceInv ==
    ASSUME WindowsInv, CloseSource
    PROVE  WindowsInv'
<1> DEFINE f == IF clear THEN ForgetAll(app) ELSE app
<1>1. Calm(app)
  BY IdleCalm DEF CloseSource
<1>2. Calm(f) /\ (clear => f.keys = {})
  BY <1>1, ForgetAllCalm
<1>3. Becomes([Emptied(f) EXCEPT !.box = None])
  BY DEF CloseSource
<1> HIDE DEF f
<1>4. Calm(Emptied(f))
  BY <1>2, EmptiedCalm DEF Calm, Core
<1>5. Good([Emptied(f) EXCEPT !.box = None])
  BY <1>4, BoxCalm, CalmGood
<1> QED BY <1>3, <1>5, BecomesInv

LEMMA ClearCredentialsInv ==
    ASSUME WindowsInv, ClearCredentials
    PROVE  WindowsInv'
<1> DEFINE f == ForgetAll(app)
<1>1. Calm(f) /\ f.keys = {}
  BY IdleCalm, ForgetAllCalm DEF ClearCredentials
<1>2. Becomes(IF source_open(app) THEN Emptied(f) ELSE f)
  BY DEF ClearCredentials
<1> HIDE DEF f
<1>3. Calm(Emptied(f))
  BY <1>1, EmptiedCalm DEF Calm, Core
<1>4. Good(IF source_open(app) THEN Emptied(f) ELSE f)
  BY <1>1, <1>3, CalmGood
<1> QED BY <1>2, <1>4, BecomesInv

LEMMA EnterKeyInv ==
    ASSUME WindowsInv, EnterKey
    PROVE  WindowsInv'
<1> DEFINE a == StoreKey(app)
<1>1. Calm(a)
  BY IdleCalm, StoreKeyCalm DEF EnterKey
<1>2. Becomes(IF a.catalog # None /\ a.inception = <<>> THEN Browse(a, a.path) ELSE a)
  BY DEF EnterKey
<1> HIDE DEF a
<1>3. a.path \in Dir
  BY <1>1 DEF Calm, Core, AppState
<1>4. Good(Browse(a, a.path)) /\ Good(a)
  BY <1>1, <1>3, CalmMoved, BrowseGood, CalmGood
<1> QED BY <1>2, <1>4, BecomesInv

\* The source box holds nothing or a path.
LEMMA BoxType ==
    ASSUME WindowsInv
    PROVE  {app.box} \in SUBSET (Source \cup {None})
BY DEF WindowsInv, Good, Core, AppState

LEMMA FinishCatalogInv ==
    ASSUME WindowsInv, NEW v \in View, NEW supplied \in BOOLEAN, FinishCatalog(v, supplied)
    PROVE  WindowsInv'
<1> DEFINE s == app.job.source
           b == Activate(Done, s)
           c == [b EXCEPT !.volume = None, !.view = v, !.catalog = s]
<1>1. s \in Source /\ Calm(Done)
  BY DoneMoved, WindowsAssumption, PlacesAssumption DEF FinishCatalog
<1>2. Becomes(Unlocked(c, supplied))
  BY DEF FinishCatalog
<1> HIDE DEF s
<1>3. /\ Calm(b) /\ b.catalog \in {None, s}
      /\ b.inception # <<>> /\ b.inception[1].path = None =>
            b.inception[1].source = s
  BY <1>1, ActivateCalm
<1> HIDE DEF b
<1>4. Moved(c)
  BY <1>1, <1>3, CatalogMoved
<1> HIDE DEF c
<1>5. Good(Unlocked(c, supplied))
  BY <1>4, UnlockedGood
<1> QED BY <1>2, <1>5, BecomesInv

LEMMA EmptiedFields ==
    ASSUME NEW a \in AppState
    PROVE  /\ Emptied(a).catalog = None /\ Emptied(a).inception = <<>>
           /\ Emptied(a).listed = None
<1> DEFINE b == [a EXCEPT !.catalog = None, !.view = None, !.inception = <<>>,
                          !.volume = None]
<1>1. <<>> \in Seq(Frame)
  OBVIOUS
<1>2. b \in AppState /\ b.catalog = None /\ b.inception = <<>>
  BY <1>1 DEF AppState
<1>3. Emptied(a) = [b EXCEPT !.listed = None, !.path = Root]
  BY DEF Emptied, ClearDirectory
<1> HIDE DEF b
<1> QED BY <1>2, <1>3 DEF AppState

LEMMA FinishImageInv ==
    ASSUME WindowsInv, NEW v \in Volume, FinishImage(v)
    PROVE  WindowsInv'
<1> DEFINE s == app.job.source
           b == Activate(Done, s)
           e == Emptied(b)
           f == [source |-> s, view |-> None, path |-> None, volume |-> None]
<1>1. s \in ImageSource /\ s \in Source /\ s # None /\ Calm(Done)
  BY DoneMoved, WindowsAssumption, PlacesAssumption DEF FinishImage
<1>2. Becomes(Entered(e, f, v))
  BY DEF FinishImage
<1> HIDE DEF s
<1>3. f \in Frame /\ f.path = None /\ f.source = s
  BY <1>1 DEF Frame
<1>4. Calm(b) /\ b.catalog \in {None, s}
  BY <1>1, ActivateCalm
<1> HIDE DEF b, f
<1>5. b \in AppState /\ b.job = NoJob /\ Forgotten(b)
  BY <1>4 DEF Calm, Core
<1>6. clear => \A k \in b.keys : k.view # None => k.source \in ImageSource
  BY <1>1, <1>4, <1>5 DEF Forgotten
<1>7. Calm(e)
  BY <1>5, <1>6, EmptiedCalm
<1>8. e.catalog = None /\ e.inception = <<>>
  BY <1>5, EmptiedFields
<1> HIDE DEF e
<1>9. Good(Entered(e, f, v))
  BY <1>1, <1>3, <1>7, <1>8, EnteredGood
<1> QED BY <1>2, <1>9, BecomesInv

LEMMA FinishExploreInv ==
    ASSUME WindowsInv, NEW v \in Volume, FinishExplore(v)
    PROVE  WindowsInv'
<1> DEFINE base == IF app.inception = <<>> THEN app.catalog ELSE app.inception[1].source
           f == [source |-> base, view |-> app.view, path |-> app.job.path,
                 volume |-> app.volume]
<1>1. app.job.kind = "explore" /\ app.job.kind \in Reading
  BY DEF FinishExplore, Reading
<1>2. Calm(Done) /\ SamePlace(app, Done)
  BY <1>1, DoneMoved, DoneFields
<1>3. app \in AppState /\ app.job.at = Context(app) /\ source_open(app)
  BY <1>1 DEF WindowsInv, Good, Core, JobFits
<1>4. Becomes(Entered(Done, f, v)) /\ (app.inception # <<>> => app.job.at.volume # None)
  BY DEF FinishExplore
<1>5. app.job.path \in Dir /\ app.job.path # None
  BY <1>1, JobTypes, WindowsAssumption, PlacesAssumption
<1>6. base \in Source \cup {None}
  <2>1. app.inception # <<>> => app.inception[1] \in Frame
    BY <1>3 DEF AppState
  <2>2. app.inception # <<>> => app.inception[1].source \in Source \cup {None}
    BY <2>1 DEF Frame
  <2> QED BY <1>3, <2>2 DEF AppState
<1> HIDE DEF base
<1>7. f \in Frame /\ f.path = app.job.path /\ f.volume = app.volume
  BY <1>3, <1>5, <1>6 DEF Frame, AppState
<1> HIDE DEF f
<1>8. app.inception # <<>> => app.volume # None
  BY <1>3, <1>4 DEF Context
<1>9. /\ Done.inception = app.inception /\ Done.catalog = app.catalog
      /\ Done.volume = app.volume
  BY <1>2 DEF SamePlace
<1>10. Good(Entered(Done, f, v))
  BY <1>2, <1>3, <1>5, <1>7, <1>8, <1>9, EnteredGood DEF source_open
<1> QED BY <1>4, <1>10, BecomesInv

LEMMA FinishDirectoryInv ==
    ASSUME WindowsInv, FinishDirectory
    PROVE  WindowsInv'
<1> DEFINE p == app.job.path
           l == Place(app.job.at, p)
           b == [Done EXCEPT !.path = p, !.listed = l]
<1>1. app.job.kind = "browse" /\ app.job.kind \in Reading /\ Becomes(b)
  BY DEF FinishDirectory, Reading
<1>2. /\ Done \in AppState /\ Core(Done) /\ Done.job = NoJob /\ SamePlace(app, Done)
  BY DoneFields
<1>3. app.job.at = Context(app) /\ source_open(app)
  BY <1>1 DEF WindowsInv, Good, JobFits
<1>4. p \in Dir /\ l \in [context : Where, path : Dir]
  BY <1>1, JobTypes DEF Place
<1>5. l = Place(Context(app), p)
  BY <1>3
<1> HIDE DEF p, l
<1>6. /\ b \in AppState /\ b.job = NoJob /\ SamePlace(Done, b) /\ SamePlace(app, b)
      /\ b.path = p /\ b.listed = l /\ b.keys = Done.keys /\ b.catalog = Done.catalog
  BY <1>2, <1>4 DEF AppState, SamePlace
<1> HIDE DEF b
<1>7. Context(b) = Context(app) /\ source_open(b) = source_open(app)
  BY <1>6, PlaceKept
<1>8. Rooted(b) /\ Forgotten(b)
  <2>1. Rooted(Done) /\ Forgotten(Done)
    BY <1>2 DEF Core
  <2>2. Rooted(b) = Rooted(Done)
    BY <1>6, PlaceKept
  <2> QED BY <1>6, <2>1, <2>2, KeysKept
<1>9. Settled(b)
  BY <1>5, <1>6, <1>7 DEF Settled
<1>10. Calm(b)
  BY <1>3, <1>6, <1>7, <1>8, <1>9 DEF Calm, Core
<1> QED BY <1>1, <1>10, CalmGood, BecomesInv

LEMMA FinishExtractInv ==
    ASSUME WindowsInv, FinishExtract
    PROVE  WindowsInv'
<1>1. app.job.kind = "extract" /\ app.job.kind \in Reading
  BY DEF FinishExtract, Reading
<1>2. app' = Done /\ UNCHANGED <<clear, steady>>
  BY DEF FinishExtract
<1>3. Good(Done)
  BY <1>1, DoneMoved, CalmGood
<1>4. Good(app)'
  BY <1>2, <1>3, GoodNext
<1>5. steady => Place(app.job.at, app.job.path) = app.listed
  <2>1. /\ app.job.at = Context(app) /\ app.job.path = app.path /\ app.listed # None
        /\ steady => Settled(app)
    BY <1>1 DEF WindowsInv, Good, JobFits, ListFits
  <2>2. app.job.at.images # <<>> => app.job.at.volume # None
    BY DEF FinishExtract
  <2>3. ~Blank(app)
    BY <2>1, <2>2 DEF Blank, Context
  <2> QED BY <2>1, <2>3 DEF Settled
<1>6. ~misplaced'
  <2>1. misplaced' = (misplaced \/ (steady /\ Place(app.job.at, app.job.path) # app.listed))
    BY DEF FinishExtract
  <2>2. ~(steady /\ Place(app.job.at, app.job.path) # app.listed)
    BY <1>5
  <2>3. ~misplaced
    BY DEF WindowsInv
  <2> QED BY <2>1, <2>2, <2>3
<1> QED BY <1>4, <1>6 DEF WindowsInv

LEMMA ContainerKeyNeededInv ==
    ASSUME WindowsInv, NEW supplied \in BOOLEAN, ContainerKeyNeeded(supplied)
    PROVE  WindowsInv'
<1> DEFINE b == [Done EXCEPT !.container_key = {app.box}]
           c == [Done EXCEPT !.container_key = {}]
           kind == app.job.kind
<1>1. Becomes(IF supplied THEN Retried(b, kind) ELSE BoxRestored(c, kind))
  BY DEF ContainerKeyNeeded
<1>2. supplied \/ MayFail
  BY DEF ContainerKeyNeeded
<1>3. {app.box} \in SUBSET (Source \cup {None}) /\ {} \in SUBSET (Source \cup {None})
  BY BoxType
<1>4. Moved(b) /\ (kind # "browse" => Calm(b))
  BY <1>3, DoneMoved, ContainerMoved, ContainerCalm
<1>5. ~supplied => Calm(c)
  BY <1>2, <1>3, DoneMoved, ContainerCalm
<1> HIDE DEF b, c, kind
<1>6. Good(Retried(b, kind))
  BY <1>4, RetriedGood
<1>7. ~supplied => Good(BoxRestored(c, kind))
  BY <1>5, BoxRestoredCalm, CalmGood
<1>8. CASE supplied
  BY <1>1, <1>6, <1>8, BecomesInv
<1>9. CASE ~supplied
  BY <1>1, <1>7, <1>9, BecomesInv
<1> QED BY <1>8, <1>9

LEMMA KeyNeededInv ==
    ASSUME WindowsInv, NEW supplied \in BOOLEAN, KeyNeeded(supplied)
    PROVE  WindowsInv'
<1> DEFINE r == RemoveKeys(Done)
           a == ClearDirectory(r)
           kind == app.job.kind
<1>1. Becomes(IF supplied THEN Retried(StoreKey(a), kind) ELSE a)
  BY DEF KeyNeeded
<1>2. Core(r) /\ r.job = NoJob
  BY DoneFields, RemoveKeysKeeps
<1> HIDE DEF r
<1>3. Calm(a)
  BY <1>2, ClearedCalm DEF Core
<1> HIDE DEF a, kind
<1>4. Good(a) /\ Good(Retried(StoreKey(a), kind))
  BY <1>3, CalmGood, StoreKeyCalm, CalmMoved, RetriedGood
<1> QED BY <1>1, <1>4, BecomesInv

LEMMA OpenFailsInv ==
    ASSUME WindowsInv, NEW box \in Source, OpenFails(box)
    PROVE  WindowsInv'
<1>1. Calm(Done)
  BY DoneMoved DEF OpenFails
<1>2. Good(BoxRestored(Done, "open")) /\ Good(Done)
  BY <1>1, BoxRestoredCalm, CalmGood
<1>3. Calm([Done EXCEPT !.box = box])
  BY <1>1, BoxCalm
<1>4. Good(OpenBox([Done EXCEPT !.box = box]))
  BY <1>3, OpenBoxGood
<1> QED BY <1>2, <1>4, BecomesInv DEF OpenFails

\* A command of the user, given while no job runs.
Command ==
    \/ \E s \in Source : OpenSource(s)
    \/ \E v \in View, supplied \in BOOLEAN : SelectView(v, supplied)
    \/ \E v \in Volume : SelectVolume(v)
    \/ \E p \in Dir : Go(p)
    \/ EnterContainerKey \/ extract_selected \/ Explore \/ LeaveImage \/ Update

LEMMA CommandInv ==
    ASSUME WindowsInv, Command
    PROVE  WindowsInv'
<1>1. Calm(app) /\ Moved(app)
  <2>1. ~Busy
    BY DEF Command, OpenSource, SelectView, SelectVolume, Go, EnterContainerKey,
           extract_selected, Explore, LeaveImage, Update
  <2> QED BY <2>1, IdleCalm, CalmMoved
<1>2. ASSUME NEW s \in Source, OpenSource(s)
      PROVE  WindowsInv'
  <2>1. Calm([app EXCEPT !.box = s])
    BY <1>1, BoxCalm
  <2>2. Good(OpenBox([app EXCEPT !.box = s]))
    BY <2>1, OpenBoxGood
  <2> QED BY <1>2, <2>2, BecomesInv DEF OpenSource
<1>3. ASSUME NEW v \in View, NEW supplied \in BOOLEAN, SelectView(v, supplied)
      PROVE  WindowsInv'
  <2>1. Moved(ClearDirectory([app EXCEPT !.view = v]))
    BY <1>1, ViewMoved
  <2>2. Good(Unlocked(ClearDirectory([app EXCEPT !.view = v]), supplied))
    BY <2>1, UnlockedGood
  <2> QED BY <1>3, <2>2, BecomesInv DEF SelectView
<1>4. ASSUME NEW v \in Volume, SelectVolume(v)
      PROVE  WindowsInv'
  <2>1. Moved([app EXCEPT !.volume = v])
    BY <1>1, <1>4, VolumeMoved DEF SelectVolume
  <2>2. Good(Browse([app EXCEPT !.volume = v], Root))
    BY <2>1, BrowseGood, WindowsAssumption, PlacesAssumption
  <2> QED BY <1>4, <2>2, BecomesInv DEF SelectVolume
<1>5. ASSUME NEW p \in Dir, Go(p)
      PROVE  WindowsInv'
  <2>1. Good(Browse(app, p))
    BY <1>1, BrowseGood
  <2> QED BY <1>5, <2>1, BecomesInv DEF Go
<1>6. CASE EnterContainerKey
  <2>1. Calm([app EXCEPT !.container_key = {app.box}])
    BY <1>1, BoxType, ContainerCalm
  <2> QED BY <1>6, <2>1, CalmGood, BecomesInv DEF EnterContainerKey
<1>7. CASE extract_selected
  BY <1>1, <1>7, ExtractingGood, BecomesInv DEF extract_selected
<1>8. CASE Explore
  BY <1>1, <1>8, ExploringGood, BecomesInv DEF Explore
<1>9. CASE LeaveImage
  BY <1>1, <1>9, LeftGood, BecomesInv DEF LeaveImage
<1>10. CASE Update
  BY <1>1, <1>10, UpdateGood, BecomesInv DEF Update
<1> QED BY <1>2, <1>3, <1>4, <1>5, <1>6, <1>7, <1>8, <1>9, <1>10 DEF Command

LEMMA WindowsInitInv ==
    ASSUME WindowsInit
    PROVE  WindowsInv
<1>1. Root \in Dir /\ <<>> \in Seq(Frame) /\ NoJob \in Job
  BY WindowsAssumption, PlacesAssumption DEF Job
<1>2. /\ app \in AppState /\ app.catalog = None /\ app.inception = <<>>
      /\ app.listed = None /\ app.keys = {} /\ app.job = NoJob
  BY <1>1 DEF WindowsInit, AppState
<1>3. Rooted(app) /\ Forgotten(app)
  BY <1>2 DEF Rooted, Forgotten
<1>4. Calm(app)
  BY <1>2, <1>3 DEF Calm, Core, Settled
<1> QED BY <1>4, CalmGood DEF WindowsInv, WindowsInit

LEMMA WindowsNextInv ==
    ASSUME WindowsInv, [WindowsNext]_windowsVars
    PROVE  WindowsInv'
<1>1. CASE Command
  BY <1>1, CommandInv
<1>2. CASE CloseSource \/ ClearCredentials \/ EnterKey
  BY <1>2, CloseSourceInv, ClearCredentialsInv, EnterKeyInv
<1>3. ASSUME NEW v \in View, NEW supplied \in BOOLEAN, FinishCatalog(v, supplied)
      PROVE  WindowsInv'
  BY <1>3, FinishCatalogInv
<1>4. ASSUME NEW v \in Volume, FinishImage(v) \/ FinishExplore(v)
      PROVE  WindowsInv'
  BY <1>4, FinishImageInv, FinishExploreInv
<1>5. CASE FinishDirectory \/ FinishExtract
  BY <1>5, FinishDirectoryInv, FinishExtractInv
<1>6. CASE FinishUpdate
  <2>1. Good(Done)
    BY <1>6, DoneMoved, CalmGood DEF FinishUpdate
  <2> QED BY <1>6, <2>1, BecomesInv DEF FinishUpdate
<1>7. ASSUME NEW supplied \in BOOLEAN,
             ContainerKeyNeeded(supplied) \/ KeyNeeded(supplied)
      PROVE  WindowsInv'
  BY <1>7, ContainerKeyNeededInv, KeyNeededInv
<1>8. ASSUME NEW s \in Source, OpenFails(s)
      PROVE  WindowsInv'
  BY <1>8, OpenFailsInv
<1>9. ASSUME NEW restore \in BOOLEAN, JobFails(restore)
      PROVE  WindowsInv'
  <2>1. Calm(Done)
    BY <1>9, DoneMoved DEF JobFails
  <2>2. Good(Done) /\ Good(Extracting(Done))
    BY <2>1, CalmGood, ExtractingGood
  <2> QED BY <1>9, <2>2, BecomesInv DEF JobFails
<1>10. CASE UNCHANGED windowsVars
  <2>1. UNCHANGED <<clear, steady>> /\ app' = app /\ misplaced' = misplaced
    BY <1>10 DEF windowsVars
  <2>2. Good(app)'
    BY <2>1, GoodNext DEF WindowsInv
  <2> QED BY <2>1, <2>2 DEF WindowsInv
<1> QED BY <1>1, <1>2, <1>3, <1>4, <1>5, <1>6, <1>7, <1>8, <1>9, <1>10
       DEF WindowsNext, Command

\* The inductive invariant is one.
LEMMA WindowsInvariant == WindowsSpec => []WindowsInv
<1>1. WindowsInit => WindowsInv
  BY WindowsInitInv
<1>2. WindowsInv /\ [WindowsNext]_windowsVars => WindowsInv'
  BY WindowsNextInv
<1> QED BY <1>1, <1>2, PTL DEF WindowsSpec

\* ResultFitsState: whatever the user does while a worker runs (nothing but
\* wait, by the guard of every command) and however jobs are retried, a
\* result arrives in a window that still has the place open it was read from.
THEOREM WindowsResultFits == WindowsSpec => []ResultFitsState
<1>1. WindowsInv => ResultFitsState
  BY DEF WindowsInv, Good, JobFits, Reading, ResultFitsState
<1> QED BY <1>1, WindowsInvariant, PTL

\* RestoredIsListed: a restore takes the file from the directory whose list
\* was on the screen, if the first listing after a change of place succeeds.
THEOREM WindowsRestoredListed == WindowsSpec => []RestoredIsListed
<1>1. WindowsInv => RestoredIsListed
  BY DEF WindowsInv, RestoredIsListed
<1> QED BY <1>1, WindowsInvariant, PTL

\* KeyInScope: no job that reads the open backup is given a key that was entered
\* for another backup or restore point, nor is an update while there is a key of
\* the open one; an open of a container is given only the passphrase of its path.
THEOREM WindowsKeysInScope == WindowsSpec => []KeyInScope
<1>1. WindowsInv => KeyInScope
  BY DEF WindowsInv, Good, JobFits, Reading, OwnKey, KeyInScope
<1> QED BY <1>1, WindowsInvariant, PTL

\* OthersForgotten: with clear_credentials_on_source_change on, a key of a
\* restore point is of the open backup, or of one that is also a disk image.
THEOREM WindowsOthersForgotten == WindowsSpec => []OthersForgotten
<1>1. WindowsInv => OthersForgotten
  BY DEF WindowsInv, Good, Core, Forgotten, OthersForgotten
<1> QED BY <1>1, WindowsInvariant, PTL
=============================================================================
