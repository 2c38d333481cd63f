----------------------------- MODULE PartsProofs -----------------------------
(***************************************************************************)
(* What the parts promise holds of the installation they are parts of, for *)
(* every value of the constants.  The arguments are in ProviderProofs and  *)
(* PluginProofs, and here for the browser; then each part is found in the  *)
(* whole.                                                                  *)
(***************************************************************************)
EXTENDS Parts, ProviderProofs, PluginProofs

-----------------------------------------------------------------------------
(* The browser.  A pair is in the jar, in the cookies of a request or on   *)
(* the way in an answer.  Only a rotation moves a serial, and it needs the *)
(* refresh token of that session; so the pair of a sign-in, which nobody   *)
(* has seen, is current when it arrives, and every other pair is as long   *)
(* as one request at a time may write.                                     *)

BrowserSpec == BrowserInit /\ [][BrowserNext]_browserVars

SignIns == {"signin", "verify", "callback"}

\* p was issued, and the server has not gone back since.
Issued(p) == p = Nil \/ (p \in Pair /\ owner[p.session] # Nil /\ p.serial <= serial[p.session])

PairsIssued ==
    /\ Issued(jar.access) /\ Issued(jar.refresh)
    /\ \A r \in Request :
          Issued(net[r].cookies.access) /\ Issued(net[r].cookies.refresh) /\ Issued(net[r].tokens)
    /\ \A s \in Session : owner[s] = Nil => serial[s] = 0

\* What an answer of each kind may write.
AnswerSound(w) ==
    /\ w.kind \in {"session", "authorize", "signout"} => w.tokens = Nil
    /\ w.kind # "signin" => w.pending = Nil
    /\ w.kind \in {"session", "authorize", "guarded"} => w.deleted = {}
    /\ w.kind \in SignIns => w.deleted \subseteq {"pending", "state"}
    /\ w.kind = "signout" => w.deleted = {} \/ w.deleted = AuthCookies
    /\ w.kind = "signout" /\ w.body = "ok" => w.deleted = AuthCookies
    /\ w.kind = "callback" /\ w.body = "ok" => "state" \in w.deleted
    /\ w.pc # "answered" => w.tokens = Nil /\ w.pending = Nil /\ w.deleted = {}
    /\ w.kind = Nil => w.tokens = Nil

\* What each kind of request has with it.
RequestSound(w) ==
    /\ w.kind \in {"signin", "callback"} => w.user \in Visitor
    /\ w.kind = "verify" /\ w.pc = "sent" => w.cookies.pending \in Visitor
    /\ w.kind = "authorize" => w.state \in State /\ w.state \notin away
    /\ w.kind = "callback" => w.state \in away
    /\ w.kind = "session" => w.body \in Visitor \cup {Nil}
    /\ w.kind = "callback" /\ w.pc = "sent" /\ w.replay => w.state # w.cookies.state

\* No state is sent to the provider twice, and the cookie of a round trip that is
\* over is not there.
TripsApart ==
    /\ \A r, q \in Request :
          r # q /\ net[r].kind = "authorize" /\ net[q].kind = "authorize" => net[r].state # net[q].state
    /\ jar.state \notin settled

NotOf(p, s) == p = Nil \/ p.session # s

\* Nobody but the answer has a pair of the session a sign-in has just opened.
FreshSignIns ==
    \A r \in Request : net[r].kind \in SignIns /\ net[r].tokens # Nil =>
        /\ net[r].tokens.serial = serial[net[r].tokens.session]
        /\ NotOf(jar.refresh, net[r].tokens.session)
        /\ \A q \in Request :
              /\ NotOf(net[q].cookies.refresh, net[r].tokens.session)
              /\ q # r => NotOf(net[q].tokens, net[r].tokens.session)

OneWriter ==
    ~crossed => \A r, q \in Request : net[r].kind \in Writers /\ net[q].kind \in Writers => r = q

OnePair ==
    /\ jar.refresh # Nil => jar.refresh.serial = serial[jar.refresh.session]
    /\ jar.access # Nil => jar.refresh = jar.access

NoPairOnTheWay == \A r \in Request : net[r].tokens = Nil

PairsCurrent == ~crossed /\ NoPairOnTheWay => OnePair

TokensCurrent ==
    ~crossed => \A r \in Request :
        net[r].tokens # Nil => net[r].tokens.serial = serial[net[r].tokens.session]

\* w can bring nobody a session.
Powerless(w) ==
    /\ w.kind \notin SignIns /\ w.tokens = Nil
    /\ w.cookies.access = Nil /\ w.cookies.refresh = Nil
    /\ w.kind = "session" => w.body = Nil

SignedOutAll == signedOut => \A r \in Request : Powerless(net[r])

BrowserInv ==
    /\ BrowserTypeOK /\ PairsIssued
    /\ \A r \in Request : AnswerSound(net[r]) /\ RequestSound(net[r])
    /\ TripsApart /\ FreshSignIns /\ OneWriter /\ PairsCurrent /\ TokensCurrent
    /\ SignedOutAll /\ StaysSignedOut /\ ~replayed

LEMMA BrowserInitSound == BrowserInit => BrowserInv
<1>. SUFFICES ASSUME BrowserInit
              PROVE  BrowserInv
  OBVIOUS
<1>. USE NilAssumption, GuestAssumption, MaxSerialAssumption DEF BrowserInit
<1>1. BrowserTypeOK
  <2>1. jar \in Jar /\ jar.access = Nil /\ jar.refresh = Nil
    BY DEF Jar, NoCookies
  <2>2. net \in [Request -> InFlight \cup {Free}]
    OBVIOUS
  <2>3. MaxSerial \in Nat /\ 0 \in 0..MaxSerial
    OBVIOUS
  <2>. QED
    BY <2>1, <2>2, <2>3 DEF BrowserTypeOK
<1>2. PairsIssued
  BY DEF PairsIssued, Issued, NoCookies, Free
<1>3. ASSUME NEW r \in Request PROVE AnswerSound(net[r]) /\ RequestSound(net[r]) /\ Powerless(net[r])
  BY DEF AnswerSound, RequestSound, Powerless, Free, NoCookies, Kinds, Writers, SignIns
<1>4. TripsApart /\ FreshSignIns /\ OneWriter /\ PairsCurrent /\ TokensCurrent /\ StaysSignedOut
  BY DEF TripsApart, FreshSignIns, OneWriter, PairsCurrent, OnePair, TokensCurrent, StaysSignedOut,
         Free, NoCookies, Kinds, Writers, SignIns
<1>. QED
  BY <1>1, <1>2, <1>3, <1>4 DEF BrowserInv, SignedOutAll

-----------------------------------------------------------------------------

\* A request in flight.
LEMMA InFlightOrFree ==
  ASSUME BrowserTypeOK, NEW r \in Request
  PROVE  /\ net[r].pc \in {"sent", "answered"} => net[r] \in InFlight
         /\ net[r] # Free => net[r] \in InFlight
         /\ net[r].kind \in Kinds => net[r] \in InFlight
         /\ net[r].cookies \in Jar /\ net[r].tokens \in Pair \cup {Nil}
<1>1. net[r] \in InFlight \cup {Free}
  BY DEF BrowserTypeOK
<1>2. CASE net[r] \in InFlight
  BY <1>2 DEF InFlight
<1>3. CASE net[r] = Free
  <2>1. NoCookies \in Jar
    BY DEF NoCookies, Jar
  <2>2. /\ net[r].pc = "free" /\ net[r].kind = Nil
        /\ net[r].cookies \in Jar /\ net[r].tokens = Nil
    BY <1>3, <2>1 DEF Free
  <2>. QED
    BY <1>3, <2>2, NilAssumption
<1>. QED
  BY <1>1, <1>2, <1>3

\* A request takes cookies of the jar.
LEMMA CookiesSeen ==
  ASSUME BrowserTypeOK, NEW kind \in Kinds
  PROVE  /\ Sees(kind) \in Jar
         /\ Sees(kind).access \in {Nil, jar.access} /\ Sees(kind).refresh \in {Nil, jar.refresh}
         /\ kind = "verify" => Sees(kind).pending = jar.pending
         /\ kind = "callback" => Sees(kind).state = jar.state
<1>. USE DEF BrowserTypeOK, Sees, NoCookies, Jar
<1>1. CASE kind = "session"
  BY <1>1
<1>2. CASE kind = "guarded"
  BY <1>2
<1>3. CASE kind = "signout"
  BY <1>3
<1>4. CASE kind = "verify"
  BY <1>4
<1>5. CASE kind = "callback"
  BY <1>5
<1>6. CASE kind \notin {"session", "guarded", "signout", "verify", "callback"}
  BY <1>6
<1>. QED
  BY <1>1, <1>2, <1>3, <1>4, <1>5, <1>6

LEMMA SendKeeps ==
  ASSUME BrowserInv, NEW r \in Request, NEW kind \in Kinds, NEW user \in Visitor \cup {Nil},
         NEW st \in State \cup {Nil}, Send(r, kind, user, st),
         kind \in {"signin", "callback"} => user \in Visitor,
         kind = "verify" => jar.pending # Nil,
         kind = "authorize" => st \in State \ away /\ \A q \in Request : net[q].state # st,
         kind = "callback" => st \in away
  PROVE  BrowserInv'
<1>1. BrowserTypeOK /\ Sees(kind) \in Jar
  BY CookiesSeen DEF BrowserInv
<1>2. PICK c \in Jar : c = Sees(kind)
  BY <1>1
<1>3. PICK again \in BOOLEAN : again <=> (st \in settled)
  <2>1. CASE st \in settled
    BY <2>1
  <2>2. CASE st \notin settled
    BY <2>2
  <2>. QED
    BY <2>1, <2>2
<1>4. PICK w : w = [Free EXCEPT !.pc = "sent", !.kind = kind, !.user = user, !.state = st,
                                !.cookies = c, !.replay = again]
  OBVIOUS
<1>5. /\ w \in InFlight
      /\ w.pc = "sent" /\ w.kind = kind /\ w.user = user /\ w.state = st /\ w.cookies = c
      /\ w.replay = again /\ w.tokens = Nil /\ w.pending = Nil /\ w.deleted = {} /\ w.body = Nil
  <2>1. w \in InFlight
    BY <1>4 DEF Free, InFlight
  <2>. QED
    BY <1>4, <2>1 DEF Free
<1>6. net' = [net EXCEPT ![r] = w]
  BY <1>2, <1>3, <1>4 DEF Send
<1>7. net'[r] = w /\ \A q \in Request \ {r} : net'[q] = net[q]
  BY <1>1, <1>6 DEF BrowserTypeOK
<1>8. /\ crossed' = (crossed \/ (kind \in Writers /\ Busy(r, Writers)))
      /\ signedOut' = (signedOut /\ kind \notin SignIns)
      /\ UNCHANGED <<owner, serial, live, jar, away, view, settled, replayed>>
  BY DEF Send, SignIns
<1>9. /\ c.access \in {Nil, jar.access} /\ c.refresh \in {Nil, jar.refresh}
      /\ kind = "verify" => c.pending = jar.pending
      /\ kind = "callback" => c.state = jar.state
  BY <1>1, <1>2, CookiesSeen
<1>10. BrowserTypeOK'
  <2>1. net' \in [Request -> InFlight \cup {Free}]
    BY <1>1, <1>5, <1>6 DEF BrowserTypeOK
  <2>2. crossed' \in BOOLEAN /\ signedOut' \in BOOLEAN
    BY <1>1, <1>8 DEF BrowserTypeOK
  <2>. QED
    BY <1>1, <1>8, <2>1, <2>2 DEF BrowserTypeOK, Owner
<1>11. PairsIssued'
  BY <1>5, <1>7, <1>8, <1>9 DEF BrowserInv, PairsIssued, Issued
<1>12. ASSUME NEW q \in Request PROVE (AnswerSound(net[q]) /\ RequestSound(net[q]))'
  <2>0. AnswerSound(net[q]) /\ RequestSound(net[q])
    BY DEF BrowserInv
  <2>1. CASE q # r
    BY <2>0, <2>1, <1>7, <1>8 DEF AnswerSound, RequestSound
  <2>2. AnswerSound(w)
    BY <1>5, NilAssumption DEF AnswerSound
  <2>3. jar.pending \in Visitor \cup {Nil} /\ jar.state \notin settled
    BY <1>1 DEF BrowserTypeOK, Jar, BrowserInv, TripsApart
  <2>4. RequestSound(w)
    BY <1>3, <1>5, <1>9, <2>3 DEF RequestSound
  <2>. QED
    BY <2>1, <2>2, <2>4, <1>7, <1>8 DEF AnswerSound, RequestSound
<1>13. TripsApart'
  BY <1>5, <1>7, <1>8 DEF BrowserInv, TripsApart
<1>14. FreshSignIns'
  BY <1>5, <1>7, <1>8, <1>9 DEF BrowserInv, FreshSignIns, NotOf
<1>15. OneWriter'
  BY <1>5, <1>7, <1>8 DEF BrowserInv, OneWriter, Busy
<1>16. net[r].tokens = Nil
  BY DEF Send, Free
<1>17. PairsCurrent' /\ TokensCurrent'
  BY <1>5, <1>7, <1>8, <1>16 DEF BrowserInv, PairsCurrent, TokensCurrent, OnePair, NoPairOnTheWay
<1>18. SignedOutAll'
  <2>. SUFFICES ASSUME signedOut, kind \notin SignIns, NEW q \in Request
                PROVE  Powerless(net'[q])
    BY <1>8 DEF SignedOutAll, Powerless
  <2>1. Powerless(net[q]) /\ jar.access = Nil /\ jar.refresh = Nil
    BY DEF BrowserInv, SignedOutAll, StaysSignedOut
  <2>. QED
    BY <2>1, <1>5, <1>7, <1>9 DEF Powerless
<1>19. StaysSignedOut' /\ ~replayed'
  BY <1>8 DEF BrowserInv, StaysSignedOut
<1>. QED
  BY <1>10, <1>11, <1>12, <1>13, <1>14, <1>15, <1>17, <1>18, <1>19 DEF BrowserInv

\* The steps of the server: an answer that brings nothing, the pair of a session
\* just opened, or the next pair of a rotation.
OpensSession(w) ==
    /\ w.kind \in SignIns /\ UNCHANGED serial
    /\ \E s \in Session, u \in Visitor :
          owner[s] = Nil /\ owner' = [owner EXCEPT ![s] = u] /\ w.tokens = [session |-> s, serial |-> 0]

Rotates(w, p) ==
    /\ w.kind = "guarded" /\ UNCHANGED owner
    /\ p # Nil /\ p.serial = serial[p.session] /\ p.serial < MaxSerial
    /\ serial' = [serial EXCEPT ![p.session] = @ + 1]
    /\ w.tokens = Successor(p)

LEMMA ReplyKeeps ==
  ASSUME BrowserInv, NEW r \in Request, net[r].pc = "sent",
         NEW w \in InFlight, net' = [net EXCEPT ![r] = w],
         w.pc = "answered", w.kind = net[r].kind, w.state = net[r].state, w.user = net[r].user,
         w.cookies = NoCookies, AnswerSound(w),
         w.kind = "session" => w.body \in Visitor \cup {Nil},
         UNCHANGED <<jar, away, view, crossed, signedOut, settled, replayed>>,
         signedOut => w.tokens = Nil /\ (w.kind = "session" => w.body = Nil),
         live' \subseteq Session, \A s \in live' : owner'[s] # Nil,
         \/ w.tokens = Nil /\ UNCHANGED <<owner, serial>>
         \/ OpensSession(w)
         \/ Rotates(w, net[r].cookies.refresh)
  PROVE  BrowserInv'
<1>. DEFINE p == net[r].cookies.refresh
<1>1. /\ BrowserTypeOK /\ PairsIssued /\ AnswerSound(net[r]) /\ RequestSound(net[r])
      /\ net[r] \in InFlight /\ net[r].tokens = Nil
  BY InFlightOrFree DEF BrowserInv, AnswerSound
<1>2. net'[r] = w /\ \A q \in Request \ {r} : net'[q] = net[q]
  BY <1>1 DEF BrowserTypeOK
<1>3. /\ w.cookies.access = Nil /\ w.cookies.refresh = Nil /\ w.cookies.state = Nil
      /\ w.kind \in Kinds /\ w.kind # Nil
  BY NilAssumption DEF NoCookies, InFlight
<1>4. w.tokens # Nil => w.kind \in Writers
  BY <1>3 DEF AnswerSound, Kinds
<1>5. ASSUME NEW s \in Session, owner[s] # Nil
      PROVE  owner'[s] = owner[s] /\ owner'[s] # Nil /\ serial[s] <= serial'[s]
  <2>. USE <1>1, MaxSerialAssumption DEF BrowserTypeOK
  <2>1. CASE w.tokens = Nil /\ UNCHANGED <<owner, serial>>
    BY <1>5, <2>1
  <2>2. CASE OpensSession(w)
    BY <1>5, <2>2 DEF OpensSession
  <2>3. CASE Rotates(w, p)
    BY <1>5, <2>3 DEF Rotates
  <2>. QED
    BY <2>1, <2>2, <2>3
<1>6. /\ owner' \in [Session -> Visitor \cup {Nil}] /\ serial' \in [Session -> 0..MaxSerial]
      /\ \A s \in Session : owner'[s] = Nil => serial'[s] = 0
  <2>. USE <1>1, MaxSerialAssumption DEF BrowserTypeOK, PairsIssued
  <2>1. CASE w.tokens = Nil /\ UNCHANGED <<owner, serial>>
    BY <2>1
  <2>2. CASE OpensSession(w)
    BY <2>2 DEF OpensSession
  <2>3. CASE Rotates(w, p)
    <3>1. p \in Pair /\ owner[p.session] # Nil
      BY <2>3 DEF Rotates, Issued
    <3>2. p.session \in Session /\ p.serial \in 0..MaxSerial
      BY <3>1 DEF Pair
    <3>. QED
      BY <2>3, <3>1, <3>2 DEF Rotates
  <2>. QED
    BY <2>1, <2>2, <2>3
<1>7. ASSUME NEW o, Issued(o) PROVE Issued(o)'
  <2>1. CASE o # Nil
    <3>1. o.session \in Session /\ o.serial \in 0..MaxSerial /\ owner[o.session] # Nil
      BY <1>7, <2>1 DEF Issued, Pair
    <3>2. serial[o.session] \in Nat /\ serial'[o.session] \in Nat
      BY <1>1, <1>6, <3>1, MaxSerialAssumption DEF BrowserTypeOK
    <3>. QED
      BY <1>5, <1>7, <2>1, <3>1, <3>2, MaxSerialAssumption DEF Issued
  <2>. QED
    BY <2>1 DEF Issued
<1>8. Issued(w.tokens)'
  <2>1. CASE w.tokens = Nil
    BY <2>1 DEF Issued
  <2>2. CASE OpensSession(w)
    BY <1>1, <2>2, NilAssumption, MaxSerialAssumption DEF OpensSession, Issued, Pair, BrowserTypeOK
  <2>3. CASE Rotates(w, p)
    <3>1. p \in Pair /\ owner[p.session] # Nil
      BY <1>1, <2>3 DEF Rotates, Issued, PairsIssued
    <3>2. p.session \in Session /\ p.serial \in 0..MaxSerial
      BY <3>1 DEF Pair
    <3>3. Successor(p) = [session |-> p.session, serial |-> p.serial + 1]
      BY <3>1 DEF Successor, Pair
    <3>. QED
      BY <1>1, <2>3, <3>1, <3>2, <3>3, MaxSerialAssumption DEF Rotates, Issued, Pair, BrowserTypeOK
  <2>. QED
    BY <2>1, <2>2, <2>3
<1>9. PairsIssued'
  <2>1. Issued(jar.access)' /\ Issued(jar.refresh)'
    BY <1>1, <1>7 DEF PairsIssued
  <2>2. ASSUME NEW q \in Request
        PROVE  (Issued(net[q].cookies.access) /\ Issued(net[q].cookies.refresh) /\ Issued(net[q].tokens))'
    <3>1. CASE q = r
      BY <1>2, <1>3, <1>8, <3>1 DEF Issued
    <3>2. CASE q # r
      BY <1>1, <1>2, <1>7, <3>2 DEF PairsIssued
    <3>. QED
      BY <3>1, <3>2
  <2>. QED
    BY <1>6, <2>1, <2>2 DEF PairsIssued
<1>10. BrowserTypeOK'
  <2>1. net' \in [Request -> InFlight \cup {Free}]
    BY <1>1 DEF BrowserTypeOK
  <2>2. \A o \in {jar.access, jar.refresh} \ {Nil} : (Owner(o) # Nil /\ o.serial <= serial[o.session])'
    BY <1>9 DEF PairsIssued, Issued, Owner
  <2>. QED
    BY <1>1, <1>6, <2>1, <2>2 DEF BrowserTypeOK
<1>11. ASSUME NEW q \in Request PROVE (AnswerSound(net[q]) /\ RequestSound(net[q]))'
  <2>1. AnswerSound(net[q]) /\ RequestSound(net[q])
    BY DEF BrowserInv
  <2>2. CASE q # r
    BY <1>2, <2>1, <2>2 DEF AnswerSound, RequestSound
  <2>3. RequestSound(w)
    BY <1>1 DEF RequestSound
  <2>. QED
    BY <1>2, <2>2, <2>3 DEF AnswerSound, RequestSound
<1>12. TripsApart'
  BY <1>2 DEF BrowserInv, TripsApart
<1>13. FreshSignIns'
  <2>. SUFFICES ASSUME NEW q \in Request, net'[q].kind \in SignIns, net'[q].tokens # Nil
                PROVE  LET s == net'[q].tokens.session IN
                       /\ net'[q].tokens.serial = serial'[s]
                       /\ NotOf(jar.refresh, s)
                       /\ \A x \in Request : NotOf(net'[x].cookies.refresh, s) /\ (x # q => NotOf(net'[x].tokens, s))
    BY DEF FreshSignIns, NotOf
  <2>1. CASE q = r
    <3>1. PICK s \in Session : owner[s] = Nil /\ w.tokens = [session |-> s, serial |-> 0] /\ UNCHANGED serial
      BY <1>2, <2>1 DEF OpensSession, Rotates, SignIns
    <3>2. serial[s] = 0 /\ \A o : Issued(o) => NotOf(o, s)
      BY <1>1, <3>1 DEF PairsIssued, Issued, NotOf
    <3>. QED
      BY <1>1, <1>2, <1>3, <2>1, <3>1, <3>2 DEF PairsIssued, NotOf
  <2>2. CASE q # r
    <3>1. /\ net[q].kind \in SignIns /\ net[q].tokens # Nil
          /\ Issued(net[q].tokens)
          /\ net'[q] = net[q]
      BY <1>1, <1>2, <2>2 DEF PairsIssued
    <3>2. PICK s \in Session : s = net[q].tokens.session
      BY <3>1 DEF Issued, Pair
    <3>3. /\ net[q].tokens.serial = serial[s] /\ NotOf(jar.refresh, s)
          /\ \A x \in Request : NotOf(net[x].cookies.refresh, s) /\ (x # q => NotOf(net[x].tokens, s))
      BY <3>1, <3>2 DEF BrowserInv, FreshSignIns
    <3>4. NotOf(w.tokens, s) /\ serial'[s] = serial[s]
      <4>1. CASE w.tokens = Nil /\ UNCHANGED <<owner, serial>>
        BY <4>1 DEF NotOf
      <4>2. CASE OpensSession(w)
        BY <3>1, <3>2, <4>2 DEF OpensSession, NotOf, Issued
      <4>3. CASE Rotates(w, p)
        <5>1. p \in Pair /\ p.session # s
          BY <1>1, <3>3, <4>3 DEF Rotates, NotOf, PairsIssued, Issued
        <5>2. Successor(p) = [session |-> p.session, serial |-> p.serial + 1]
          BY <5>1 DEF Successor, Pair
        <5>. QED
          BY <1>1, <4>3, <5>1, <5>2 DEF Rotates, NotOf, BrowserTypeOK
      <4>. QED
        BY <4>1, <4>2, <4>3
    <3>. QED
      BY <1>2, <1>3, <3>1, <3>2, <3>3, <3>4 DEF NotOf
  <2>. QED
    BY <2>1, <2>2
<1>14. OneWriter'
  BY <1>2 DEF BrowserInv, OneWriter
<1>15. ASSUME ~crossed, w.tokens # Nil, NEW q \in Request, q # r PROVE net'[q].tokens = Nil
  <2>1. net[q].kind \notin Writers
    BY <1>4, <1>15 DEF BrowserInv, OneWriter
  <2>2. AnswerSound(net[q]) /\ (net[q].kind \in Kinds \/ net[q].kind = Nil)
    BY <1>1 DEF BrowserInv, BrowserTypeOK, InFlight, Free
  <2>. QED
    BY <1>2, <1>15, <2>1, <2>2 DEF AnswerSound, Kinds
<1>16. PairsCurrent'
  <2>. SUFFICES ASSUME ~crossed, \A q \in Request : net'[q].tokens = Nil
                PROVE  OnePair'
    BY DEF PairsCurrent, NoPairOnTheWay
  <2>1. w.tokens = Nil /\ NoPairOnTheWay
    BY <1>1, <1>2 DEF NoPairOnTheWay
  <2>2. UNCHANGED serial
    <3>1. CASE OpensSession(w)
      BY <3>1 DEF OpensSession
    <3>2. ~Rotates(w, p)
      <4>. SUFFICES ASSUME Rotates(w, p)
                    PROVE  FALSE
        OBVIOUS
      <4>1. p \in Pair
        BY <1>1 DEF Rotates, Issued, PairsIssued
      <4>2. Successor(p) = [session |-> p.session, serial |-> p.serial + 1] /\ p.serial \in Nat
        BY <4>1, MaxSerialAssumption DEF Successor, Pair
      <4>3. Successor(p) \in Pair
        BY <4>1, <4>2, MaxSerialAssumption DEF Rotates, Pair
      <4>. QED
        BY <2>1, <4>3, NilAssumption DEF Rotates
    <3>. QED
      BY <3>1, <3>2
  <2>. QED
    BY <2>1, <2>2 DEF BrowserInv, PairsCurrent, OnePair
<1>17. TokensCurrent'
  <2>. SUFFICES ASSUME ~crossed, NEW q \in Request, net'[q].tokens # Nil
                PROVE  net'[q].tokens.serial = serial'[net'[q].tokens.session]
    BY DEF TokensCurrent
  <2>1. CASE w.tokens = Nil /\ UNCHANGED <<owner, serial>>
    BY <1>2, <2>1 DEF BrowserInv, TokensCurrent
  <2>2. CASE OpensSession(w)
    <3>1. PICK s \in Session : owner[s] = Nil /\ w.tokens = [session |-> s, serial |-> 0] /\ UNCHANGED serial
      BY <2>2 DEF OpensSession
    <3>2. serial[s] = 0 /\ w.tokens # Nil
      BY <1>1, <3>1, NilAssumption, MaxSerialAssumption DEF PairsIssued, Pair
    <3>. QED
      BY <1>2, <1>15, <3>1, <3>2
  <2>3. CASE Rotates(w, p)
    <3>1. p \in Pair /\ owner[p.session] # Nil
      BY <1>1, <2>3 DEF Rotates, Issued, PairsIssued
    <3>2. p.session \in Session /\ p.serial \in 0..MaxSerial
      BY <3>1 DEF Pair
    <3>3. Successor(p) = [session |-> p.session, serial |-> p.serial + 1]
      BY <3>1 DEF Successor, Pair
    <3>4. Successor(p) \in Pair
      BY <2>3, <3>2, <3>3, MaxSerialAssumption DEF Rotates, Pair
    <3>. QED
      BY <1>1, <1>2, <1>15, <2>3, <3>2, <3>3, <3>4, NilAssumption DEF Rotates, BrowserTypeOK
  <2>. QED
    BY <2>1, <2>2, <2>3
<1>18. SignedOutAll'
  <2>. SUFFICES ASSUME signedOut, NEW q \in Request
                PROVE  Powerless(net'[q])
    BY DEF SignedOutAll, Powerless
  <2>1. Powerless(net[q]) /\ Powerless(net[r])
    BY DEF BrowserInv, SignedOutAll
  <2>. QED
    BY <2>1, <1>2, <1>3 DEF Powerless
<1>19. StaysSignedOut' /\ ~replayed'
  BY DEF BrowserInv, StaysSignedOut
<1>. QED
  BY <1>9, <1>10, <1>11, <1>12, <1>13, <1>14, <1>16, <1>17, <1>18, <1>19 DEF BrowserInv

LEMMA NamesOfCookies == DOMAIN NoCookies = {"access", "refresh", "csrf", "pending", "state"}
BY DEF NoCookies

LEMMA CookiesOut == NoCookies \in Jar
BY DEF NoCookies, Jar

\* What is known when a request is handled.
LEMMA Handled ==
  ASSUME BrowserInv, NEW r \in Request, net[r].pc = "sent"
  PROVE  /\ BrowserTypeOK /\ net[r] \in InFlight /\ AnswerSound(net[r]) /\ RequestSound(net[r])
         /\ net[r].tokens = Nil /\ net[r].pending = Nil /\ net[r].deleted = {}
         /\ net[r].cookies \in Jar
         /\ signedOut => Powerless(net[r])
         /\ live \subseteq Session /\ \A s \in live : owner[s] # Nil
         /\ ~replayed
BY InFlightOrFree DEF BrowserInv, AnswerSound, SignedOutAll, BrowserTypeOK

\* An answer with no cookies of a session.
LEMMA RefusalKeeps ==
  ASSUME BrowserInv, NEW r \in Request, net[r].pc = "sent",
         NEW b \in Visitor \cup {Nil, "ok", "refused"},
         Reply(r, [net[r] EXCEPT !.body = b]),
         net[r].kind \in {"signout", "callback"} => b # "ok",
         net[r].kind = "session" => b \in Visitor \cup {Nil} /\ (signedOut => b = Nil),
         UNCHANGED <<jar, away, view, crossed, signedOut, settled, replayed, owner, serial>>,
         live' \subseteq live
  PROVE  BrowserInv'
<1>0. PICK q \in InFlight : q = net[r]
  BY Handled
<1>1. PICK w : w = [[q EXCEPT !.body = b] EXCEPT !.pc = "answered", !.cookies = NoCookies]
  OBVIOUS
<1>2. net' = [net EXCEPT ![r] = w]
  BY <1>0, <1>1 DEF Reply
<1>3. /\ w \in InFlight
      /\ w.pc = "answered" /\ w.kind = net[r].kind /\ w.state = net[r].state /\ w.user = net[r].user
      /\ w.cookies = NoCookies /\ w.tokens = Nil /\ w.pending = Nil
      /\ w.deleted = {} /\ w.body = b
  <2>1. q.tokens = Nil /\ q.pending = Nil /\ q.deleted = {}
    BY <1>0, Handled
  <2>2. /\ w \in InFlight
        /\ w.pc = "answered" /\ w.kind = q.kind /\ w.state = q.state /\ w.user = q.user
        /\ w.cookies = NoCookies /\ w.tokens = q.tokens /\ w.pending = q.pending
        /\ w.deleted = q.deleted /\ w.body = b
    <3>1. w \in InFlight
      BY <1>1, CookiesOut DEF InFlight
    <3>. QED
      BY <1>1, <3>1 DEF InFlight
  <2>. QED
    BY <1>0, <2>1, <2>2
<1>4. AnswerSound(w)
  BY <1>3 DEF AnswerSound
<1>5. live' \subseteq Session /\ \A s \in live' : owner'[s] # Nil
  BY Handled
<1>. QED
  BY <1>2, <1>3, <1>4, <1>5, ReplyKeeps

\* A session is opened.
LEMMA OpenKeeps ==
  ASSUME BrowserInv, NEW r \in Request, net[r].pc = "sent", net[r].kind \in SignIns,
         NEW u \in Visitor, NEW s \in Session, Open(u, s),
         NEW d, d \subseteq {"pending", "state"}, net[r].kind = "callback" => "state" \in d,
         Reply(r, [net[r] EXCEPT !.tokens = [session |-> s, serial |-> 0], !.deleted = d, !.body = "ok"]),
         UNCHANGED <<jar, away, view, crossed, signedOut, settled, replayed, serial>>
  PROVE  BrowserInv'
<1>0. PICK q \in InFlight : q = net[r]
  BY Handled
<1>1. PICK t \in Pair : t = [session |-> s, serial |-> 0]
  <2>1. [session |-> s, serial |-> 0] \in Pair
    BY MaxSerialAssumption DEF Pair
  <2>. QED
    BY <2>1
<1>2. PICK w : w = [[q EXCEPT !.tokens = t, !.deleted = d, !.body = "ok"]
                     EXCEPT !.pc = "answered", !.cookies = NoCookies]
  OBVIOUS
<1>3. net' = [net EXCEPT ![r] = w]
  BY <1>0, <1>1, <1>2 DEF Reply
<1>4. /\ w \in InFlight
      /\ w.pc = "answered" /\ w.kind = net[r].kind /\ w.state = net[r].state /\ w.user = net[r].user
      /\ w.cookies = NoCookies /\ w.tokens = t /\ w.pending = Nil
      /\ w.deleted = d /\ w.body = "ok"
  <2>1. q.tokens = Nil /\ q.pending = Nil /\ q.deleted = {}
    BY <1>0, Handled
  <2>2. /\ w \in InFlight
        /\ w.pc = "answered" /\ w.kind = q.kind /\ w.state = q.state /\ w.user = q.user
        /\ w.cookies = NoCookies /\ w.tokens = t /\ w.pending = q.pending
        /\ w.deleted = d /\ w.body = "ok"
    <3>1. w \in InFlight
      BY <1>1, <1>2, CookiesOut, NamesOfCookies DEF InFlight
    <3>. QED
      BY <1>2, <3>1 DEF InFlight
  <2>. QED
    BY <1>0, <2>1, <2>2
<1>5. AnswerSound(w)
  BY <1>4, NilAssumption DEF AnswerSound, SignIns, Kinds, Writers
<1>6. live' \subseteq Session /\ \A x \in live' : owner'[x] # Nil
  BY Handled, NilAssumption DEF Open, BrowserTypeOK
<1>7. OpensSession(w)
  BY <1>1, <1>4 DEF OpensSession, Open
<1>8. ~signedOut /\ w.kind # "session"
  BY <1>4, Handled DEF Powerless, SignIns
<1>. QED
  BY <1>3, <1>4, <1>5, <1>6, <1>7, <1>8, ReplyKeeps

LEMMA HandleSignInKeeps ==
  ASSUME BrowserInv, NEW r \in Request, HandleSignIn(r)
  PROVE  BrowserInv'
<1>. DEFINE q == net[r]
<1>1. /\ q.pc = "sent" /\ q.kind = "signin" /\ q.user \in Visitor
      /\ UNCHANGED <<jar, away, view, crossed, signedOut, settled, serial, replayed>>
  BY Handled DEF HandleSignIn, KeepBrowser, RequestSound
<1>2. ASSUME NEW s \in Session, Open(q.user, s),
             Reply(r, [q EXCEPT !.tokens = [session |-> s, serial |-> 0],
                                !.deleted = {"pending"}, !.body = "ok"])
      PROVE  BrowserInv'
  BY <1>1, <1>2, OpenKeeps DEF SignIns
<1>3. CASE Reply(r, [q EXCEPT !.pending = q.user, !.body = q.user]) /\ UNCHANGED <<owner, live>>
  <2>1. PICK u \in Visitor : u = q.user
    BY <1>1
  <2>2. PICK w : w = [[q EXCEPT !.pending = u, !.body = u] EXCEPT !.pc = "answered", !.cookies = NoCookies]
    OBVIOUS
  <2>3. net' = [net EXCEPT ![r] = w]
    BY <1>3, <2>1, <2>2 DEF Reply
  <2>4. NoCookies \in Jar
    BY CookiesOut
  <2>5. q \in InFlight /\ q.tokens = Nil /\ q.deleted = {}
    BY <1>1, Handled
  <2>6. w \in InFlight
    BY <2>2, <2>4, <2>5 DEF InFlight
  <2>7. /\ w.pc = "answered" /\ w.kind = q.kind /\ w.state = q.state /\ w.user = q.user
        /\ w.cookies = NoCookies /\ w.tokens = Nil /\ w.deleted = {}
    BY <2>2, <2>5 DEF InFlight
  <2>8. AnswerSound(w)
    BY <1>1, <2>7 DEF AnswerSound
  <2>9. live' \subseteq Session /\ \A s \in live' : owner'[s] # Nil
    BY <1>1, <1>3, Handled
  <2>. QED
    BY <1>1, <1>3, <2>3, <2>6, <2>7, <2>8, <2>9, ReplyKeeps
<1>4. CASE Reply(r, [q EXCEPT !.body = "refused"]) /\ UNCHANGED <<owner, live>>
  BY <1>1, <1>4, RefusalKeeps
<1>. QED
  BY <1>2, <1>3, <1>4 DEF HandleSignIn

LEMMA HandleVerifyKeeps ==
  ASSUME BrowserInv, NEW r \in Request, HandleVerify(r)
  PROVE  BrowserInv'
<1>. DEFINE q == net[r]
<1>1. /\ q.pc = "sent" /\ q.kind = "verify" /\ q.cookies.pending \in Visitor
      /\ UNCHANGED <<jar, away, view, crossed, signedOut, settled, serial, replayed>>
  BY Handled DEF HandleVerify, KeepBrowser, RequestSound
<1>2. ASSUME NEW s \in Session, Open(q.cookies.pending, s),
             Reply(r, [q EXCEPT !.tokens = [session |-> s, serial |-> 0],
                                !.deleted = {"pending"}, !.body = "ok"])
      PROVE  BrowserInv'
  <2>1. PICK u \in Visitor : u = q.cookies.pending
    BY <1>1
  <2>2. Open(u, s)
    BY <1>2, <2>1
  <2>3. net[r].pc = "sent" /\ net[r].kind \in SignIns /\ net[r].kind # "callback"
    BY <1>1 DEF SignIns
  <2>4. PICK d : d = {"pending"} /\ d \subseteq {"pending", "state"}
    OBVIOUS
  <2>5. Reply(r, [net[r] EXCEPT !.tokens = [session |-> s, serial |-> 0], !.deleted = d, !.body = "ok"])
    BY <1>2, <2>4
  <2>. QED
    BY <1>1, <2>2, <2>3, <2>4, <2>5, OpenKeeps
<1>3. CASE Reply(r, [q EXCEPT !.body = "refused"]) /\ UNCHANGED <<owner, live>>
  BY <1>1, <1>3, RefusalKeeps
<1>. QED
  BY <1>2, <1>3 DEF HandleVerify

LEMMA HandleCallbackKeeps ==
  ASSUME BrowserInv, NEW r \in Request, HandleCallback(r)
  PROVE  BrowserInv'
<1>. DEFINE q == net[r]
<1>1. /\ q.pc = "sent" /\ q.kind = "callback" /\ q.user \in Visitor
      /\ UNCHANGED <<jar, away, view, crossed, signedOut, settled, serial>>
  BY Handled DEF HandleCallback, KeepBrowser, RequestSound
<1>2. ASSUME q.state = q.cookies.state, NEW s \in Session, Open(q.user, s), replayed' = (replayed \/ q.replay),
             Reply(r, [q EXCEPT !.tokens = [session |-> s, serial |-> 0],
                                !.deleted = RoundTrip, !.body = "ok"])
      PROVE  BrowserInv'
  <2>1. ~replayed' /\ ~replayed
    BY <1>1, <1>2, Handled DEF RequestSound
  <2>2. UNCHANGED replayed
    BY <1>1, <1>2, <2>1, Handled DEF BrowserTypeOK
  <2>. QED
    BY <1>1, <1>2, <2>2, OpenKeeps DEF SignIns, RoundTrip
<1>3. CASE Reply(r, [q EXCEPT !.body = "refused"]) /\ UNCHANGED <<owner, live, replayed>>
  BY <1>1, <1>3, RefusalKeeps
<1>. QED
  BY <1>2, <1>3 DEF HandleCallback

LEMMA HandleSessionKeeps ==
  ASSUME BrowserInv, NEW r \in Request, HandleSession(r)
  PROVE  BrowserInv'
<1>. DEFINE q == net[r]
<1>1. /\ q.pc = "sent" /\ q.kind = "session"
      /\ UNCHANGED <<jar, away, view, crossed, signedOut, settled, owner, serial, live, replayed>>
      /\ Reply(r, [q EXCEPT !.body = Owner(q.cookies.access)])
  BY DEF HandleSession, KeepBrowser
<1>2. /\ Owner(q.cookies.access) \in Visitor \cup {Nil}
      /\ signedOut => Owner(q.cookies.access) = Nil
  <2>1. Issued(q.cookies.access)
    BY DEF BrowserInv, PairsIssued
  <2>. QED
    BY <1>1, <2>1, Handled DEF Owner, Issued, Pair, BrowserTypeOK, Powerless
<1>. QED
  BY <1>1, <1>2, RefusalKeeps

LEMMA HandleAuthorizeKeeps ==
  ASSUME BrowserInv, NEW r \in Request, HandleAuthorize(r)
  PROVE  BrowserInv'
BY RefusalKeeps DEF HandleAuthorize, KeepBrowser

LEMMA HandleSignOutKeeps ==
  ASSUME BrowserInv, NEW r \in Request, HandleSignOut(r)
  PROVE  BrowserInv'
<1>1. /\ net[r].pc = "sent" /\ net[r].kind = "signout"
      /\ UNCHANGED <<jar, away, view, crossed, signedOut, settled, owner, serial, replayed>>
  BY DEF HandleSignOut, KeepBrowser
<1>2. CASE /\ live' = live \ SessionOf(net[r].cookies)
           /\ Reply(r, [net[r] EXCEPT !.deleted = AuthCookies, !.body = "ok"])
  <2>1. PICK q \in InFlight : q = net[r]
    BY <1>1, Handled
  <2>2. PICK w : w = [[q EXCEPT !.deleted = AuthCookies, !.body = "ok"]
                        EXCEPT !.pc = "answered", !.cookies = NoCookies]
    OBVIOUS
  <2>3. net' = [net EXCEPT ![r] = w]
    BY <1>2, <2>1, <2>2 DEF Reply
  <2>4. w \in InFlight
    <3>1. AuthCookies \subseteq DOMAIN NoCookies
      BY NamesOfCookies DEF AuthCookies
    <3>. QED
      BY <2>2, <3>1, CookiesOut DEF InFlight
  <2>5. /\ w.pc = "answered" /\ w.kind = q.kind /\ w.state = q.state /\ w.user = q.user
        /\ w.cookies = NoCookies /\ w.tokens = q.tokens /\ w.pending = q.pending
        /\ w.deleted = AuthCookies /\ w.body = "ok"
    BY <2>2, <2>4 DEF InFlight
  <2>6. q.tokens = Nil /\ q.pending = Nil
    BY <1>1, <2>1, Handled
  <2>7. AnswerSound(w)
    BY <1>1, <2>1, <2>5, <2>6, NilAssumption DEF AnswerSound, SignIns
  <2>8. live' \subseteq Session /\ \A x \in live' : owner'[x] # Nil
    BY <1>1, <1>2, Handled
  <2>. QED
    BY <1>1, <2>1, <2>3, <2>4, <2>5, <2>6, <2>7, <2>8, ReplyKeeps
<1>3. CASE Reply(r, [net[r] EXCEPT !.body = "refused"]) /\ UNCHANGED live
  BY <1>1, <1>3, RefusalKeeps
<1>. QED
  BY <1>2, <1>3 DEF HandleSignOut

LEMMA HandleGuardedKeeps ==
  ASSUME BrowserInv, NEW r \in Request, HandleGuarded(r)
  PROVE  BrowserInv'
<1>. DEFINE p == net[r].cookies.refresh
<1>1. /\ net[r].pc = "sent" /\ net[r].kind = "guarded"
      /\ UNCHANGED <<jar, away, view, crossed, signedOut, settled, owner, replayed>>
  BY DEF HandleGuarded, KeepBrowser
<1>2. CASE Reply(r, [net[r] EXCEPT !.body = "ok"]) /\ UNCHANGED <<serial, live>>
  BY <1>1, <1>2, RefusalKeeps
<1>3. CASE Reply(r, [net[r] EXCEPT !.body = "refused"]) /\ live' \subseteq live /\ UNCHANGED serial
  BY <1>1, <1>3, RefusalKeeps
<1>4. CASE /\ p # Nil /\ p.serial = serial[p.session] /\ p.serial < MaxSerial
           /\ serial' = [serial EXCEPT ![p.session] = @ + 1]
           /\ Reply(r, [net[r] EXCEPT !.tokens = Forwarded(Successor(p)), !.body = "ok"])
           /\ UNCHANGED live
  <2>1. p \in Pair /\ p.session \in Session /\ p.serial \in 0..MaxSerial
    BY <1>4 DEF BrowserInv, PairsIssued, Issued, Pair
  <2>2. PICK t \in Pair : t = Successor(p)
    <3>1. Successor(p) \in Pair
      BY <1>4, <2>1, MaxSerialAssumption DEF Successor, Pair
    <3>. QED
      BY <3>1
  <2>3. PICK q \in InFlight : q = net[r]
    BY <1>1, Handled
  <2>4. PICK w : w = [[q EXCEPT !.tokens = t, !.body = "ok"]
                        EXCEPT !.pc = "answered", !.cookies = NoCookies]
    OBVIOUS
  <2>5. net' = [net EXCEPT ![r] = w]
    BY <1>4, <2>2, <2>3, <2>4 DEF Reply, Forwarded
  <2>6. w \in InFlight
    BY <2>4, CookiesOut DEF InFlight
  <2>7. /\ w.pc = "answered" /\ w.kind = q.kind /\ w.state = q.state /\ w.user = q.user
        /\ w.cookies = NoCookies /\ w.tokens = t /\ w.pending = q.pending
        /\ w.deleted = q.deleted /\ w.body = "ok"
    BY <2>4, <2>6 DEF InFlight
  <2>8. q.pending = Nil /\ q.deleted = {}
    BY <1>1, <2>3, Handled
  <2>9. AnswerSound(w)
    BY <1>1, <2>3, <2>7, <2>8, NilAssumption DEF AnswerSound, SignIns, Kinds, Writers
  <2>10. live' \subseteq Session /\ \A x \in live' : owner'[x] # Nil
    BY <1>1, <1>4, Handled
  <2>11. Rotates(w, p)
    BY <1>1, <1>4, <2>2, <2>3, <2>7 DEF Rotates
  <2>12. ~signedOut /\ w.kind # "session"
    BY <1>1, <1>4, <2>3, <2>7, Handled DEF Powerless
  <2>. QED
    BY <1>1, <2>3, <2>5, <2>6, <2>7, <2>9, <2>10, <2>11, <2>12, ReplyKeeps
<1>. QED
  BY <1>2, <1>3, <1>4 DEF HandleGuarded

-----------------------------------------------------------------------------

\* What the jar is after an answer.
LEMMA JarAfter ==
  ASSUME BrowserTypeOK, NEW a \in InFlight, AnswerSound(a)
  PROVE  /\ After(a) \in Jar
         /\ a.tokens # Nil => After(a).access = a.tokens /\ After(a).refresh = a.tokens
         /\ a.tokens = Nil =>
               \/ After(a).access = jar.access /\ After(a).refresh = jar.refresh
               \/ After(a).access = Nil /\ After(a).refresh = Nil
         /\ a.tokens = Nil /\ ~jar.csrf => ~After(a).csrf
         /\ a.pending = Nil /\ jar.pending = Nil => After(a).pending = Nil
         /\ a.tokens = Nil /\ a.pending = Nil /\ a.deleted = AuthCookies =>
               /\ After(a).access = Nil /\ After(a).refresh = Nil
               /\ ~After(a).csrf /\ After(a).pending = Nil
         /\ a.kind = "authorize" => After(a).state = a.state
         /\ a.kind # "authorize" => After(a).state \in {Nil, jar.state}
         /\ a.kind # "authorize" /\ "state" \in a.deleted => After(a).state = Nil
<1>. DEFINE Kept(name) == IF name \in a.deleted THEN NoCookies[name] ELSE jar[name]
<1>1. /\ a.tokens \in Pair \cup {Nil} /\ a.pending \in Visitor \cup {Nil} /\ a.state \in State \cup {Nil}
      /\ a.kind \in Kinds
  BY DEF InFlight
<1>2. /\ jar.access \in Pair \cup {Nil} /\ jar.refresh \in Pair \cup {Nil} /\ jar.csrf \in BOOLEAN
      /\ jar.pending \in Visitor \cup {Nil} /\ jar.state \in State \cup {Nil}
  BY DEF BrowserTypeOK, Jar
<1>3. /\ Kept("access") = (IF "access" \in a.deleted THEN Nil ELSE jar.access)
      /\ Kept("refresh") = (IF "refresh" \in a.deleted THEN Nil ELSE jar.refresh)
      /\ Kept("csrf") = (IF "csrf" \in a.deleted THEN FALSE ELSE jar.csrf)
      /\ Kept("pending") = (IF "pending" \in a.deleted THEN Nil ELSE jar.pending)
      /\ Kept("state") = (IF "state" \in a.deleted THEN Nil ELSE jar.state)
  BY DEF NoCookies
<1>4. /\ After(a).access = (IF a.tokens # Nil THEN a.tokens ELSE Kept("access"))
      /\ After(a).refresh = (IF a.tokens # Nil THEN a.tokens ELSE Kept("refresh"))
      /\ After(a).csrf <=> (a.tokens # Nil \/ Kept("csrf"))
      /\ After(a).pending = (IF a.pending # Nil THEN a.pending ELSE Kept("pending"))
      /\ After(a).state = (IF a.kind = "authorize" THEN a.state ELSE Kept("state"))
  BY DEF After, TokensWritten
<1>5. /\ After(a).csrf \in BOOLEAN
      /\ After(a) = [access |-> After(a).access, refresh |-> After(a).refresh, csrf |-> After(a).csrf,
                     pending |-> After(a).pending, state |-> After(a).state]
  BY DEF After
<1>6. After(a) \in Jar
  <2>1. /\ After(a).access \in Pair \cup {Nil} /\ After(a).refresh \in Pair \cup {Nil}
        /\ After(a).pending \in Visitor \cup {Nil} /\ After(a).state \in State \cup {Nil}
    BY <1>1, <1>2, <1>3, <1>4
  <2>. QED
    BY <1>5, <2>1 DEF Jar
<1>. HIDE DEF Kept
<1>7. a.tokens = Nil =>
         \/ "access" \in a.deleted /\ "refresh" \in a.deleted
         \/ "access" \notin a.deleted /\ "refresh" \notin a.deleted
  BY <1>1, NilAssumption DEF AnswerSound, AuthCookies, SignIns, Kinds, Writers
<1>8. a.deleted = AuthCookies =>
        "access" \in a.deleted /\ "refresh" \in a.deleted /\ "csrf" \in a.deleted /\ "pending" \in a.deleted
  BY DEF AuthCookies
<1>. QED
  BY <1>3, <1>4, <1>6, <1>7, <1>8

\* An answer arrives.
LEMMA SettleKeeps ==
  ASSUME BrowserInv, NEW r \in Request, net[r].pc = "answered",
         NEW refresh \in BOOLEAN, Settle(r, refresh), KeepServer,
         refresh => net[r].kind \in SignIns,
         \/ UNCHANGED away
         \/ net[r].kind = "authorize" /\ away' = away \cup {net[r].state},
         \/ UNCHANGED settled
         \/ net[r].kind = "callback" /\ net[r].body = "ok" /\ settled' = settled \cup {net[r].state},
         view' \in Visitor \cup {Nil, "guest"},
         \/ UNCHANGED signedOut /\ (signedOut => view' \notin Visitor)
         \/ /\ net[r].kind = "signout" /\ net[r].body = "ok" /\ Alone(r)
            /\ signedOut' = TRUE /\ view' = Nil
  PROVE  BrowserInv'
<1>1. BrowserTypeOK /\ PairsIssued /\ net[r] \in InFlight
  BY InFlightOrFree DEF BrowserInv
<1>2. PICK a \in InFlight : a = net[r]
  BY <1>1
<1>3. AnswerSound(a) /\ RequestSound(a) /\ a.kind \in Kinds /\ a.pc = "answered" /\ a.kind # Nil
  BY <1>2, NilAssumption DEF BrowserInv, InFlight
<1>4. PICK j \in Jar : j = After(a)
  BY <1>1, <1>3, JarAfter
<1>5. /\ a.tokens # Nil => j.access = a.tokens /\ j.refresh = a.tokens
      /\ a.tokens = Nil =>
            \/ j.access = jar.access /\ j.refresh = jar.refresh
            \/ j.access = Nil /\ j.refresh = Nil
      /\ a.tokens = Nil /\ ~jar.csrf => ~j.csrf
      /\ a.pending = Nil /\ jar.pending = Nil => j.pending = Nil
      /\ a.tokens = Nil /\ a.pending = Nil /\ a.deleted = AuthCookies =>
            j.access = Nil /\ j.refresh = Nil /\ ~j.csrf /\ j.pending = Nil
      /\ a.kind = "authorize" => j.state = a.state
      /\ a.kind # "authorize" => j.state \in {Nil, jar.state}
      /\ a.kind # "authorize" /\ "state" \in a.deleted => j.state = Nil
  BY <1>1, <1>3, <1>4, JarAfter
<1>6. j.access \in Pair \cup {Nil}
  BY DEF Jar
<1>7. PICK w : w = (IF refresh THEN [Free EXCEPT !.pc = "sent", !.kind = "session", !.cookies.access = j.access]
                     ELSE Free)
  OBVIOUS
<1>8. /\ w \in InFlight \cup {Free} /\ w.pc # "answered"
      /\ w.tokens = Nil /\ w.pending = Nil /\ w.deleted = {} /\ w.body = Nil
      /\ w.kind \in {"session", Nil} /\ w.kind \notin Writers
      /\ w.cookies.refresh = Nil /\ w.cookies.access \in {j.access, Nil}
      /\ ~refresh => w = Free
      /\ w.kind \notin {"signin", "verify", "callback", "authorize"} /\ w.kind \notin SignIns
  <2>1. CASE refresh
    <3>1. PICK c \in Jar : c = [NoCookies EXCEPT !.access = j.access]
      <4>1. [NoCookies EXCEPT !.access = j.access] \in Jar
        BY <1>6 DEF NoCookies, Jar
      <4>. QED
        BY <4>1
    <3>3. w = [Free EXCEPT !.pc = "sent", !.kind = "session", !.cookies = c]
      BY <1>7, <2>1, <3>1 DEF Free
    <3>4. w \in InFlight
      BY <3>3 DEF Free, InFlight, Kinds
    <3>2. /\ w.pc = "sent" /\ w.tokens = Nil /\ w.pending = Nil /\ w.deleted = {} /\ w.body = Nil
          /\ w.kind = "session" /\ w.cookies.refresh = Nil /\ w.cookies.access = j.access
      BY <1>7, <2>1 DEF Free, NoCookies
    <3>. QED
      BY <2>1, <3>2, <3>4 DEF Writers, SignIns
  <2>2. CASE ~refresh
    BY <1>7, <2>2, NilAssumption DEF Free, NoCookies, Writers, SignIns, Kinds
  <2>. QED
    BY <2>1, <2>2
<1>9. /\ jar' = j /\ net' = [net EXCEPT ![r] = w]
      /\ crossed' = (crossed /\ ~(a.kind \in SignIns /\ a.tokens # Nil /\ ~Busy(r, Writers)))
      /\ UNCHANGED <<owner, serial, live, replayed>>
  BY <1>2, <1>4, <1>7 DEF Settle, KeepServer, SignIns
<1>10. net'[r] = w /\ \A q \in Request \ {r} : net'[q] = net[q]
  BY <1>1, <1>9 DEF BrowserTypeOK
<1>11. /\ crossed' \in BOOLEAN /\ settled \subseteq settled' /\ away \subseteq away'
       /\ crossed \in BOOLEAN /\ signedOut \in BOOLEAN
  BY <1>1, <1>9 DEF BrowserTypeOK
<1>12. Issued(a.tokens) /\ Issued(jar.access) /\ Issued(jar.refresh) /\ Issued(Nil)
  BY <1>1, <1>2 DEF PairsIssued, Issued
<1>13. \A o : Issued(o) => Issued(o)'
  BY <1>9 DEF Issued
<1>14. Issued(j.access) /\ Issued(j.refresh)
  BY <1>5, <1>12
<1>15. PairsIssued'
  <2>1. Issued(jar.access)' /\ Issued(jar.refresh)'
    BY <1>9, <1>14 DEF Issued
  <2>2. ASSUME NEW q \in Request
        PROVE  (Issued(net[q].cookies.access) /\ Issued(net[q].cookies.refresh) /\ Issued(net[q].tokens))'
    <3>1. CASE q = r
      BY <1>8, <1>9, <1>10, <1>12, <1>14, <3>1 DEF Issued
    <3>2. CASE q # r
      BY <1>1, <1>9, <1>10, <3>2 DEF PairsIssued, Issued
    <3>. QED
      BY <3>1, <3>2
  <2>. QED
    BY <1>1, <1>9, <2>1, <2>2 DEF PairsIssued
<1>16. settled' \subseteq away' /\ away' \subseteq State
  BY <1>1, <1>2, <1>3 DEF BrowserTypeOK, RequestSound
<1>17. BrowserTypeOK'
  <2>1. net' \in [Request -> InFlight \cup {Free}]
    <3>1. w \in InFlight \cup {Free}
      BY <1>8
    <3>. QED
      BY <1>1, <1>9, <3>1 DEF BrowserTypeOK
  <2>3. signedOut' \in BOOLEAN
    BY <1>11
  <2>4. jar' \in Jar
    BY <1>9
  <2>5. \A o \in {jar'.access, jar'.refresh} \ {Nil} : Owner(o)' # Nil /\ o.serial <= serial'[o.session]
    BY <1>9, <1>14 DEF Issued, Owner
  <2>. QED
    BY <1>1, <1>9, <1>11, <1>16, <2>1, <2>3, <2>4, <2>5 DEF BrowserTypeOK, Owner
<1>18. ASSUME NEW q \in Request PROVE (AnswerSound(net[q]) /\ RequestSound(net[q]))'
  <2>1. AnswerSound(net[q]) /\ RequestSound(net[q])
    BY DEF BrowserInv
  <2>2. CASE q # r
    <3>1. net[q].kind = "authorize" => net[q].state \notin away'
      BY <1>2, <2>1, <2>2 DEF BrowserInv, TripsApart, RequestSound
    <3>. QED
      BY <1>10, <1>11, <2>1, <2>2, <3>1 DEF AnswerSound, RequestSound
  <2>3. CASE q = r
    <3>1. AnswerSound(w)
      BY <1>8, NilAssumption DEF AnswerSound
    <3>2. RequestSound(w)'
      BY <1>8 DEF RequestSound
    <3>. QED
      BY <1>10, <2>3, <3>1, <3>2 DEF AnswerSound, RequestSound
  <2>. QED
    BY <2>2, <2>3
<1>19. TripsApart'
  <2>1. Nil \notin settled' /\ settled \subseteq away /\ jar.state \notin settled
    BY <1>1, <1>16, NilAssumption DEF BrowserTypeOK, BrowserInv, TripsApart
  <2>2. j.state \notin settled'
    <3>1. CASE a.kind = "authorize"
      BY <1>2, <1>3, <1>5, <2>1, <3>1 DEF RequestSound
    <3>2. CASE a.kind = "callback" /\ a.body = "ok"
      BY <1>3, <1>5, <2>1, <3>2 DEF AnswerSound
    <3>3. CASE a.kind # "authorize" /\ ~(a.kind = "callback" /\ a.body = "ok")
      BY <1>2, <1>5, <2>1, <3>3
    <3>. QED
      BY <3>1, <3>2, <3>3
  <2>. QED
    BY <1>8, <1>9, <1>10, <2>2 DEF BrowserInv, TripsApart
<1>20. FreshSignIns'
  <2>. SUFFICES ASSUME NEW q \in Request, net'[q].kind \in SignIns, net'[q].tokens # Nil
                PROVE  LET s == net'[q].tokens.session IN
                       /\ net'[q].tokens.serial = serial'[s]
                       /\ NotOf(jar'.refresh, s)
                       /\ \A x \in Request : NotOf(net'[x].cookies.refresh, s) /\ (x # q => NotOf(net'[x].tokens, s))
    BY DEF FreshSignIns, NotOf
  <2>1. q # r /\ net'[q] = net[q]
    BY <1>8, <1>10
  <2>2. PICK s : s = net[q].tokens.session
    OBVIOUS
  <2>3. /\ net[q].tokens.serial = serial[s] /\ NotOf(jar.refresh, s)
        /\ \A x \in Request : NotOf(net[x].cookies.refresh, s) /\ (x # q => NotOf(net[x].tokens, s))
    BY <2>1, <2>2 DEF BrowserInv, FreshSignIns
  <2>4. NotOf(j.refresh, s)
    BY <1>2, <1>5, <2>1, <2>3 DEF NotOf
  <2>. QED
    BY <1>8, <1>9, <1>10, <2>1, <2>2, <2>3, <2>4 DEF NotOf
<1>21. OneWriter'
  <2>1. CASE ~crossed
    BY <1>8, <1>10, <2>1 DEF BrowserInv, OneWriter
  <2>2. CASE crossed
    BY <1>8, <1>9, <1>10, <2>2 DEF OneWriter, Busy
  <2>. QED
    BY <1>11, <2>1, <2>2
<1>22. ASSUME NEW q \in Request, net[q].kind \notin Writers PROVE net[q].tokens = Nil
  <2>1. AnswerSound(net[q]) /\ (net[q].kind \in Kinds \/ net[q].kind = Nil)
    BY <1>1 DEF BrowserInv, BrowserTypeOK, InFlight, Free
  <2>. QED
    BY <1>22, <2>1 DEF AnswerSound, Kinds
<1>23. ~crossed' /\ a.tokens # Nil => a.tokens.serial = serial[a.tokens.session]
  <2>1. CASE ~crossed
    BY <1>2, <2>1 DEF BrowserInv, TokensCurrent
  <2>2. CASE crossed
    BY <1>2, <1>9, <2>2 DEF BrowserInv, FreshSignIns
  <2>. QED
    BY <1>11, <2>1, <2>2
<1>24. PairsCurrent'
  <2>. SUFFICES ASSUME ~crossed', \A q \in Request : net'[q].tokens = Nil
                PROVE  OnePair'
    BY DEF PairsCurrent, NoPairOnTheWay
  <2>1. CASE a.tokens # Nil
    BY <1>5, <1>9, <1>23, <2>1 DEF OnePair
  <2>2. CASE a.tokens = Nil
    <3>1. ~crossed /\ NoPairOnTheWay
      BY <1>2, <1>9, <1>10, <1>11, <2>2 DEF NoPairOnTheWay
    <3>2. OnePair
      BY <3>1 DEF BrowserInv, PairsCurrent
    <3>. QED
      BY <1>5, <1>9, <2>2, <3>2 DEF OnePair
  <2>. QED
    BY <2>1, <2>2
<1>25. TokensCurrent'
  <2>1. CASE ~crossed
    BY <1>8, <1>9, <1>10, <2>1 DEF BrowserInv, TokensCurrent
  <2>2. CASE crossed
    BY <1>8, <1>9, <1>10, <1>22, <2>2 DEF TokensCurrent, Busy
  <2>. QED
    BY <1>11, <2>1, <2>2
<1>26. CASE UNCHANGED signedOut /\ (signedOut => view' \notin Visitor)
  <2>1. SignedOutAll' /\ StaysSignedOut'
    <3>. SUFFICES ASSUME signedOut
                  PROVE  /\ \A q \in Request : Powerless(net'[q])
                         /\ j.access = Nil /\ j.refresh = Nil /\ ~j.csrf /\ j.pending = Nil
      BY <1>9, <1>26 DEF SignedOutAll, StaysSignedOut, Powerless
    <3>1. /\ \A q \in Request : Powerless(net[q])
          /\ jar.access = Nil /\ jar.refresh = Nil /\ ~jar.csrf /\ jar.pending = Nil
      BY DEF BrowserInv, SignedOutAll, StaysSignedOut
    <3>2. a.kind \notin SignIns /\ a.tokens = Nil /\ a.pending = Nil
      BY <1>2, <1>3, <3>1 DEF Powerless, AnswerSound, SignIns
    <3>3. j.access = Nil /\ j.refresh = Nil /\ ~j.csrf /\ j.pending = Nil
      BY <1>5, <3>1, <3>2
    <3>. QED
      BY <1>8, <1>10, <3>1, <3>3 DEF Powerless
  <2>. QED
    BY <2>1, <1>9, <1>15, <1>17, <1>18, <1>19, <1>20, <1>21, <1>24, <1>25 DEF BrowserInv
<1>27. CASE /\ net[r].kind = "signout" /\ net[r].body = "ok" /\ Alone(r)
            /\ signedOut' = TRUE /\ view' = Nil
  <2>1. a.tokens = Nil /\ a.pending = Nil /\ a.deleted = AuthCookies
    BY <1>2, <1>3, <1>27 DEF AnswerSound
  <2>2. StaysSignedOut'
    BY <1>5, <1>9, <1>27, <2>1, NilAssumption DEF StaysSignedOut
  <2>3. ~refresh
    BY <1>27 DEF SignIns
  <2>4. \A q \in Request : net'[q] = Free
    BY <1>8, <1>10, <1>27, <2>3 DEF Alone
  <2>5. Powerless(Free)
    BY NilAssumption DEF Powerless, Free, NoCookies, SignIns, Kinds, Writers
  <2>6. SignedOutAll'
    BY <2>4, <2>5 DEF SignedOutAll, Powerless
  <2>. QED
    BY <2>2, <2>6, <1>9, <1>15, <1>17, <1>18, <1>19, <1>20, <1>21, <1>24, <1>25 DEF BrowserInv
<1>. QED
  BY <1>26, <1>27

LEMMA ReceiveKeeps ==
  ASSUME BrowserInv, NEW r \in Request,
         \/ ReceiveSignIn(r) \/ ReceiveSignOut(r) \/ ReceiveSession(r)
         \/ ReceiveGuarded(r) \/ ReceiveAuthorize(r) \/ ReceiveCallback(r)
  PROVE  BrowserInv'
<1>1. /\ BrowserTypeOK /\ PairsIssued /\ AnswerSound(net[r]) /\ RequestSound(net[r])
      /\ view \in Visitor \cup {Nil, "guest"}
      /\ signedOut => view \notin Visitor /\ Powerless(net[r])
  BY DEF BrowserInv, BrowserTypeOK, SignedOutAll, StaysSignedOut
<1>2. CASE ReceiveSignIn(r)
  <2>1. PICK b \in BOOLEAN : b <=> net[r].body = "ok"
    <3>1. CASE net[r].body = "ok"
      BY <3>1
    <3>2. CASE net[r].body # "ok"
      BY <3>2
    <3>. QED
      BY <3>1, <3>2
  <2>2. Settle(r, b) /\ net[r].pc = "answered" /\ net[r].kind \in SignIns
    BY <1>2, <2>1 DEF ReceiveSignIn, Settle, SignIns
  <2>3. view' \in Visitor \cup {Nil, "guest"}
    BY <1>1, <1>2 DEF ReceiveSignIn, Owner, PairsIssued, Issued, Pair, BrowserTypeOK
  <2>4. ~signedOut
    BY <1>1, <2>2 DEF Powerless
  <2>. QED
    BY <1>2, <2>2, <2>3, <2>4, SettleKeeps DEF ReceiveSignIn
<1>3. CASE ReceiveSignOut(r)
  <2>1. PICK b \in BOOLEAN : b <=> (net[r].body = "ok" /\ Alone(r))
    <3>1. CASE net[r].body = "ok" /\ Alone(r)
      BY <3>1
    <3>2. CASE ~(net[r].body = "ok" /\ Alone(r))
      BY <3>2
    <3>. QED
      BY <3>1, <3>2
  <2>2. /\ Settle(r, FALSE) /\ net[r].pc = "answered" /\ net[r].kind = "signout"
        /\ UNCHANGED <<away, settled>> /\ KeepServer
        /\ view' = IF net[r].body = "ok" THEN Nil ELSE view
        /\ signedOut' = (signedOut \/ (net[r].body = "ok" /\ Alone(r)))
    BY <1>3 DEF ReceiveSignOut
  <2>3. view' \in Visitor \cup {Nil, "guest"} /\ signedOut \in BOOLEAN
    BY <1>1, <2>2 DEF BrowserTypeOK
  <2>4. CASE net[r].body = "ok" /\ Alone(r)
    <3>1. signedOut' = TRUE /\ view' = Nil
      BY <2>2, <2>3, <2>4
    <3>. QED
      BY <2>2, <2>3, <2>4, <3>1, SettleKeeps
  <2>5. CASE ~(net[r].body = "ok" /\ Alone(r))
    <3>1. UNCHANGED signedOut
      BY <2>2, <2>3, <2>5
    <3>2. signedOut => view' \notin Visitor
      BY <1>1, <2>2, NilAssumption
    <3>. QED
      BY <2>2, <2>3, <3>1, <3>2, SettleKeeps
  <2>. QED
    BY <2>4, <2>5
<1>4. CASE ReceiveSession(r)
  <2>1. /\ view' \in Visitor \cup {Nil, "guest"}
        /\ signedOut => view' \notin Visitor
    BY <1>1, <1>4, GuestAssumption DEF ReceiveSession, RequestSound, Powerless
  <2>. QED
    BY <1>4, <2>1, SettleKeeps DEF ReceiveSession
<1>5. CASE ReceiveGuarded(r)
  BY <1>1, <1>5, SettleKeeps DEF ReceiveGuarded
<1>6. CASE ReceiveAuthorize(r)
  BY <1>1, <1>6, SettleKeeps DEF ReceiveAuthorize
<1>7. CASE ReceiveCallback(r)
  <2>1. PICK b \in BOOLEAN : b <=> net[r].body = "ok"
    <3>1. CASE net[r].body = "ok"
      BY <3>1
    <3>2. CASE net[r].body # "ok"
      BY <3>2
    <3>. QED
      BY <3>1, <3>2
  <2>2. Settle(r, b) /\ net[r].pc = "answered" /\ net[r].kind \in SignIns
    BY <1>7, <2>1 DEF ReceiveCallback, Settle, SignIns
  <2>3. view' = Nil /\ ~signedOut
    BY <1>1, <1>7, <2>2 DEF ReceiveCallback, Powerless
  <2>. QED
    BY <1>7, <2>2, <2>3, SettleKeeps DEF ReceiveCallback
<1>. QED
  BY <1>2, <1>3, <1>4, <1>5, <1>6, <1>7

LEMMA LoseKeeps ==
  ASSUME BrowserInv, NEW r \in Request, Lose(r)
  PROVE  BrowserInv'
<1>1. /\ BrowserTypeOK /\ PairsIssued /\ AnswerSound(net[r])
      /\ net[r] \in InFlight
  BY InFlightOrFree DEF BrowserInv, Lose
<1>2. PICK w : w = Free
  OBVIOUS
<1>3. /\ w \in InFlight \cup {Free}
      /\ w.pc = "free" /\ w.tokens = Nil /\ w.pending = Nil /\ w.deleted = {} /\ w.body = Nil /\ w.kind = Nil
      /\ w.cookies.refresh = Nil /\ w.cookies.access = Nil
      /\ w.kind \notin Kinds /\ w.kind \notin Writers /\ w.kind \notin SignIns /\ w.kind # "authorize"
  BY <1>2, NilAssumption DEF Free, NoCookies, Kinds, Writers, SignIns
<1>4. /\ net' = [net EXCEPT ![r] = w]
      /\ net'[r] = w /\ \A q \in Request \ {r} : net'[q] = net[q]
  BY <1>1, <1>2 DEF Lose, BrowserTypeOK
<1>5. /\ crossed' = (crossed \/ (net[r].kind \in Writers /\ net[r].pc = "answered"))
      /\ view' \in {Nil, view}
      /\ UNCHANGED <<jar, away, signedOut, settled, owner, serial, live, replayed>>
  BY DEF Lose, KeepServer
<1>6. BrowserTypeOK'
  <2>1. net' \in [Request -> InFlight \cup {Free}]
    BY <1>1, <1>3, <1>4 DEF BrowserTypeOK
  <2>2. crossed' \in BOOLEAN /\ view' \in Visitor \cup {Nil, "guest"}
    BY <1>1, <1>5 DEF BrowserTypeOK
  <2>. QED
    BY <1>1, <1>5, <2>1, <2>2 DEF BrowserTypeOK, Owner
<1>7. PairsIssued'
  BY <1>1, <1>3, <1>4, <1>5 DEF PairsIssued, Issued
<1>8. ASSUME NEW q \in Request PROVE (AnswerSound(net[q]) /\ RequestSound(net[q]))'
  <2>1. AnswerSound(net[q]) /\ RequestSound(net[q])
    BY DEF BrowserInv
  <2>2. CASE q # r
    BY <1>4, <1>5, <2>1, <2>2 DEF AnswerSound, RequestSound
  <2>3. CASE q = r
    <3>1. AnswerSound(w) /\ RequestSound(w)
      BY <1>3, NilAssumption DEF AnswerSound, RequestSound, Kinds, Writers
    <3>. QED
      BY <1>4, <1>5, <2>3, <3>1 DEF AnswerSound, RequestSound
  <2>. QED
    BY <2>2, <2>3
<1>9. TripsApart' /\ OneWriter'
  <2>1. TripsApart'
    BY <1>3, <1>4, <1>5 DEF BrowserInv, TripsApart
  <2>2. ~crossed' => ~crossed
    BY <1>5
  <2>3. OneWriter'
    BY <1>3, <1>4, <2>2 DEF BrowserInv, OneWriter
  <2>. QED
    BY <2>1, <2>3
<1>10. FreshSignIns'
  BY <1>3, <1>4, <1>5 DEF BrowserInv, FreshSignIns, NotOf
<1>11. ~crossed' => ~crossed /\ net[r].tokens = Nil
  BY <1>1, <1>5 DEF AnswerSound, Writers, InFlight, Kinds
<1>12. PairsCurrent' /\ TokensCurrent'
  BY <1>3, <1>4, <1>5, <1>11 DEF BrowserInv, PairsCurrent, TokensCurrent, NoPairOnTheWay, OnePair
<1>13. SignedOutAll'
  <2>. SUFFICES ASSUME signedOut, NEW q \in Request
                PROVE  Powerless(net'[q])
    BY <1>5 DEF SignedOutAll, Powerless
  <2>1. Powerless(net[q])
    BY DEF BrowserInv, SignedOutAll
  <2>. QED
    BY <1>3, <1>4, <2>1 DEF Powerless
<1>14. StaysSignedOut' /\ ~replayed'
  BY <1>5, NilAssumption DEF BrowserInv, StaysSignedOut
<1>. QED
  BY <1>6, <1>7, <1>8, <1>9, <1>10, <1>12, <1>13, <1>14 DEF BrowserInv

LEMMA AccessLapsesKeeps ==
  ASSUME BrowserInv, AccessLapses
  PROVE  BrowserInv'
<1>. DEFINE p == jar.access
<1>1. BrowserTypeOK /\ PairsIssued
  BY DEF BrowserInv
<1>2. /\ jar' = [jar EXCEPT !.access = Nil]
      /\ net' = [q \in Request |->
                   IF net[q].cookies.access = p THEN [net[q] EXCEPT !.cookies.access = Nil] ELSE net[q]]
      /\ UNCHANGED <<away, view, crossed, signedOut, settled, owner, serial, live, replayed>>
  BY DEF AccessLapses, KeepServer
<1>3. /\ jar' \in Jar /\ jar'.access = Nil /\ jar'.refresh = jar.refresh /\ jar'.csrf = jar.csrf
      /\ jar'.pending = jar.pending /\ jar'.state = jar.state
  BY <1>1, <1>2 DEF BrowserTypeOK, Jar
<1>4. ASSUME NEW q \in Request
      PROVE  /\ net'[q] \in InFlight \cup {Free}
             /\ net'[q].pc = net[q].pc /\ net'[q].kind = net[q].kind /\ net'[q].user = net[q].user
             /\ net'[q].state = net[q].state /\ net'[q].replay = net[q].replay
             /\ net'[q].tokens = net[q].tokens /\ net'[q].pending = net[q].pending
             /\ net'[q].deleted = net[q].deleted /\ net'[q].body = net[q].body
             /\ net'[q].cookies.access \in {Nil, net[q].cookies.access}
             /\ net'[q].cookies.refresh = net[q].cookies.refresh
             /\ net'[q].cookies.pending = net[q].cookies.pending
             /\ net'[q].cookies.state = net[q].cookies.state
  <2>1. CASE net[q].cookies.access # p
    BY <1>1, <1>2, <2>1 DEF BrowserTypeOK
  <2>2. CASE net[q].cookies.access = p
    <3>1. p # Nil
      BY DEF AccessLapses
    <3>2. net[q] # Free
      BY <2>2, <3>1 DEF Free, NoCookies
    <3>3. PICK f \in InFlight : f = net[q]
      BY <1>1, <3>2, InFlightOrFree
    <3>4. PICK c \in Jar : c = [f.cookies EXCEPT !.access = Nil]
      <4>1. f.cookies \in Jar
        BY DEF InFlight
      <4>2. [f.cookies EXCEPT !.access = Nil] \in Jar
        BY <4>1 DEF Jar
      <4>. QED
        BY <4>2
    <3>5. /\ c.access = Nil /\ c.refresh = f.cookies.refresh /\ c.pending = f.cookies.pending
          /\ c.state = f.cookies.state
      BY <3>4 DEF InFlight, Jar
    <3>6. PICK g : g = [f EXCEPT !.cookies = c]
      OBVIOUS
    <3>7. g \in InFlight
      BY <3>6 DEF InFlight
    <3>8. /\ g.pc = f.pc /\ g.kind = f.kind /\ g.user = f.user /\ g.state = f.state /\ g.replay = f.replay
          /\ g.tokens = f.tokens /\ g.pending = f.pending /\ g.deleted = f.deleted /\ g.body = f.body
          /\ g.cookies = c
      BY <3>6 DEF InFlight
    <3>9. net'[q] = g
      BY <1>2, <2>2, <3>3, <3>4, <3>6
    <3>. QED
      BY <3>3, <3>5, <3>7, <3>8, <3>9
  <2>. QED
    BY <2>1, <2>2
<1>5. BrowserTypeOK'
  <2>1. net' \in [Request -> InFlight \cup {Free}]
    BY <1>2, <1>4
  <2>. QED
    BY <1>1, <1>2, <1>3, <2>1 DEF BrowserTypeOK, Owner
<1>6. PairsIssued'
  <2>1. ASSUME NEW q \in Request
        PROVE  (Issued(net[q].cookies.access) /\ Issued(net[q].cookies.refresh) /\ Issued(net[q].tokens))'
    BY <1>1, <1>2, <1>4 DEF PairsIssued, Issued
  <2>. QED
    BY <1>1, <1>2, <1>3, <2>1 DEF PairsIssued, Issued
<1>7. ASSUME NEW q \in Request PROVE (AnswerSound(net[q]) /\ RequestSound(net[q]))'
  <2>1. AnswerSound(net[q]) /\ RequestSound(net[q])
    BY DEF BrowserInv
  <2>2. AnswerSound(net'[q])
    BY <1>4, <2>1 DEF AnswerSound
  <2>3. RequestSound(net'[q])
    BY <1>4, <2>1 DEF RequestSound
  <2>. QED
    BY <1>2, <2>2, <2>3 DEF AnswerSound, RequestSound
<1>8. TripsApart' /\ OneWriter'
  BY <1>2, <1>3, <1>4 DEF BrowserInv, TripsApart, OneWriter
<1>9. FreshSignIns'
  BY <1>2, <1>3, <1>4 DEF BrowserInv, FreshSignIns, NotOf
<1>10. PairsCurrent' /\ TokensCurrent'
  BY <1>2, <1>3, <1>4 DEF BrowserInv, PairsCurrent, TokensCurrent, NoPairOnTheWay, OnePair
<1>11. SignedOutAll'
  <2>. SUFFICES ASSUME signedOut, NEW q \in Request
                PROVE  Powerless(net'[q])
    BY <1>2 DEF SignedOutAll, Powerless
  <2>1. Powerless(net[q])
    BY DEF BrowserInv, SignedOutAll
  <2>. QED
    BY <1>4, <2>1 DEF Powerless
<1>12. StaysSignedOut' /\ ~replayed'
  BY <1>2, <1>3 DEF BrowserInv, StaysSignedOut
<1>. QED
  BY <1>5, <1>6, <1>7, <1>8, <1>9, <1>10, <1>11, <1>12 DEF BrowserInv

LEMMA RevokedElsewhereKeeps ==
  ASSUME BrowserInv, NEW s \in Session, RevokedElsewhere(s)
  PROVE  BrowserInv'
<1>1. BrowserTypeOK'
  BY DEF BrowserInv, BrowserTypeOK, Owner, RevokedElsewhere
<1>2. (PairsIssued /\ TripsApart /\ FreshSignIns /\ OneWriter /\ PairsCurrent /\ TokensCurrent)'
  BY DEF BrowserInv, PairsIssued, Issued, TripsApart, FreshSignIns, NotOf, OneWriter, PairsCurrent,
         OnePair, NoPairOnTheWay, TokensCurrent, RevokedElsewhere
<1>3. (\A r \in Request : AnswerSound(net[r]) /\ RequestSound(net[r]))'
  BY DEF BrowserInv, AnswerSound, RequestSound, RevokedElsewhere
<1>4. (SignedOutAll /\ StaysSignedOut /\ ~replayed)'
  BY DEF BrowserInv, SignedOutAll, Powerless, StaysSignedOut, RevokedElsewhere
<1>. QED
  BY <1>1, <1>2, <1>3, <1>4 DEF BrowserInv

LEMMA SendsKeep ==
  ASSUME BrowserInv, NEW r \in Request,
         \/ \E u \in Visitor : SendSignIn(r, u) \/ \E st \in State : SendCallback(r, st, u)
         \/ SendVerify(r) \/ SendSignOut(r) \/ SendSession(r) \/ SendGuarded(r)
         \/ \E st \in State : SendAuthorize(r, st)
  PROVE  BrowserInv'
<1>. USE DEF Kinds, Writers
<1>1. ASSUME NEW u \in Visitor, SendSignIn(r, u) PROVE BrowserInv'
  BY <1>1, SendKeeps DEF SendSignIn
<1>2. ASSUME NEW u \in Visitor, NEW st \in State, SendCallback(r, st, u) PROVE BrowserInv'
  BY <1>2, SendKeeps DEF SendCallback
<1>3. CASE SendVerify(r)
  BY <1>3, SendKeeps DEF SendVerify
<1>4. CASE SendSignOut(r)
  BY <1>4, SendKeeps DEF SendSignOut
<1>5. CASE SendSession(r)
  BY <1>5, SendKeeps DEF SendSession
<1>6. CASE SendGuarded(r)
  BY <1>6, SendKeeps DEF SendGuarded
<1>7. ASSUME NEW st \in State, SendAuthorize(r, st) PROVE BrowserInv'
  BY <1>7, SendKeeps DEF SendAuthorize
<1>. QED
  BY <1>1, <1>2, <1>3, <1>4, <1>5, <1>6, <1>7

LEMMA BrowserNextKeeps == BrowserInv /\ [BrowserNext]_browserVars => BrowserInv'
<1>. SUFFICES ASSUME BrowserInv, [BrowserNext]_browserVars
              PROVE  BrowserInv'
  OBVIOUS
<1>1. CASE UNCHANGED browserVars
  <2>1. BrowserTypeOK'
    BY <1>1 DEF BrowserInv, BrowserTypeOK, Owner, browserVars
  <2>2. (PairsIssued /\ TripsApart /\ FreshSignIns /\ OneWriter /\ PairsCurrent /\ TokensCurrent)'
    BY <1>1 DEF BrowserInv, PairsIssued, Issued, TripsApart, FreshSignIns, NotOf, OneWriter, PairsCurrent,
           OnePair, NoPairOnTheWay, TokensCurrent, browserVars
  <2>3. (\A r \in Request : AnswerSound(net[r]) /\ RequestSound(net[r]))'
    BY <1>1 DEF BrowserInv, AnswerSound, RequestSound, browserVars
  <2>4. (SignedOutAll /\ StaysSignedOut /\ ~replayed)'
    BY <1>1 DEF BrowserInv, SignedOutAll, Powerless, StaysSignedOut, browserVars
  <2>. QED
    BY <2>1, <2>2, <2>3, <2>4 DEF BrowserInv
<1>2. ASSUME NEW r \in Request,
             \/ HandleSignIn(r) \/ HandleVerify(r) \/ HandleSignOut(r) \/ HandleSession(r)
             \/ HandleGuarded(r) \/ HandleAuthorize(r) \/ HandleCallback(r)
      PROVE  BrowserInv'
  BY <1>2, HandleSignInKeeps, HandleVerifyKeeps, HandleSignOutKeeps, HandleSessionKeeps,
     HandleGuardedKeeps, HandleAuthorizeKeeps, HandleCallbackKeeps
<1>. QED
  BY <1>1, <1>2, SendsKeep, ReceiveKeeps, LoseKeeps, AccessLapsesKeeps, RevokedElsewhereKeeps
  DEF BrowserNext

LEMMA BrowserSpecKeeps == BrowserSpec => [](BrowserTypeOK /\ JarIsCurrent /\ OnlySignInsSignIn)
<1>1. BrowserInv => BrowserTypeOK /\ JarIsCurrent /\ OnlySignInsSignIn
  <2>. SUFFICES ASSUME BrowserInv
                PROVE  BrowserTypeOK /\ JarIsCurrent /\ OnlySignInsSignIn
    OBVIOUS
  <2>1. ASSUME NEW r \in Request, net[r].kind \notin Writers PROVE net[r].tokens = Nil
    <3>1. AnswerSound(net[r]) /\ (net[r].kind \in Kinds \/ net[r].kind = Nil)
      BY DEF BrowserInv, BrowserTypeOK, InFlight, Free
    <3>. QED
      BY <2>1, <3>1 DEF AnswerSound, Kinds
  <2>2. JarIsCurrent
    BY <2>1 DEF BrowserInv, JarIsCurrent, PairsCurrent, OnePair, NoPairOnTheWay
  <2>. QED
    BY <2>2 DEF BrowserInv, OnlySignInsSignIn
<1>. QED
  BY <1>1, BrowserInitSound, BrowserNextKeeps, PTL DEF BrowserSpec

-----------------------------------------------------------------------------
(* The whole.                                                              *)

\* A step of the whole is a step of each part, or leaves it alone.
LEMMA PartsMove ==
  ASSUME [PartsNext]_partsVars
  PROVE  /\ [PasskeyNext]_passkeyVars /\ [PermNext]_permVars /\ [TeamNext]_teamVars
         /\ [KeyNext]_keyVars /\ [LimiterNext]_limiterVars /\ [BrowserNext]_browserVars
         /\ [RegistryNext]_registryVars
BY DEF PartsNext, partsVars

LEMMA PartsBegin ==
  ASSUME PartsInit
  PROVE  PasskeyInit /\ PermInit /\ TeamInit /\ KeyInit /\ LimiterInit /\ BrowserInit
         /\ RegistryInit
BY DEF PartsInit

\* For any number of invitations, changes of role and removals at once, a team that
\* was made to its end loses its last owner by two overlapping removals of owners, or
\* by the operations that do not look (a demotion, the deletion of the user), and in
\* no other way (plugin-idp/src/teams.ts:92-190, index.ts:1182).
THEOREM SpecTeamKeepsAnOwner == PartsSpec => []TeamKeepsAnOwner
<1>1. PartsSpec => TeamSpec
  BY PartsBegin, PartsMove, PTL DEF PartsSpec, TeamSpec
<1>. QED
  BY <1>1, TeamSpecKeepsOwners, PTL

\* At most one key is active as long as no two calls that make a key overlapped, for
\* any number of callers, keys and failures (plugin-idp/src/keys.ts:38-55).
THEOREM SpecOneActiveKey == PartsSpec => []OneActiveKey
<1>1. PartsSpec => KeySpec
  BY PartsBegin, PartsMove, PTL DEF PartsSpec, KeySpec
<1>. QED
  BY <1>1, KeySpecOneActive, PTL

LEMMA PartsLimiter == PartsSpec => LimiterSpec
BY PartsBegin, PartsMove, PTL DEF PartsSpec, LimiterSpec

\* No window of any position, and of whatever length, sees more than the limit
\* (plugin-magic-link/src/rate-limit.ts:31-51).
THEOREM SpecAtMostLimitPerWindow == PartsSpec => []AtMostLimitPerWindow
BY PartsLimiter, LimiterSpecKeepsPromises, PTL

\* Retry-After is never too short, whatever the length of a second in ticks
\* (plugin-magic-link/src/rate-limit.ts:31-51).
THEOREM SpecRetryAfterSuffices == PartsSpec => []RetryAfterSuffices
BY PartsLimiter, LimiterSpecKeepsPromises, PTL

\* The permission cache is stale by the races it admits only, for any users,
\* groups, nodes and files (plugin-rbac/src/index.ts:202-226, 338-379).
THEOREM SpecAnswersCurrent == PartsSpec => []AnswersCurrent
<1>1. PartsSpec => PermSpec
  BY PartsBegin, PartsMove, PTL DEF PartsSpec, PermSpec
<1>. QED
  BY <1>1, PermSpecAnswersCurrent, PTL

LEMMA PartsPasskeys == PartsSpec => PasskeySpec
BY PartsBegin, PartsMove, PTL DEF PartsSpec, PasskeySpec

\* An answer of an authenticator that counts signs in once, unless two logins had
\* read one row (plugin-passkey/src/index.ts:391-415).
THEOREM SpecOneSignInPerAnswer == PartsSpec => []OneSignInPerAnswer
BY PartsPasskeys, PasskeySpecOneSignIn, PTL

\* A credential goes by its user only (plugin-passkey/src/index.ts:428-434).
THEOREM SpecGoesByOwner == PartsSpec => GoesByOwner
BY PartsPasskeys, PasskeySpecGoesByOwner, PTL

LEMMA PartsBrowser == PartsSpec => BrowserSpec
BY PartsBegin, PartsMove, PTL DEF PartsSpec, BrowserSpec

\* Whatever the order of losses, revocations and lapses, the jar holds the newest pair
\* of its session when nothing that writes cookies is awaited, unless two answers that
\* write crossed or one was lost since the sign-in; for any number of visitors,
\* sessions and requests (nextjs-app-router/src/middleware.ts:37-46).
THEOREM SpecJarIsCurrent == PartsSpec => []JarIsCurrent
BY PartsBrowser, BrowserSpecKeeps, PTL

\* After a sign-out with nothing else in flight no cookie of a session and no user is
\* there until somebody signs in, and the callback's address signs in once
\* (nextjs-app-router/src/dispatch.ts:271-326, react/src/index.ts:284-300).
THEOREM SpecOnlySignInsSignIn == PartsSpec => []OnlySignInsSignIn
BY PartsBrowser, BrowserSpecKeeps, PTL

LEMMA PartsRegistry == PartsSpec => RegistrySpec
BY PartsBegin, PartsMove, PTL DEF PartsSpec, RegistrySpec

\* For any number of plugins: the sort refuses exactly what cannot be sorted, and each
\* plugin is called after those it depends on (core/src/plugins/registry.ts:92-129).
THEOREM SpecDependenciesFirst == PartsSpec => []DependenciesFirst
BY PartsRegistry, RegistrySpecKeeps, PTL

\* Every part keeps the types and the foreign keys of its tables.
THEOREM SpecPartsTypeOK == PartsSpec => []PartsTypeOK
<1>1. PartsSpec => [](focus \in Part)
  <2>1. PartsInit => focus \in Part
    BY DEF PartsInit
  <2>2. focus \in Part /\ [PartsNext]_partsVars => (focus \in Part)'
    BY DEF PartsNext, partsVars
  <2>. QED
    BY <2>1, <2>2, PTL DEF PartsSpec
<1>2. PartsSpec => TeamSpec /\ KeySpec /\ PermSpec
  BY PartsBegin, PartsMove, PTL DEF PartsSpec, TeamSpec, KeySpec, PermSpec
<1>3. PartsSpec => [](TeamTypeOK /\ KeyTypeOK /\ PermTypeOK)
  BY <1>2, TeamSpecKeepsOwners, KeySpecOneActive, PermSpecAnswersCurrent, PTL
<1>4. PartsSpec => [](PasskeyTypeOK /\ LimiterTypeOK)
  BY PartsPasskeys, PartsLimiter, PasskeySpecOneSignIn, LimiterSpecKeepsPromises, PTL
<1>5. PartsSpec => [](BrowserTypeOK /\ RegistryTypeOK)
  BY PartsBrowser, PartsRegistry, BrowserSpecKeeps, RegistrySpecKeeps, PTL
<1>. QED
  BY <1>1, <1>3, <1>4, <1>5, PTL DEF PartsTypeOK

=============================================================================
