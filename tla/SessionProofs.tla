---------------------------- MODULE SessionProofs ----------------------------
(***************************************************************************)
(* Proofs about Session, for any number of tabs and any routes.           *)
(***************************************************************************)
EXTENDS Session, TLAPS

-----------------------------------------------------------------------------
(* One tab                                                                 *)

\* The shell is hidden, the promise set and one login in flight together; none
\* is left from before a logout, and a session is from after the last one.
Ready(tab) ==
    /\ tab \in Tab
    /\ tab.loading = tab.authentication
    /\ tab.logins = IF tab.authentication THEN 1 ELSE 0
    /\ tab.earlier = 0
    /\ tab.session => tab.renewed

\* And a navigation that is held back waits for that login.
Sound(tab) == Ready(tab) /\ (tab.nav # None => tab.authentication)

\* authenticate makes a tab wait, and leaves one alone that waits.
LEMMA LogInReady ==
    ASSUME NEW tab, Ready(tab)
    PROVE  Sound(LogIn(tab)) /\ LogIn(tab).authentication
<1>1. CASE tab.authentication
  BY <1>1 DEF LogIn, Sound
<1>2. CASE ~tab.authentication
  <2> DEFINE new == [tab EXCEPT !.loading = TRUE, !.authentication = TRUE,
                                !.logins = tab.logins + 1]
  <2>1. LogIn(tab) = new
    BY <1>2 DEF LogIn
  <2>2. tab \in Tab /\ tab.logins = 0 /\ tab.earlier = 0 /\ (tab.session => tab.renewed)
    BY <1>2 DEF Ready
  <2>3. /\ new \in Tab /\ new.loading = TRUE /\ new.authentication = TRUE
        /\ new.logins = tab.logins + 1 /\ new.earlier = tab.earlier
        /\ new.session = tab.session /\ new.renewed = tab.renewed
    <3> DEFINE waits == [tab EXCEPT !.loading = TRUE, !.authentication = TRUE]
    <3>1. waits \in Tab /\ waits.loading /\ waits.authentication
          /\ waits.logins = tab.logins /\ waits.earlier = tab.earlier
          /\ waits.session = tab.session /\ waits.renewed = tab.renewed
      BY <2>2 DEF Tab
    <3>2. new = [waits EXCEPT !.logins = tab.logins + 1]
      OBVIOUS
    <3>3. tab.logins + 1 \in Nat
      BY <2>2
    <3> HIDE DEF waits, new
    <3>4. QED
      BY <3>1, <3>2, <3>3 DEF Tab
  <2>4. QED
    BY <2>1, <2>2, <2>3 DEF Sound, Ready
<1>3. QED
  BY <1>1, <1>2

\* A guard lets the tab on or makes it wait.
LEMMA GuardedSound ==
    ASSUME NEW tab, Ready(tab), NEW route \in Routes
    PROVE  Sound(Guarded(tab, route))
<1>1. CASE tab.session
  <2> DEFINE new == [tab EXCEPT !.url = route, !.nav = None]
  <2>1. /\ new \in Tab /\ new.nav = None
        /\ new.loading = tab.loading /\ new.authentication = tab.authentication
        /\ new.logins = tab.logins /\ new.earlier = tab.earlier
        /\ new.session = tab.session /\ new.renewed = tab.renewed
    BY DEF Ready, Tab
  <2>2. QED
    BY <1>1, <2>1 DEF Guarded, Sound, Ready
<1>2. CASE ~tab.session
  <2> DEFINE new == [tab EXCEPT !.nav = route]
  <2>1. /\ new \in Tab
        /\ new.loading = tab.loading /\ new.authentication = tab.authentication
        /\ new.logins = tab.logins /\ new.earlier = tab.earlier
        /\ new.session = tab.session /\ new.renewed = tab.renewed
    BY DEF Ready, Tab
  <2>2. Ready(new)
    BY <2>1 DEF Ready
  <2>3. QED
    BY <1>2, <2>2, LogInReady DEF Guarded
<1>3. QED
  BY <1>1, <1>2

\* With every login counted once, only one asked for since the last logout can
\* be answered, and its finally makes the tab ready again.
LEMMA AnswerTaken ==
    ASSUME NEW tab, Sound(tab), NEW current \in BOOLEAN,
           IF current THEN tab.logins > 0 ELSE tab.earlier > 0
    PROVE  /\ current
           /\ Ready(Settled(TakeOne(tab, current)))
<1>1. tab \in Tab /\ tab.earlier = 0 /\ current /\ tab.authentication /\ tab.logins = 1
  BY DEF Sound, Ready
<1> DEFINE taken == [tab EXCEPT !.logins = tab.logins - 1]
<1>2. TakeOne(tab, current) = taken
  BY <1>1 DEF TakeOne
<1>3. tab.logins - 1 = 0
  BY <1>1
<1>4. /\ taken \in Tab /\ taken.logins = 0 /\ taken.earlier = 0
      /\ taken.session = tab.session /\ taken.renewed = tab.renewed
  BY <1>1, <1>3 DEF Tab
<1> HIDE DEF taken
<1> DEFINE now == [taken EXCEPT !.loading = FALSE, !.authentication = FALSE]
<1>5. /\ now \in Tab /\ now.logins = 0 /\ now.earlier = 0
      /\ now.loading = FALSE /\ now.authentication = FALSE
      /\ now.session = tab.session /\ now.renewed = tab.renewed
  BY <1>4 DEF Tab
<1>6. Ready(now)
  BY <1>5 DEF Ready, Sound
<1>7. QED
  BY <1>1, <1>2, <1>6 DEF Settled

\* A login that succeeded lets go on what waited for it.
LEMMA LoggedInSound ==
    ASSUME NEW tab, Sound(tab), NEW current \in BOOLEAN,
           IF current THEN tab.logins > 0 ELSE tab.earlier > 0
    PROVE  Sound(LoggedIn(TakeOne(tab, current), current))
<1> DEFINE settled == Settled(TakeOne(tab, current))
           now     == [settled EXCEPT !.session = TRUE, !.renewed = current]
<1>1. current /\ Ready(settled)
  BY AnswerTaken
<1> HIDE DEF settled
<1>2. /\ now \in Tab /\ now.session = TRUE /\ now.renewed = TRUE
      /\ now.loading = settled.loading /\ now.authentication = settled.authentication
      /\ now.logins = settled.logins /\ now.earlier = settled.earlier
  BY <1>1 DEF Ready, Tab
<1>3. Ready(now)
  BY <1>1, <1>2 DEF Ready
<1>4. now.nav \in Routes \cup {None}
  BY <1>2 DEF Tab
<1>5. LoggedIn(TakeOne(tab, current), current)
        = IF now.nav = None THEN now ELSE Guarded(now, now.nav)
  BY DEF LoggedIn, settled
<1> HIDE DEF now
<1>6. CASE now.nav = None
  BY <1>3, <1>5, <1>6 DEF Sound
<1>7. CASE now.nav # None
  BY <1>3, <1>4, <1>5, <1>7, GuardedSound
<1>8. QED
  BY <1>6, <1>7

\* One that failed redirects it to /units, or ends it there.
LEMMA LoginFailedSound ==
    ASSUME NEW tab, Sound(tab), NEW current \in BOOLEAN,
           IF current THEN tab.logins > 0 ELSE tab.earlier > 0
    PROVE  Sound(LoginFailed(TakeOne(tab, current)))
<1> DEFINE now == Settled(TakeOne(tab, current))
<1>1. Ready(now)
  BY AnswerTaken
<1>2. LoginFailed(TakeOne(tab, current))
        = IF now.nav = None THEN now
          ELSE IF now.url = "units" THEN [now EXCEPT !.nav = None]
          ELSE Guarded(now, "units")
  BY DEF LoginFailed
<1> HIDE DEF now
<1>3. CASE now.nav = None
  BY <1>1, <1>2, <1>3 DEF Sound
<1>4. CASE now.nav # None /\ now.url = "units"
  <2> DEFINE stays == [now EXCEPT !.nav = None]
  <2>1. /\ stays \in Tab /\ stays.nav = None
        /\ stays.loading = now.loading /\ stays.authentication = now.authentication
        /\ stays.logins = now.logins /\ stays.earlier = now.earlier
        /\ stays.session = now.session /\ stays.renewed = now.renewed
    BY <1>1 DEF Ready, Tab
  <2>2. QED
    BY <1>1, <1>2, <1>4, <2>1 DEF Sound, Ready
<1>5. CASE now.nav # None /\ now.url # "units"
  <2>1. "units" \in Routes
    BY ConstantsAssumption
  <2>2. QED
    BY <1>1, <1>2, <1>5, <2>1, GuardedSound
<1>6. QED
  BY <1>3, <1>4, <1>5

\* The button is shown only while no login is in flight: nothing is left
\* behind to count as an earlier one.
LEMMA LogoutSound ==
    ASSUME NEW tab, Sound(tab), ~tab.loading
    PROVE  Sound(LogIn([tab EXCEPT !.session = FALSE,
                           !.logins = 0, !.earlier = tab.earlier + tab.logins]))
<1>1. /\ tab \in Tab /\ tab.logins = 0 /\ tab.earlier = 0 /\ tab.authentication = FALSE
      /\ tab.loading = FALSE
  BY DEF Sound, Ready, Tab
<1> DEFINE left == [tab EXCEPT !.session = FALSE, !.logins = 0]
           new  == [tab EXCEPT !.session = FALSE,
                       !.logins = 0, !.earlier = tab.earlier + tab.logins]
<1>2. /\ left \in Tab /\ left.session = FALSE /\ left.logins = 0
      /\ left.loading = FALSE /\ left.authentication = FALSE
  BY <1>1 DEF Tab
<1>3. new = [left EXCEPT !.earlier = tab.earlier + tab.logins]
  OBVIOUS
<1>4. tab.earlier + tab.logins = 0
  BY <1>1
<1> HIDE DEF left, new
<1>5. /\ new \in Tab /\ new.session = FALSE /\ new.logins = 0 /\ new.earlier = 0
      /\ new.loading = FALSE /\ new.authentication = FALSE
  BY <1>2, <1>3, <1>4 DEF Tab
<1>6. Ready(new)
  BY <1>5 DEF Ready
<1>7. QED
  BY <1>6, LogInReady DEF new

-----------------------------------------------------------------------------
(* All tabs                                                                *)

\* The inductive invariant: every open tab is sound.
SessionInv ==
    /\ tabs \in [Tabs -> Tab \cup {None}]
    /\ \A t \in Tabs : Open(t) => Sound(tabs[t])
    /\ storage \in BOOLEAN
    /\ up \in BOOLEAN

\* A step that leaves one tab sound, or closes it, keeps the invariant.
LEMMA OneTabChanges ==
    ASSUME SessionInv, NEW t \in Tabs, NEW new, Sound(new) \/ new = None,
           tabs' = [tabs EXCEPT ![t] = new], storage' \in BOOLEAN, up' \in BOOLEAN
    PROVE  SessionInv'
<1>1. new \in Tab \cup {None}
  BY DEF Sound, Ready
<1>2. tabs' \in [Tabs -> Tab \cup {None}]
  BY <1>1 DEF SessionInv
<1>3. ASSUME NEW x \in Tabs, tabs'[x] # None  PROVE Sound(tabs'[x])
  <2>1. tabs'[x] = IF x = t THEN new ELSE tabs[x]
    BY DEF SessionInv
  <2>2. QED
    BY <1>3, <2>1 DEF SessionInv, Open
<1>4. QED
  BY <1>2, <1>3 DEF SessionInv, Open

LEMMA InitSound == Init => SessionInv
BY DEF Init, SessionInv, Open

LEMMA StepSound == SessionInv /\ [Next]_vars => SessionInv'
<1> SUFFICES ASSUME SessionInv, [Next]_vars
             PROVE  SessionInv'
  OBVIOUS
<1>1. ASSUME NEW t \in Tabs, Load(t)  PROVE SessionInv'
  <2>1. PICK route \in Routes :
          LET new == [session |-> storage, loading |-> ~storage,
                      authentication |-> FALSE, logins |-> 0, earlier |-> 0,
                      renewed |-> storage, nav |-> None, url |-> None]
          IN  tabs' = [tabs EXCEPT ![t] =
                          Guarded(IF storage THEN new ELSE LogIn(new), route)]
    BY <1>1 DEF Load
  <2> DEFINE new == [session |-> storage, loading |-> ~storage,
                     authentication |-> FALSE, logins |-> 0, earlier |-> 0,
                     renewed |-> storage, nav |-> None, url |-> None]
             first == IF storage THEN new ELSE LogIn(new)
  <2>2. new \in Tab
    BY DEF SessionInv, Tab
  <2>3. CASE storage
    <3>1. Ready(new)
      BY <2>2, <2>3 DEF Ready
    <3>2. QED
      BY <3>1, <2>1, <2>3, <1>1, GuardedSound, OneTabChanges DEF Load, SessionInv
  <2>4. CASE ~storage
    <3>1. LogIn(new) = LogIn([new EXCEPT !.loading = FALSE])
      BY <2>2 DEF LogIn, Tab
    <3>2. Ready([new EXCEPT !.loading = FALSE])
      BY <2>2, <2>4 DEF Ready, Tab
    <3>3. Ready(LogIn(new))
      BY <3>1, <3>2, LogInReady DEF Sound
    <3>4. QED
      BY <3>3, <2>1, <2>4, <1>1, GuardedSound, OneTabChanges DEF Load, SessionInv
  <2>5. QED
    BY <2>3, <2>4
<1>2. ASSUME NEW t \in Tabs, Close(t)  PROVE SessionInv'
  BY <1>2, OneTabChanges DEF Close, SessionInv
<1>3. ASSUME NEW t \in Tabs, Navigate(t)  PROVE SessionInv'
  <2>1. PICK route \in Routes : tabs' = [tabs EXCEPT ![t] = Guarded(tabs[t], route)]
    BY <1>3 DEF Navigate
  <2>2. Sound(Guarded(tabs[t], route))
    BY <1>3, GuardedSound DEF Navigate, SessionInv, Sound
  <2>3. QED
    BY <1>3, <2>1, <2>2, OneTabChanges DEF Navigate, SessionInv
<1>4. ASSUME NEW t \in Tabs, Logout(t)  PROVE SessionInv'
  <2>1. Sound(tabs[t]) /\ ~tabs[t].loading
    BY <1>4 DEF Logout, SessionInv
  <2> DEFINE new == LogIn([tabs[t] EXCEPT !.session = FALSE,
                       !.logins = 0, !.earlier = tabs[t].earlier + tabs[t].logins])
  <2>2. Sound(new)
    BY <2>1, LogoutSound
  <2>3. tabs' = [tabs EXCEPT ![t] = new] /\ storage' = FALSE /\ up' = up
    BY <1>4 DEF Logout
  <2> HIDE DEF new
  <2>4. QED
    BY <2>2, <2>3, OneTabChanges DEF SessionInv
<1>5. ASSUME NEW t \in Tabs, LoginSucceeds(t)  PROVE SessionInv'
  <2>1. PICK current \in BOOLEAN :
          /\ up /\ Answered(t, current)
          /\ tabs' = [tabs EXCEPT ![t] = LoggedIn(TakeOne(tabs[t], current), current)]
          /\ storage' = TRUE /\ up' = up
    BY <1>5 DEF LoginSucceeds
  <2>2. Sound(LoggedIn(TakeOne(tabs[t], current), current))
    BY <2>1, LoggedInSound DEF Answered, SessionInv
  <2>3. QED
    BY <2>1, <2>2, OneTabChanges DEF SessionInv
<1>6. ASSUME NEW t \in Tabs, LoginFails(t)  PROVE SessionInv'
  <2>1. PICK current \in BOOLEAN :
          /\ Answered(t, current)
          /\ tabs' = [tabs EXCEPT ![t] = LoginFailed(TakeOne(tabs[t], current))]
          /\ storage' = storage /\ up' = up
    BY <1>6 DEF LoginFails
  <2>2. Sound(LoginFailed(TakeOne(tabs[t], current)))
    BY <2>1, LoginFailedSound DEF Answered, SessionInv
  <2>3. QED
    BY <2>1, <2>2, OneTabChanges DEF SessionInv
<1>7. CASE Turn
  BY <1>7 DEF Turn, SessionInv, Open
<1>8. CASE UNCHANGED vars
  BY <1>8 DEF vars, SessionInv, Open
<1>9. QED
  BY <1>1, <1>2, <1>3, <1>4, <1>5, <1>6, <1>7, <1>8 DEF Next

\* Every open tab stays sound: one login in flight exactly while the promise is
\* set and the shell hidden, none from before a logout, and a held back
\* navigation waiting for it.
THEOREM SessionInvariant == Spec => []SessionInv
<1>1. QED
  BY InitSound, StepSound, PTL DEF Spec

\* Tabs keep their type, and a navigation is held back only for a login.
THEOREM SessionTypes == Spec => []TypeOK
<1>1. SessionInv => TypeOK
  <2>1. ASSUME SessionInv, NEW t \in Tabs, tabs[t] # None,
               tabs[t].logins + tabs[t].earlier = 0
        PROVE  tabs[t].nav = None
    BY <2>1 DEF SessionInv, Open, Sound, Ready
  <2>2. QED
    BY <2>1 DEF SessionInv, TypeOK
<1>2. QED
  BY <1>1, SessionInvariant, PTL

\* A tab never has two logins in flight, whoever asks for them.
THEOREM LoginShared == Spec => []OneLogin
<1>1. SessionInv => OneLogin
  BY DEF SessionInv, OneLogin, Sound, Ready
<1>2. QED
  BY <1>1, SessionInvariant, PTL

\* The session after a logout was asked for after it.
THEOREM SessionFresh == Spec => []FreshAfterLogout
<1>1. SessionInv => FreshAfterLogout
  BY DEF SessionInv, FreshAfterLogout, Sound, Ready
<1>2. QED
  BY <1>1, SessionInvariant, PTL

\* A hidden shell waits for a login that is in flight.
THEOREM ShellWaits == Spec => []ShellReturns
<1>1. SessionInv => ShellReturns
  BY DEF SessionInv, ShellReturns, Sound, Ready
<1>2. QED
  BY <1>1, SessionInvariant, PTL
=============================================================================
