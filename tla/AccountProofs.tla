---------------------------- MODULE AccountProofs ----------------------------
(* A profile is complete, for any number of phones, accounts and requests. *)
(* The property is not inductive: a profile is stored at the end of four   *)
(* calls, so each step carries on what the calls before it have achieved.  *)
EXTENDS Account, FunctionTheorems, FiniteSetTheorems, SequenceTheorems, TLAPS

\* A registration that got to its avatar has its account, and one whose
\* profile is on the wire has put its avatar.
RegistrationInv ==
    /\ profile \in [Accounts -> [email : Accounts, avatar : Accounts] \cup {NoProfile}]
    /\ \A r \in requests :
          /\ r.email \in Accounts
          /\ r.step \in {"put", "url", "set"} =>
                r.email \in registered /\ r.avatar \in Accounts
          /\ r.step = "set" => r.avatar \in avatars
    /\ ProfileComplete

\* Phones, screens and users take no part in a registration's progress: the
\* invariant needs only that no request is new, but for those just asked.
LEMMA RegistrationKept ==
    ASSUME RegistrationInv,
           \A r \in requests' : \/ r \in requests
                                \/ r.email \in Accounts /\ r.step \in {"signIn", "create"},
           UNCHANGED profile,
           registered \subseteq registered',
           avatars \subseteq avatars'
    PROVE  RegistrationInv'
BY DEF RegistrationInv, ProfileComplete

\* What a phone and its user do.
LEMMA RegistrationDevice ==
    ASSUME RegistrationInv, NEW d \in Devices,
           \/ User(d) \/ Notify(d) \/ RevokeSession(d) \/ Kill(d) \/ Relaunch(d)
           \/ \E l \in Listeners(stack[d]) : NotifyFresh(d, l)
    PROVE  RegistrationInv'
<1>1. CASE \E e \in Accounts : Ask(d, e, "login", "signIn") \/ Ask(d, e, "register", "create")
  <2>1. \A r \in requests' : \/ r \in requests
                             \/ r.email \in Accounts /\ r.step \in {"signIn", "create"}
    BY <1>1 DEF Ask
  <2> QED BY <1>1, <2>1, RegistrationKept DEF Ask, server
<1>2. CASE \E p \in Accounts : RowCrash(d, p)
  BY <1>2, RegistrationKept DEF RowCrash, Ended, server
<1>3. CASE \E p \in Accounts : Send(d, p)
  BY <1>3, RegistrationKept DEF Send
<1>4. CASE Kill(d) \/ Relaunch(d)
  BY <1>4, RegistrationKept DEF Kill, Relaunch, Ended, server
<1>5. CASE \/ OpenRegister(d) \/ LeaveRegister(d) \/ OpenLogin(d)
           \/ OpenNewMessage(d) \/ Cancel(d) \/ Logout(d)
           \/ Notify(d) \/ RevokeSession(d)
           \/ \E l \in Listeners(stack[d]) : NotifyFresh(d, l)
  <2>1. UNCHANGED <<requests, server>>
    BY <1>5 DEF OpenRegister, LeaveRegister, OpenLogin, OpenNewMessage, Cancel,
                Logout, Notify, RevokeSession, NotifyFresh
  <2> QED BY <2>1, RegistrationKept DEF server
<1> QED BY <1>1, <1>2, <1>3, <1>4, <1>5 DEF User

\* The answers, each to one request.
LEMMA RegistrationAnswer ==
    ASSUME RegistrationInv, NEW r \in requests, Answer(r)
    PROVE  RegistrationInv'
<1>1. CASE SignInDone(r) \/ RequestFailed(r)
  <2>1. requests' \subseteq requests /\ UNCHANGED profile
    BY <1>1 DEF SignInDone, RequestFailed, server
  <2>2. registered \subseteq registered' /\ avatars \subseteq avatars'
    BY <1>1 DEF SignInDone, RequestFailed, server
  <2> QED BY <2>1, <2>2, RegistrationKept
<1>2. ASSUME NEW path \in Accounts, CreateUserDone(r, path)
      PROVE  RegistrationInv'
  <2>1. Upload(r, path, "put").email = r.email
        /\ Upload(r, path, "put").avatar = path
        /\ Upload(r, path, "put").step = "put"
    BY DEF Upload
  <2>2. registered' = registered \cup {r.email} /\ UNCHANGED <<avatars, profile>>
        /\ requests' = (requests \ {r}) \cup {Upload(r, path, "put")}
    BY <1>2 DEF CreateUserDone
  <2> QED BY <2>1, <2>2 DEF RegistrationInv, ProfileComplete
<1>3. CASE PutDataDone(r)
  <2>1. Upload(r, r.avatar, "url").email = r.email
        /\ Upload(r, r.avatar, "url").avatar = r.avatar
        /\ Upload(r, r.avatar, "url").step = "url"
    BY DEF Upload
  <2>2. r.step = "put" /\ avatars' = avatars \cup {r.avatar}
        /\ UNCHANGED <<registered, profile>>
        /\ requests' = (requests \ {r}) \cup {Upload(r, r.avatar, "url")}
    BY <1>3 DEF PutDataDone
  <2> QED BY <2>1, <2>2 DEF RegistrationInv, ProfileComplete
<1>4. CASE DownloadURLDone(r)
  <2>1. Upload(r, r.avatar, "set").email = r.email
        /\ Upload(r, r.avatar, "set").avatar = r.avatar
        /\ Upload(r, r.avatar, "set").step = "set"
    BY DEF Upload
  <2>2. r.step = "url" /\ r.avatar \in avatars
        /\ UNCHANGED <<avatars, registered, profile>>
        /\ requests' = (requests \ {r}) \cup {Upload(r, r.avatar, "set")}
    BY <1>4 DEF DownloadURLDone, server
  <2> QED BY <2>1, <2>2 DEF RegistrationInv, ProfileComplete
<1>5. CASE ProfileStored(r)
  <2>1. /\ r.step = "set"
        /\ profile' = [profile EXCEPT ![r.email] = [email |-> r.email, avatar |-> r.avatar]]
        /\ requests' = requests \ {r}
        /\ UNCHANGED <<registered, avatars>>
    BY <1>5 DEF ProfileStored
  <2>2. r.email \in registered /\ r.email \in Accounts
        /\ r.avatar \in avatars /\ r.avatar \in Accounts
    BY <2>1 DEF RegistrationInv
  <2> QED BY <2>1, <2>2 DEF RegistrationInv, ProfileComplete
<1> QED BY <1>1, <1>2, <1>3, <1>4, <1>5 DEF Answer

\* The accounts that exist at the start have their profiles and avatars.
LEMMA RegistrationInit == Init => RegistrationInv
BY AccountsAssumption DEF Init, RegistrationInv, ProfileComplete

\* Whatever fails or is lost, whoever signs in or out and whatever the form
\* is changed to while a registration is under way, a stored profile belongs
\* to an account, is its own, and shows a picture that exists (handleregister).
THEOREM ProfileCorrect == Spec => []ProfileComplete
<1>1. RegistrationInv /\ [Next]_vars => RegistrationInv'
  <2>1. ASSUME RegistrationInv, Next PROVE RegistrationInv'
    BY <2>1, RegistrationDevice, RegistrationAnswer DEF Next
  <2>2. ASSUME RegistrationInv, UNCHANGED vars PROVE RegistrationInv'
    BY <2>2, RegistrationKept DEF vars
  <2> QED BY <2>1, <2>2
<1>2. RegistrationInv => ProfileComplete
  BY DEF RegistrationInv
<1> QED BY <1>1, <1>2, RegistrationInit, PTL DEF Spec

-----------------------------------------------------------------------------
(* The session on the screen.                                              *)

Said == Accounts \cup {NoUser, Fresh}

\* A login whose last listener would hear of any account.
Awaits(screen) ==
    /\ screen.kind = "login"
    /\ screen.listeners # <<>>
    /\ screen.listeners[Len(screen.listeners)] \in {Fresh, NoUser}

\* What is reached from a login, or from a registration opened there, was
\* not told of an account yet; and without a notification on its way every
\* listener knows the account u.
Settled(s, u, told) ==
    /\ s[Len(s)].kind = "login" => Awaits(s[Len(s)])
    /\ s[Len(s)].kind = "register" => Len(s) > 1 /\ Awaits(s[Len(s) - 1])
    /\ told => \A i \in DOMAIN s : s[i].kind = "login" =>
                   \A j \in DOMAIN s[i].listeners : s[i].listeners[j] \in {u, Fresh}

\* Without Awaits, a login whose listeners all know the account could be the
\* top screen, and no notification would take the user away from it.
SessionInv ==
    /\ TypeOK
    /\ \A d \in Devices : alive[d] => Settled(stack[d], currentUser[d], notified[d])

\* A screen has the fields of its kind.
LEMMA ScreenFields ==
    ASSUME NEW s \in Screen
    PROVE  /\ s.kind \in {"login", "list", "register", "newmessage"}
           /\ s.kind = "login" => s.listeners \in Seq(Said)
BY DEF Screen, Said

\* The screens the app makes have the shape of one, and a new login screen has
\* one listener that was not called yet (viewDidLoad).
LEMMA NewScreens ==
    /\ \A x \in Seq(Said) : /\ Login(x) \in Screen
                            /\ Login(x).kind = "login" /\ Login(x).listeners = x
    /\ \A u \in Accounts \cup {NoUser} : List(u) \in Screen /\ List(u).kind = "list"
    /\ \A k \in {"register", "newmessage"} : Other(k) \in Screen /\ Other(k).kind = k
    /\ <<Fresh>> \in Seq(Said)
BY DEF Screen, Said, Login, List, Other

\* The login screen of a launch waits for its listener.
LEMMA FreshAwaits == Awaits(Login(<<Fresh>>))
<1>1. Login(<<Fresh>>).kind = "login" /\ Login(<<Fresh>>).listeners = <<Fresh>>
  BY NewScreens
<1>2. <<Fresh>> # <<>> /\ Len(<<Fresh>>) = 1 /\ <<Fresh>>[1] = Fresh
  OBVIOUS
<1> QED BY <1>1, <1>2 DEF Awaits

\* A screen's listeners are finitely many, so a notification opens finitely
\* many lists.
LEMMA ListenersFinite ==
    ASSUME NEW s \in Seq(Screen)
    PROVE  IsFiniteSet(Listeners(s))
<1> DEFINE L == {k \in DOMAIN s : s[k].kind = "login"}
           at(i) == {<<i, j>> : j \in DOMAIN s[i].listeners}
           f == [i \in L |-> at(i)]
           A == {at(i) : i \in L}
<1>1. Len(s) \in Nat /\ DOMAIN s = 1..Len(s)
  BY LenProperties
<1>2. IsFiniteSet(1..Len(s))
  BY <1>1, FS_Interval
<1>3. IsFiniteSet(L)
  <2>1. L \in SUBSET (1..Len(s))
    BY <1>1
  <2> QED BY <1>2, <2>1, FS_Subset
<1>4. IsFiniteSet(A)
  <2>1. f \in [L -> A] /\ \A a \in A : \E i \in L : f[i] = a
    OBVIOUS
  <2> HIDE DEF f, A, L
  <2>2. f \in Surjection(L, A)
    BY <2>1, Fun_IsSurj
  <2> QED BY <1>3, <2>2, FS_Surjection
<1>5. ASSUME NEW i \in L PROVE IsFiniteSet(at(i))
  <2> DEFINE g == [j \in DOMAIN s[i].listeners |-> <<i, j>>]
             m == Len(s[i].listeners)
  <2>1. m \in Nat /\ DOMAIN s[i].listeners = 1..m
    <3>1. s[i] \in Screen
      BY <1>1, ElementOfSeq
    <3>2. s[i].listeners \in Seq(Said)
      BY <3>1, ScreenFields
    <3> QED BY <3>2, LenProperties
  <2>2. IsFiniteSet(1..m)
    BY <2>1, FS_Interval
  <2>3. g \in [1..m -> at(i)] /\ \A a \in at(i) : \E j \in 1..m : g[j] = a
    BY <2>1
  <2> HIDE DEF g, m, at
  <2>4. g \in Surjection(1..m, at(i))
    BY <2>3, Fun_IsSurj
  <2> QED BY <2>2, <2>4, FS_Surjection
<1>6. \A a \in A : IsFiniteSet(a)
  BY <1>5
<1> HIDE DEF A
<1>7. IsFiniteSet(UNION A)
  BY <1>4, <1>6, FS_UNION
<1> QED BY <1>7 DEF A, Listeners

\* What is put on top of a stack.
LEMMA PushedStack ==
    ASSUME NEW s \in Seq(Screen), NEW t \in Seq(Screen)
    PROVE  /\ s \o t \in Seq(Screen) /\ Len(s \o t) = Len(s) + Len(t)
           /\ Len(s) \in Nat /\ Len(t) \in Nat
           /\ DOMAIN s = 1..Len(s) /\ DOMAIN t = 1..Len(t)
           /\ DOMAIN (s \o t) = 1..(Len(s) + Len(t))
           /\ \A i \in DOMAIN (s \o t) :
                 \/ i \in DOMAIN s /\ (s \o t)[i] = s[i]
                 \/ i - Len(s) \in DOMAIN t /\ (s \o t)[i] = t[i - Len(s)]
           /\ Len(t) > 0 => (s \o t)[Len(s) + Len(t)] = t[Len(t)]
           /\ Len(t) > 1 => (s \o t)[Len(s) + Len(t) - 1] = t[Len(t) - 1]
           /\ Len(t) = 1 /\ Len(s) > 0 => (s \o t)[Len(s) + Len(t) - 1] = s[Len(s)]
<1>1. /\ s \o t \in Seq(Screen) /\ Len(s \o t) = Len(s) + Len(t)
      /\ \A i \in 1..(Len(s) + Len(t)) :
            (s \o t)[i] = IF i <= Len(s) THEN s[i] ELSE t[i - Len(s)]
  BY ConcatProperties
<1>2. /\ Len(s) \in Nat /\ Len(t) \in Nat
      /\ DOMAIN s = 1..Len(s) /\ DOMAIN t = 1..Len(t)
  BY LenProperties
<1>3. DOMAIN (s \o t) = 1..(Len(s) + Len(t))
  BY <1>1, LenProperties
<1> DEFINE c == s \o t
           m == Len(s)
           n == Len(t)
<1> HIDE DEF c, m, n
<1>4. /\ m \in Nat /\ n \in Nat /\ DOMAIN s = 1..m /\ DOMAIN t = 1..n
      /\ \A i \in 1..(m + n) : c[i] = IF i <= m THEN s[i] ELSE t[i - m]
  BY <1>1, <1>2 DEF c, m, n
<1>5. ASSUME NEW i \in 1..(m + n)
      PROVE  \/ i \in DOMAIN s /\ c[i] = s[i]
             \/ i - m \in DOMAIN t /\ c[i] = t[i - m]
  <2>1. CASE i <= m
    BY <1>4, <2>1
  <2>2. CASE ~(i <= m)
    <3>1. i - m \in 1..n
      BY <1>4, <2>2
    <3> QED BY <1>4, <2>2, <3>1
  <2> QED BY <2>1, <2>2
<1>6. n > 0 => c[m + n] = t[n]
  <2>1. n > 0 => m + n \in 1..(m + n) /\ ~(m + n <= m) /\ (m + n) - m = n
    BY <1>4
  <2> QED BY <1>4, <2>1
<1>7. n > 1 => c[m + n - 1] = t[n - 1]
  <2>1. n > 1 => /\ m + n - 1 \in 1..(m + n) /\ ~(m + n - 1 <= m)
                 /\ (m + n - 1) - m = n - 1
    BY <1>4
  <2> QED BY <1>4, <2>1
<1>8. n = 1 /\ m > 0 => c[m + n - 1] = s[m]
  <2>1. n = 1 /\ m > 0 => m + n - 1 \in 1..(m + n) /\ m + n - 1 = m
    BY <1>4
  <2> QED BY <1>4, <2>1
<1> QED BY <1>1, <1>2, <1>3, <1>5, <1>6, <1>7, <1>8 DEF c, m, n

\* Screens that are opened: a login with a new listener, or no login.
LEMMA OpeningSettles ==
    ASSUME NEW s \in Seq(Screen), NEW t \in Seq(Screen), s # <<>>, t # <<>>,
           NEW u, NEW told, Settled(s, u, told),
           \A i \in DOMAIN t : t[i].kind = "login" => t[i].listeners = <<Fresh>>,
           t[Len(t)].kind = "register" => Len(t) = 1 /\ s[Len(s)].kind = "login"
    PROVE  s \o t \in Seq(Screen) /\ s \o t # <<>> /\ Settled(s \o t, u, told)
<1> DEFINE c == s \o t
           m == Len(s)
           n == Len(t)
<1>1. /\ c \in Seq(Screen) /\ Len(c) = m + n
      /\ m \in Nat /\ n \in Nat
      /\ DOMAIN s = 1..m /\ DOMAIN t = 1..n /\ DOMAIN c = 1..(m + n)
      /\ \A i \in DOMAIN c : \/ i \in DOMAIN s /\ c[i] = s[i]
                             \/ i - m \in DOMAIN t /\ c[i] = t[i - m]
      /\ n > 0 => c[m + n] = t[n]
      /\ n = 1 /\ m > 0 => c[m + n - 1] = s[m]
  BY PushedStack
<1>2. m > 0 /\ n > 0
  BY <1>1, EmptySeq
<1> HIDE DEF c, m, n
<1>3. c # <<>>
  <2>1. Len(c) > 0
    BY <1>1, <1>2
  <2> QED BY <2>1
<1>4. c[Len(c)] = t[n] /\ n \in DOMAIN t
  BY <1>1, <1>2
<1>5. t[n].kind = "login" => Awaits(t[n])
  <2>1. <<Fresh>> # <<>> /\ Len(<<Fresh>>) = 1 /\ <<Fresh>>[1] = Fresh
    OBVIOUS
  <2> QED BY <1>4, <2>1 DEF Awaits
<1>6. t[n].kind = "register" => Len(c) > 1 /\ Awaits(c[Len(c) - 1])
  <2> SUFFICES ASSUME t[n].kind = "register" PROVE Len(c) > 1 /\ Awaits(c[Len(c) - 1])
    OBVIOUS
  <2>1. n = 1 /\ s[m].kind = "login"
    BY DEF m, n
  <2>2. Awaits(s[m])
    BY <2>1 DEF Settled, m
  <2>3. c[Len(c) - 1] = s[m]
    BY <1>1, <1>2, <2>1
  <2> QED BY <1>1, <1>2, <2>1, <2>2, <2>3
<1>7. told => \A i \in DOMAIN c : c[i].kind = "login" =>
                 \A j \in DOMAIN c[i].listeners : c[i].listeners[j] \in {u, Fresh}
  <2> SUFFICES ASSUME told, NEW i \in DOMAIN c, c[i].kind = "login",
                      NEW j \in DOMAIN c[i].listeners
               PROVE  c[i].listeners[j] \in {u, Fresh}
    OBVIOUS
  <2>1. CASE i \in DOMAIN s /\ c[i] = s[i]
    BY <2>1 DEF Settled
  <2>2. CASE i - m \in DOMAIN t /\ c[i] = t[i - m]
    <3>1. c[i].listeners = <<Fresh>>
      BY <2>2
    <3> QED BY <3>1
  <2> QED BY <1>1, <2>1, <2>2
<1>8. Settled(c, u, told)
  BY <1>4, <1>5, <1>6, <1>7 DEF Settled
<1> QED BY <1>1, <1>3, <1>8 DEF c

\* Listeners that are called open a list each when somebody is signed in.
LEMMA CalledSettles ==
    ASSUME SessionInv, NEW d \in Devices, NEW told,
           Settled(stack[d], currentUser[d], notified[d]),
           NEW ls \in SUBSET Listeners(stack[d]),
           told => \A l \in Listeners(stack[d]) \ ls :
                       stack[d][l[1]].listeners[l[2]] \in {currentUser[d], Fresh}
    PROVE  /\ Called(d, ls) \in Seq(Screen) /\ Called(d, ls) # <<>>
           /\ Settled(Called(d, ls), currentUser[d], told)
<1>1. PICK s \in Seq(Screen) : s = stack[d] /\ s # <<>>
  BY DEF SessionInv, TypeOK
<1>2. PICK u \in Accounts \cup {NoUser} : u = currentUser[d]
  BY DEF SessionInv, TypeOK
<1> DEFINE said(i) == [j \in DOMAIN s[i].listeners |->
                          IF <<i, j>> \in ls THEN u ELSE s[i].listeners[j]]
           b == [i \in DOMAIN s |-> IF s[i].kind = "login" THEN Login(said(i)) ELSE s[i]]
           m == Len(s)
<1>3. m \in Nat /\ m > 0 /\ DOMAIN s = 1..m /\ \A i \in 1..m : s[i] \in Screen
  BY <1>1, LenProperties, EmptySeq, ElementOfSeq
<1>4. \A i \in 1..m : s[i].kind = "login" => said(i) \in Seq(Said)
  <2> SUFFICES ASSUME NEW i \in 1..m, s[i].kind = "login" PROVE said(i) \in Seq(Said)
    OBVIOUS
  <2>1. s[i].listeners \in Seq(Said)
    BY <1>3, ScreenFields
  <2>2. /\ Len(s[i].listeners) \in Nat
        /\ DOMAIN s[i].listeners = 1..Len(s[i].listeners)
        /\ \A j \in 1..Len(s[i].listeners) : s[i].listeners[j] \in Said
    BY <2>1, LenProperties, ElementOfSeq
  <2>3. said(i) \in [1..Len(s[i].listeners) -> Said]
    BY <2>2 DEF Said
  <2> QED BY <2>2, <2>3, SeqDef
<1>5. \A i \in 1..m : /\ b[i] \in Screen
                      /\ s[i].kind = "login" => b[i].kind = "login" /\ b[i].listeners = said(i)
                      /\ s[i].kind # "login" => b[i] = s[i]
  <2> SUFFICES ASSUME NEW i \in 1..m
               PROVE  /\ b[i] \in Screen
                      /\ s[i].kind = "login" => b[i].kind = "login" /\ b[i].listeners = said(i)
                      /\ s[i].kind # "login" => b[i] = s[i]
    OBVIOUS
  <2>1. b[i] = IF s[i].kind = "login" THEN Login(said(i)) ELSE s[i]
    BY <1>3
  <2> HIDE DEF b, said
  <2> QED BY <1>3, <1>4, <2>1, NewScreens
<1>6. b \in Seq(Screen) /\ Len(b) = m /\ DOMAIN b = 1..m
  <2>1. DOMAIN b = 1..m
    BY <1>3
  <2>2. b = [i \in 1..m |-> b[i]]
    BY <2>1
  <2> HIDE DEF b, said
  <2>3. b \in [1..m -> Screen]
    BY <1>5, <2>1, <2>2
  <2>4. b \in Seq(Screen)
    BY <1>3, <2>3, SeqDef
  <2>5. Len(b) \in Nat /\ DOMAIN b = 1..Len(b)
    BY <2>4, LenProperties
  <2> QED BY <1>3, <2>1, <2>4, <2>5
<1>7. \A i \in 1..m : s[i].kind = "login" =>
          /\ DOMAIN said(i) = DOMAIN s[i].listeners
          /\ Len(said(i)) = Len(s[i].listeners)
          /\ \A j \in DOMAIN s[i].listeners :
                said(i)[j] = IF <<i, j>> \in ls THEN u ELSE s[i].listeners[j]
  <2> SUFFICES ASSUME NEW i \in 1..m, s[i].kind = "login"
               PROVE  /\ DOMAIN said(i) = DOMAIN s[i].listeners
                      /\ Len(said(i)) = Len(s[i].listeners)
                      /\ \A j \in DOMAIN s[i].listeners :
                            said(i)[j] = IF <<i, j>> \in ls THEN u ELSE s[i].listeners[j]
    OBVIOUS
  <2>1. s[i].listeners \in Seq(Said) /\ said(i) \in Seq(Said)
    BY <1>3, <1>4, ScreenFields
  <2>2. DOMAIN said(i) = DOMAIN s[i].listeners
    OBVIOUS
  <2>3. /\ Len(said(i)) \in Nat /\ DOMAIN said(i) = 1..Len(said(i))
        /\ Len(s[i].listeners) \in Nat /\ DOMAIN s[i].listeners = 1..Len(s[i].listeners)
    <3> HIDE DEF said
    <3> QED BY <2>1, LenProperties
  <2>4. Len(said(i)) = Len(s[i].listeners)
    <3> HIDE DEF said, b, m
    <3>1. PICK p \in Nat : p = Len(said(i))
      BY <2>3
    <3>2. PICK q \in Nat : q = Len(s[i].listeners)
      BY <2>3
    <3>3. 1..p = 1..q
      BY <2>2, <2>3, <3>1, <3>2
    <3>4. p = q
      BY <3>3
    <3> QED BY <3>1, <3>2, <3>4
  <2> QED BY <2>2, <2>4
<1>8. told => \A i \in 1..m : b[i].kind = "login" =>
                  \A j \in DOMAIN b[i].listeners : b[i].listeners[j] \in {u, Fresh}
  <2> SUFFICES ASSUME told, NEW i \in 1..m, b[i].kind = "login",
                      NEW j \in DOMAIN b[i].listeners
               PROVE  b[i].listeners[j] \in {u, Fresh}
    OBVIOUS
  <2>1. s[i].kind = "login" /\ b[i].listeners = said(i)
    BY <1>5
  <2> HIDE DEF b, said
  <2>2. j \in DOMAIN s[i].listeners
    BY <1>7, <2>1
  <2>3. CASE <<i, j>> \in ls
    BY <1>7, <2>1, <2>2, <2>3
  <2>4. CASE <<i, j>> \notin ls
    <3>1. <<i, j>> \in Listeners(s)
      BY <1>3, <2>1, <2>2 DEF Listeners
    <3>2. s[i].listeners[j] \in {u, Fresh}
      BY <1>1, <1>2, <2>4, <3>1
    <3> QED BY <1>7, <2>1, <2>2, <2>4, <3>2
  <2> QED BY <2>3, <2>4
<1>9. ls = {} \/ u = NoUser =>
          \A i \in 1..m : Awaits(s[i]) => Awaits(b[i])
  <2> SUFFICES ASSUME ls = {} \/ u = NoUser, NEW i \in 1..m, Awaits(s[i])
               PROVE  Awaits(b[i])
    OBVIOUS
  <2>1. s[i].kind = "login" /\ b[i].kind = "login" /\ b[i].listeners = said(i)
    BY <1>5 DEF Awaits
  <2>2. /\ s[i].listeners \in Seq(Said) /\ s[i].listeners # <<>>
        /\ s[i].listeners[Len(s[i].listeners)] \in {Fresh, NoUser}
    BY <1>3, <2>1, ScreenFields DEF Awaits
  <2> DEFINE k == Len(s[i].listeners)
  <2>3. k \in Nat /\ k > 0 /\ k \in DOMAIN s[i].listeners
    BY <2>2, LenProperties, EmptySeq
  <2> HIDE DEF b, said, k
  <2>4. said(i)[k] \in {Fresh, NoUser} /\ Len(said(i)) = k
    BY <1>7, <2>1, <2>2, <2>3 DEF k
  <2>5. said(i) # <<>>
    BY <2>3, <2>4
  <2> QED BY <2>1, <2>4, <2>5 DEF Awaits
<1>10. Settled(s, u, notified[d])
  BY <1>1, <1>2
<1> DEFINE n == Cardinality(ls)
           t == [i \in 1..n |-> List(u)]
<1>11. n \in Nat /\ (n = 0 <=> ls = {})
  <2>1. IsFiniteSet(Listeners(stack[d]))
    BY <1>1, ListenersFinite
  <2>2. IsFiniteSet(ls)
    BY <2>1, FS_Subset
  <2> QED BY <2>2, FS_CardinalityType, FS_EmptySet
<1>12. Called(d, ls) = b \o IF u = NoUser THEN <<>> ELSE t
  BY <1>1, <1>2 DEF Called
<1>13. CASE u = NoUser
  <2>1. Called(d, ls) = b \o <<>>
    BY <1>12, <1>13
  <2> HIDE DEF b, said
  <2>2. Called(d, ls) = b
    BY <1>6, <2>1, ConcatEmptySeq
  <2>3. b # <<>>
    BY <1>3, <1>6
  <2>4. Settled(b, u, told)
    <3>1. /\ b[m].kind = s[m].kind /\ m \in 1..m
          /\ m > 1 => m - 1 \in 1..m
      BY <1>3, <1>5
    <3>2. s[m].kind = "login" => Awaits(b[m])
      BY <1>9, <1>10, <1>13, <3>1 DEF Settled, m
    <3>3. s[m].kind = "register" => m > 1 /\ Awaits(b[m - 1])
      BY <1>9, <1>10, <1>13, <3>1 DEF Settled, m
    <3> HIDE DEF m
    <3> QED BY <1>6, <1>8, <3>1, <3>2, <3>3 DEF Settled
  <2> QED BY <1>2, <1>6, <2>2, <2>3, <2>4
<1>14. CASE u # NoUser
  <2>1. Called(d, ls) = b \o t
    BY <1>12, <1>14
  <2>2. t \in Seq(Screen) /\ Len(t) = n /\ \A i \in 1..n : t[i] = List(u)
    <3>1. List(u) \in Screen
      BY NewScreens
    <3>2. t \in [1..n -> Screen]
      BY <3>1
    <3>3. DOMAIN t = 1..n
      OBVIOUS
    <3> HIDE DEF n, t
    <3>4. t \in Seq(Screen)
      BY <1>11, <3>2, SeqDef
    <3>5. Len(t) \in Nat /\ DOMAIN t = 1..Len(t)
      BY <3>4, LenProperties
    <3>6. Len(t) = n
      BY <1>11, <3>3, <3>5
    <3> QED BY <3>4, <3>6 DEF t
  <2> HIDE DEF b, said, n, t
  <2> DEFINE c == b \o t
  <2>3. /\ c \in Seq(Screen) /\ Len(c) = m + n
        /\ DOMAIN t = 1..n /\ DOMAIN c = 1..(m + n)
        /\ \A i \in DOMAIN c : \/ i \in DOMAIN b /\ c[i] = b[i]
                               \/ i - m \in DOMAIN t /\ c[i] = t[i - m]
        /\ n > 0 => c[m + n] = t[n]
    <3>1. /\ c \in Seq(Screen) /\ Len(c) = Len(b) + Len(t)
          /\ DOMAIN t = 1..Len(t)
          /\ DOMAIN c = 1..(Len(b) + Len(t))
          /\ \A i \in DOMAIN c : \/ i \in DOMAIN b /\ c[i] = b[i]
                                 \/ i - Len(b) \in DOMAIN t /\ c[i] = t[i - Len(b)]
          /\ Len(t) > 0 => c[Len(b) + Len(t)] = t[Len(t)]
      BY <1>6, <2>2, PushedStack
    <3> QED BY <1>6, <2>2, <3>1
  <2> HIDE DEF c
  <2>4. c # <<>>
    BY <1>3, <1>11, <2>3
  <2>5. List(u).kind = "list"
    BY NewScreens
  <2>6. told => \A i \in DOMAIN c : c[i].kind = "login" =>
                    \A j \in DOMAIN c[i].listeners : c[i].listeners[j] \in {u, Fresh}
    BY <1>6, <1>8, <2>2, <2>3, <2>5
  <2>7. CASE n > 0
    <3>1. c[Len(c)].kind = "list"
      BY <1>11, <2>2, <2>3, <2>5, <2>7
    <3>2. Settled(c, u, told)
      BY <2>6, <3>1 DEF Settled
    <3> QED BY <1>2, <2>1, <2>3, <2>4, <3>2 DEF c
  <2>8. CASE n = 0
    <3>1. ls = {}
      BY <1>11, <2>8
    <3>2. t = <<>>
      BY <2>2, <2>8
    <3>3. c = b
      BY <1>6, <3>2, ConcatEmptySeq DEF c
    <3>4. /\ b[m].kind = s[m].kind /\ m \in 1..m
          /\ m > 1 => m - 1 \in 1..m
      BY <1>3, <1>5
    <3>5. s[m].kind = "login" => Awaits(b[m])
      BY <1>9, <1>10, <3>1, <3>4 DEF Settled, m
    <3>6. s[m].kind = "register" => m > 1 /\ Awaits(b[m - 1])
      BY <1>9, <1>10, <3>1, <3>4 DEF Settled, m
    <3>7. Settled(b, u, told)
      <4> HIDE DEF m
      <4> QED BY <1>6, <1>8, <3>4, <3>5, <3>6 DEF Settled
    <3> QED BY <1>2, <2>1, <2>3, <2>4, <3>3, <3>7 DEF c
  <2> QED BY <1>11, <2>7, <2>8
<1> QED BY <1>13, <1>14

\* The screens of one phone change.
LEMMA ScreensMove ==
    ASSUME SessionInv, NEW d \in Devices, NEW s \in Seq(Screen), s # <<>>,
           stack' = [stack EXCEPT ![d] = s],
           UNCHANGED <<alive, requests, asked, kills, server>>,
           currentUser' \in [Devices -> registered \cup {NoUser}],
           notified' \in [Devices -> BOOLEAN],
           \A c \in Devices : c # d => /\ currentUser'[c] = currentUser[c]
                                       /\ notified'[c] = notified[c],
           alive[d] => Settled(s, currentUser'[d], notified'[d])
    PROVE  SessionInv'
<1>1. /\ stack' \in [Devices -> Seq(Screen)]
      /\ stack'[d] = s
      /\ \A c \in Devices : c # d => stack'[c] = stack[c]
  BY DEF SessionInv, TypeOK
<1>2. \A c \in Devices : stack'[c] # <<>>
  BY <1>1 DEF SessionInv, TypeOK
<1>3. TypeOK'
  BY <1>1, <1>2 DEF SessionInv, TypeOK, server
<1>4. ASSUME NEW c \in Devices, alive'[c]
      PROVE  Settled(stack'[c], currentUser'[c], notified'[c])
  <2>1. CASE c = d
    BY <1>1, <1>4, <2>1
  <2>2. CASE c # d
    BY <1>1, <1>4, <2>2 DEF SessionInv
  <2> QED BY <2>1, <2>2
<1> QED BY <1>3, <1>4 DEF SessionInv

\* The screens stay, and accounts change only with a notification to come.
LEMMA ScreensStay ==
    ASSUME SessionInv, TypeOK', UNCHANGED stack,
           \A c \in Devices : alive'[c] =>
               /\ alive[c]
               /\ \/ currentUser'[c] = currentUser[c] /\ notified'[c] = notified[c]
                  \/ ~notified'[c]
    PROVE  SessionInv'
BY DEF SessionInv, Settled

\* The auth listener of a login screen is called (addStateDidChangeListener):
\* it opens the list or stays.
LEMMA NotifySession ==
    ASSUME SessionInv, NEW d \in Devices, Notify(d)
    PROVE  SessionInv'
<1>1. /\ alive[d] /\ notified' = [notified EXCEPT ![d] = TRUE]
      /\ stack' = [stack EXCEPT ![d] = Called(d, Heard(d))]
      /\ UNCHANGED <<alive, currentUser, requests, asked, kills, server>>
  BY DEF Notify
<1>2. /\ Heard(d) \in SUBSET Listeners(stack[d])
      /\ \A l \in Listeners(stack[d]) \ Heard(d) :
             stack[d][l[1]].listeners[l[2]] \in {currentUser[d], Fresh}
  BY DEF Heard
<1>3. Settled(stack[d], currentUser[d], notified[d])
  BY <1>1 DEF SessionInv
<1>4. /\ notified' \in [Devices -> BOOLEAN]
      /\ \A c \in Devices : c # d => notified'[c] = notified[c]
      /\ currentUser' \in [Devices -> registered \cup {NoUser}]
  BY <1>1 DEF SessionInv, TypeOK
<1>5. ASSUME NEW told, told = notified'[d] PROVE SessionInv'
  <2>1. /\ Called(d, Heard(d)) \in Seq(Screen) /\ Called(d, Heard(d)) # <<>>
        /\ Settled(Called(d, Heard(d)), currentUser[d], told)
    BY <1>2, <1>3, CalledSettles
  <2>2. PICK s : s = Called(d, Heard(d))
    OBVIOUS
  <2>3. s \in Seq(Screen) /\ s # <<>> /\ Settled(s, currentUser'[d], notified'[d])
    BY <1>1, <1>5, <2>1, <2>2
  <2>4. stack' = [stack EXCEPT ![d] = s]
    BY <1>1, <2>2
  <2> QED BY <1>1, <1>4, <2>3, <2>4, ScreensMove
<1> QED BY <1>5

\* The first call of a listener, made when it was added.
LEMMA NotifyFreshSession ==
    ASSUME SessionInv, NEW d \in Devices, NEW l \in Listeners(stack[d]), NotifyFresh(d, l)
    PROVE  SessionInv'
<1>1. /\ alive[d]
      /\ stack[d][l[1]].listeners[l[2]] = Fresh
      /\ stack' = [stack EXCEPT ![d] = Called(d, {l})]
      /\ UNCHANGED <<alive, currentUser, notified, requests, asked, kills, server>>
  BY DEF NotifyFresh
<1>2. Settled(stack[d], currentUser[d], notified[d])
  BY <1>1 DEF SessionInv
<1>3. /\ notified' \in [Devices -> BOOLEAN]
      /\ \A c \in Devices : c # d => notified'[c] = notified[c]
      /\ currentUser' \in [Devices -> registered \cup {NoUser}]
  BY <1>1 DEF SessionInv, TypeOK
<1>4. ASSUME NEW told, told = notified[d] PROVE SessionInv'
  <2>1. told => \A k \in Listeners(stack[d]) \ {l} :
                    stack[d][k[1]].listeners[k[2]] \in {currentUser[d], Fresh}
    BY <1>2, <1>4 DEF Settled, Listeners
  <2>2. /\ Called(d, {l}) \in Seq(Screen) /\ Called(d, {l}) # <<>>
        /\ Settled(Called(d, {l}), currentUser[d], told)
    BY <1>2, <2>1, CalledSettles
  <2>3. PICK s : s = Called(d, {l})
    OBVIOUS
  <2>4. s \in Seq(Screen) /\ s # <<>> /\ Settled(s, currentUser'[d], notified'[d])
    BY <1>1, <1>4, <2>2, <2>3
  <2>5. stack' = [stack EXCEPT ![d] = s]
    BY <1>1, <2>3
  <2> QED BY <1>1, <1>3, <2>4, <2>5, ScreensMove
<1> QED BY <1>4

\* The user opens a screen; signing out opens a login.
LEMMA OpenSession ==
    ASSUME SessionInv, NEW d \in Devices,
           OpenRegister(d) \/ OpenLogin(d) \/ OpenNewMessage(d) \/ Cancel(d) \/ Logout(d)
    PROVE  SessionInv'
<1>1. PICK s \in Seq(Screen) : s = stack[d] /\ s # <<>>
  BY DEF SessionInv, TypeOK
<1>2. PICK u \in Accounts \cup {NoUser} : u = currentUser[d]
  BY DEF SessionInv, TypeOK
<1>3. Top(d) = s[Len(s)]
  BY <1>1 DEF Top, Last
<1> DEFINE Opens(t) == /\ t \in Seq(Screen) /\ t # <<>>
                       /\ \A i \in DOMAIN t :
                             t[i].kind = "login" => t[i].listeners = <<Fresh>>
                       /\ t[Len(t)].kind = "register" =>
                             Len(t) = 1 /\ s[Len(s)].kind = "login"
<1>4. ASSUME NEW x \in Screen, x.kind = "login" => x.listeners = <<Fresh>>,
             x.kind = "register" => s[Len(s)].kind = "login"
      PROVE  Opens(<<x>>)
  BY <1>4
<1>5. /\ Login(<<Fresh>>) \in Screen /\ Login(<<Fresh>>).kind = "login"
      /\ Login(<<Fresh>>).listeners = <<Fresh>>
      /\ List(u) \in Screen /\ List(u).kind = "list"
      /\ Other("register") \in Screen /\ Other("register").kind = "register"
      /\ Other("newmessage") \in Screen /\ Other("newmessage").kind = "newmessage"
  BY NewScreens
<1>6. Opens(<<Login(<<Fresh>>)>>)
  BY <1>4, <1>5
<1>7. Opens(<<Other("newmessage")>>)
  BY <1>4, <1>5
<1>8. s[Len(s)].kind = "login" => Opens(<<Other("register")>>)
  BY <1>4, <1>5
<1>9. Opens(ListFor(u))
  <2>1. CASE u = NoUser
    <3>1. PICK x \in Screen : x = List(u) /\ x.kind = "list"
      BY <1>5
    <3>2. PICK y \in Screen : y = Login(<<Fresh>>) /\ y.kind = "login" /\ y.listeners = <<Fresh>>
      BY <1>5
    <3>3. Opens(<<x, y>>)
      BY <3>1, <3>2
    <3>4. ListFor(u) = <<x, y>>
      BY <2>1, <3>1, <3>2 DEF ListFor
    <3> HIDE DEF Opens
    <3> QED BY <3>3, <3>4
  <2>2. CASE u # NoUser
    <3>1. Opens(<<List(u)>>)
      BY <1>4, <1>5
    <3>2. ListFor(u) = <<List(u)>>
      BY <2>2 DEF ListFor
    <3> HIDE DEF Opens
    <3> QED BY <3>1, <3>2
  <2> QED BY <2>1, <2>2
<1> HIDE DEF Opens
<1>10. ASSUME NEW t, Opens(t), Open(d, t),
              UNCHANGED <<alive, requests, asked, kills, server>>,
              \/ UNCHANGED <<currentUser, notified>>
              \/ /\ currentUser' = [currentUser EXCEPT ![d] = NoUser]
                 /\ notified' = [notified EXCEPT ![d] = @ /\ currentUser[d] = NoUser]
       PROVE  SessionInv'
  <2>1. PICK c : c = s \o t
    OBVIOUS
  <2>2. alive[d] /\ stack' = [stack EXCEPT ![d] = c]
    BY <1>1, <1>10, <2>1 DEF Open
  <2>3. Settled(s, u, notified[d])
    BY <1>1, <1>2, <2>2 DEF SessionInv
  <2>4. c \in Seq(Screen) /\ c # <<>> /\ Settled(c, u, notified[d])
    BY <1>1, <1>10, <2>1, <2>3, OpeningSettles DEF Opens
  <2>5. CASE UNCHANGED <<currentUser, notified>>
    BY <1>2, <1>10, <2>2, <2>4, <2>5, ScreensMove DEF SessionInv, TypeOK
  <2>6. CASE /\ currentUser' = [currentUser EXCEPT ![d] = NoUser]
             /\ notified' = [notified EXCEPT ![d] = @ /\ currentUser[d] = NoUser]
    <3>1. /\ currentUser' \in [Devices -> registered \cup {NoUser}]
          /\ \A e \in Devices : e # d => /\ currentUser'[e] = currentUser[e]
                                         /\ notified'[e] = notified[e]
          /\ currentUser'[d] = NoUser
      BY <2>6 DEF SessionInv, TypeOK
    <3>2. notified' \in [Devices -> BOOLEAN]
      BY <2>6 DEF SessionInv, TypeOK
    <3>3. notified'[d] => notified[d] /\ u = NoUser
      BY <1>2, <2>6 DEF SessionInv, TypeOK
    <3>4. Settled(c, NoUser, notified'[d])
      BY <2>4, <3>3 DEF Settled
    <3> QED BY <1>10, <2>2, <2>4, <3>1, <3>2, <3>4, ScreensMove
  <2> QED BY <1>10, <2>5, <2>6
<1>11. CASE OpenRegister(d)
  BY <1>3, <1>8, <1>10, <1>11 DEF OpenRegister
<1>12. CASE OpenLogin(d)
  BY <1>6, <1>10, <1>12 DEF OpenLogin
<1>13. CASE OpenNewMessage(d)
  BY <1>7, <1>10, <1>13 DEF OpenNewMessage
<1>14. CASE Cancel(d)
  BY <1>2, <1>9, <1>10, <1>14 DEF Cancel
<1>15. CASE Logout(d)
  BY <1>6, <1>10, <1>15 DEF Logout
<1> QED BY <1>11, <1>12, <1>13, <1>14, <1>15

\* Going back from a registration, the login below hears of any account.
LEMMA LeaveRegisterSession ==
    ASSUME SessionInv, NEW d \in Devices, LeaveRegister(d)
    PROVE  SessionInv'
<1>1. PICK s \in Seq(Screen) : s = stack[d] /\ s # <<>>
  BY DEF SessionInv, TypeOK
<1> DEFINE m == Len(s) - 1
           said == s[m].listeners
           x == Login(Append(said, Fresh))
           kept == SubSeq(s, 1, m - 1)
<1>2. /\ alive[d] /\ s[Len(s)].kind = "register"
      /\ stack' = [stack EXCEPT ![d] = Append(kept, x)]
      /\ UNCHANGED <<alive, currentUser, notified, requests, asked, kills, server>>
  BY <1>1 DEF LeaveRegister, Top, Last
<1>3. Settled(s, currentUser[d], notified[d])
  BY <1>1, <1>2 DEF SessionInv
<1>4. Len(s) > 1 /\ s[m].kind = "login"
  BY <1>2, <1>3 DEF Settled, Awaits
<1>5. /\ Len(s) \in Nat /\ DOMAIN s = 1..Len(s)
      /\ \A i \in 1..Len(s) : s[i] \in Screen
  BY LenProperties, ElementOfSeq
<1>6. m \in Nat /\ m \in 1..Len(s) /\ m - 1 \in Nat /\ m - 1 <= Len(s)
  BY <1>4, <1>5
<1>7. said \in Seq(Said)
  BY <1>4, <1>5, <1>6, ScreenFields
<1>8. /\ Append(said, Fresh) \in Seq(Said)
      /\ Len(said) \in Nat
      /\ Len(Append(said, Fresh)) = Len(said) + 1
      /\ Append(said, Fresh)[Len(said) + 1] = Fresh
      /\ Append(said, Fresh) # <<>>
      /\ \A j \in DOMAIN Append(said, Fresh) :
            \/ j \in DOMAIN said /\ Append(said, Fresh)[j] = said[j]
            \/ Append(said, Fresh)[j] = Fresh
  <2>1. Fresh \in Said
    BY DEF Said
  <2> HIDE DEF said
  <2> QED BY <1>7, <2>1, AppendProperties, LenProperties
<1>9. x \in Screen /\ x.kind = "login" /\ x.listeners = Append(said, Fresh)
  BY <1>8, NewScreens
<1>10. Awaits(x)
  BY <1>8, <1>9 DEF Awaits
<1>11. /\ kept \in Seq(Screen) /\ Len(kept) = m - 1
       /\ \A i \in 1..(m - 1) : kept[i] = s[i]
  <2>1. \A i \in 1..(m - 1) : s[i] \in Screen
    BY <1>5, <1>6
  <2>2. 1 \in Int /\ m - 1 \in Int
    BY <1>6
  <2>3. /\ kept \in Seq(Screen)
        /\ Len(kept) = IF 1 <= m - 1 THEN (m - 1) - 1 + 1 ELSE 0
        /\ \A i \in 1..((m - 1) - 1 + 1) : kept[i] = s[1 + i - 1]
    BY <2>1, <1>5, <1>6, SubSeqProperties
  <2> QED BY <1>5, <1>6, <2>3
<1> DEFINE c == Append(kept, x)
<1> HIDE DEF kept, x, said
<1>12. /\ c \in Seq(Screen) /\ Len(c) = m /\ c[m] = x /\ DOMAIN c = 1..m
       /\ \A i \in 1..m : i = m \/ (i \in 1..(m - 1) /\ c[i] = kept[i])
  BY <1>6, <1>9, <1>11, AppendProperties, LenProperties
<1>13. c # <<>>
  <2>1. m > 0
    BY <1>4, <1>5
  <2> HIDE DEF c, m
  <2>2. m \in DOMAIN c
    BY <1>6, <1>12, <2>1
  <2> QED BY <2>2
<1>14. notified[d] => \A i \in DOMAIN c : c[i].kind = "login" =>
           \A j \in DOMAIN c[i].listeners : c[i].listeners[j] \in {currentUser[d], Fresh}
  <2> SUFFICES ASSUME notified[d], NEW i \in 1..m, c[i].kind = "login",
                      NEW j \in DOMAIN c[i].listeners
               PROVE  c[i].listeners[j] \in {currentUser[d], Fresh}
    BY <1>12
  <2>1. CASE i = m
    <3>1. c[i].listeners = Append(said, Fresh)
      BY <1>9, <1>12, <2>1
    <3>2. \A k \in DOMAIN said : said[k] \in {currentUser[d], Fresh}
      BY <1>3, <1>4, <1>5, <1>6 DEF Settled, said
    <3> QED BY <1>8, <3>1, <3>2
  <2>2. CASE i \in 1..(m - 1) /\ c[i] = kept[i]
    <3>1. c[i] = s[i] /\ i \in DOMAIN s
      BY <1>5, <1>6, <1>11, <2>2
    <3> QED BY <1>3, <3>1 DEF Settled
  <2> QED BY <1>12, <2>1, <2>2
<1>15. c[Len(c)] = x
  BY <1>12
<1>16. Settled(c, currentUser[d], notified[d])
  BY <1>9, <1>10, <1>14, <1>15 DEF Settled
<1> HIDE DEF c
<1>17. PICK r : r = c
  OBVIOUS
<1>18. /\ r \in Seq(Screen) /\ r # <<>> /\ stack' = [stack EXCEPT ![d] = r]
       /\ Settled(r, currentUser'[d], notified'[d])
  BY <1>2, <1>12, <1>13, <1>16, <1>17 DEF c
<1>19. /\ currentUser' \in [Devices -> registered \cup {NoUser}]
       /\ notified' \in [Devices -> BOOLEAN]
  BY <1>2 DEF SessionInv, TypeOK
<1> QED BY <1>2, <1>18, <1>19, ScreensMove

\* A request has the fields of its step, and the next upload of a registration
\* is a request for the same account (handleregister).
LEMMA RequestTyped ==
    ASSUME NEW r \in Request
    PROVE  /\ r.id \in 1..MaxRequests /\ r.device \in Devices /\ r.email \in Accounts
           /\ r.step \in {"signIn", "create", "put", "url", "set"}
           /\ r.step \in {"put", "url", "set"} => r.avatar \in Accounts
           /\ \A path \in Accounts, step \in {"put", "url", "set"} :
                 /\ Upload(r, path, step) \in Request
                 /\ Upload(r, path, step).email = r.email
BY DEF Request, Upload

\* A tap on login or register sends a request and moves no screen.
LEMMA AskSession ==
    ASSUME SessionInv, NEW d \in Devices, NEW e \in Accounts,
           Ask(d, e, "login", "signIn") \/ Ask(d, e, "register", "create")
    PROVE  SessionInv'
<1>1. /\ asked < MaxRequests /\ asked' = asked + 1
      /\ UNCHANGED <<alive, session, kills, server>>
  BY DEF Ask
<1>2. asked' \in 1..MaxRequests /\ asked' \in 0..MaxRequests
  BY <1>1, BoundsAssumption DEF SessionInv, TypeOK
<1>3. PICK step \in {"signIn", "create"} :
          requests' = requests \cup {[id |-> asked', device |-> d, email |-> e, step |-> step]}
  BY DEF Ask
<1>4. PICK r : r = [id |-> asked', device |-> d, email |-> e, step |-> step]
  OBVIOUS
<1>5. r \in Request /\ r.step = step
  BY <1>2, <1>4 DEF Request
<1>6. requests' \subseteq Request
      /\ \A q \in requests' : q.step \in {"put", "url", "set"} => q.email \in registered
  BY <1>3, <1>4, <1>5 DEF SessionInv, TypeOK
<1>7. TypeOK'
  BY <1>1, <1>2, <1>6 DEF SessionInv, TypeOK, session, server
<1> QED BY <1>1, <1>7, ScreensStay DEF session

\* Sending a message moves no screen.
LEMMA SendSession ==
    ASSUME SessionInv, NEW d \in Devices, NEW p \in Accounts, Send(d, p)
    PROVE  SessionInv'
<1>1. PICK e : e = currentUser[d]
  OBVIOUS
<1>2. /\ e \in Accounts
      /\ listed' = [[listed EXCEPT ![e] = @ \cup {p}] EXCEPT ![p] = @ \cup {e}]
      /\ UNCHANGED <<alive, session, requests, asked, kills, registered, avatars, profile>>
  BY <1>1 DEF Send, SessionInv, TypeOK
<1>3. [listed EXCEPT ![e] = @ \cup {p}] \in [Accounts -> SUBSET Accounts]
  BY <1>2 DEF SessionInv, TypeOK
<1>4. listed' \in [Accounts -> SUBSET Accounts]
  BY <1>2, <1>3
<1>5. TypeOK'
  BY <1>2, <1>4 DEF SessionInv, TypeOK, session
<1> QED BY <1>2, <1>5, ScreensStay DEF session

\* A process that ended has no screen a user could be left at.
LEMMA EndedSession ==
    ASSUME SessionInv, NEW d \in Devices,
           Kill(d) \/ \E p \in Accounts : RowCrash(d, p)
    PROVE  SessionInv'
<1>1. /\ alive' = [alive EXCEPT ![d] = FALSE]
      /\ requests' \subseteq requests
      /\ UNCHANGED <<session, asked, server>>
      /\ kills' = kills \/ (kills < MaxKills /\ kills' = kills + 1)
  BY DEF Kill, RowCrash, Ended
<1>2. kills' \in 0..MaxKills
  BY <1>1, BoundsAssumption DEF SessionInv, TypeOK
<1>3. /\ alive' \in [Devices -> BOOLEAN]
      /\ \A c \in Devices : alive'[c] => alive[c]
  BY <1>1 DEF SessionInv, TypeOK
<1>4. TypeOK'
  BY <1>1, <1>2, <1>3 DEF SessionInv, TypeOK, session, server
<1> QED BY <1>1, <1>3, <1>4, ScreensStay DEF session

\* The server revokes a session: no screen moves.
LEMMA RevokeSessionSession ==
    ASSUME SessionInv, NEW d \in Devices, RevokeSession(d)
    PROVE  SessionInv'
<1>1. /\ kills < MaxKills /\ kills' = kills + 1
      /\ currentUser' = [currentUser EXCEPT ![d] = NoUser]
      /\ notified' = [notified EXCEPT ![d] = FALSE]
      /\ UNCHANGED <<alive, stack, requests, asked, server>>
  BY DEF RevokeSession, BecomeCurrent
<1>2. kills' \in 0..MaxKills
  BY <1>1, BoundsAssumption DEF SessionInv, TypeOK
<1>3. TypeOK'
  BY <1>1, <1>2 DEF SessionInv, TypeOK, server
<1>4. \A c \in Devices : \/ currentUser'[c] = currentUser[c] /\ notified'[c] = notified[c]
                         \/ ~notified'[c]
  BY <1>1 DEF SessionInv, TypeOK
<1> QED BY <1>1, <1>3, <1>4, ScreensStay

\* The app is started again: one login screen with a fresh listener.
LEMMA RelaunchSession ==
    ASSUME SessionInv, NEW d \in Devices, Relaunch(d)
    PROVE  SessionInv'
<1>1. PICK x \in Screen : /\ x = Login(<<Fresh>>) /\ x.kind = "login"
                          /\ x.listeners = <<Fresh>>
  BY NewScreens
<1>2. /\ alive' = [alive EXCEPT ![d] = TRUE]
      /\ notified' = [notified EXCEPT ![d] = TRUE]
      /\ stack' = [stack EXCEPT ![d] = <<x>>]
      /\ requests' \subseteq requests
      /\ UNCHANGED <<currentUser, asked, kills, server>>
  BY <1>1 DEF Relaunch
<1>3. /\ <<x>> \in Seq(Screen) /\ <<x>> # <<>> /\ Len(<<x>>) = 1 /\ <<x>>[1] = x
      /\ DOMAIN <<x>> = {1}
  OBVIOUS
<1>4. Awaits(x)
  BY <1>1, FreshAwaits
<1>5. \A u : Settled(<<x>>, u, TRUE)
  BY <1>1, <1>3, <1>4 DEF Settled
<1>6. /\ stack' \in [Devices -> Seq(Screen)]
      /\ \A c \in Devices : c # d => stack'[c] = stack[c]
      /\ stack'[d] = <<x>>
  BY <1>2, <1>3 DEF SessionInv, TypeOK
<1>7. \A c \in Devices : stack'[c] # <<>>
  BY <1>3, <1>6 DEF SessionInv, TypeOK
<1>8. TypeOK'
  BY <1>2, <1>6, <1>7 DEF SessionInv, TypeOK, server
<1>9. ASSUME NEW c \in Devices, alive'[c]
      PROVE  Settled(stack'[c], currentUser'[c], notified'[c])
  <2>1. CASE c = d
    <3>1. \A told : Settled(<<x>>, currentUser[d], told)
      BY <1>5 DEF Settled
    <3> QED BY <1>2, <1>6, <2>1, <3>1
  <2>2. CASE c # d
    BY <1>2, <1>6, <1>9, <2>2 DEF SessionInv, TypeOK
  <2> QED BY <2>1, <2>2
<1> QED BY <1>8, <1>9 DEF SessionInv

\* An answer changes the account with a notification to come, or no account.
LEMMA AnswerSession ==
    ASSUME SessionInv, NEW r \in requests, Answer(r)
    PROVE  SessionInv'
<1>1. /\ r \in Request /\ r.device \in Devices /\ r.email \in Accounts
      /\ r.step \in {"put", "url", "set"} => r.avatar \in Accounts /\ r.email \in registered
      /\ \A path \in Accounts, step \in {"put", "url", "set"} :
            /\ Upload(r, path, step) \in Request
            /\ Upload(r, path, step).email = r.email
  BY RequestTyped DEF SessionInv, TypeOK
<1>2. UNCHANGED <<alive, stack, asked, kills, listed>>
  BY DEF Answer, SignInDone, RequestFailed, PutDataDone, DownloadURLDone, ProfileStored,
         CreateUserDone, session, server
<1>3. /\ registered \subseteq registered' /\ registered' \subseteq Accounts
      /\ avatars' \subseteq Accounts
  BY <1>1 DEF Answer, SignInDone, RequestFailed, PutDataDone, DownloadURLDone, ProfileStored,
              CreateUserDone, session, server, SessionInv, TypeOK
<1>4. profile' \in [Accounts -> [email : Accounts, avatar : Accounts] \cup {NoProfile}]
  <2>1. CASE ProfileStored(r)
    <3>1. PICK p \in [email : Accounts, avatar : Accounts] :
              profile' = [profile EXCEPT ![r.email] = p]
      BY <1>1, <2>1 DEF ProfileStored
    <3> QED BY <3>1 DEF SessionInv, TypeOK
  <2>2. CASE UNCHANGED profile
    BY <2>2 DEF SessionInv, TypeOK
  <2> QED BY <2>1, <2>2 DEF Answer, SignInDone, RequestFailed, PutDataDone,
                            DownloadURLDone, CreateUserDone, server
<1>5. /\ requests' \subseteq Request
      /\ \A q \in requests' : q.step \in {"put", "url", "set"} => q.email \in registered'
  <2>1. CASE SignInDone(r) \/ RequestFailed(r) \/ ProfileStored(r)
    <3>1. requests' \subseteq requests
      BY <2>1 DEF SignInDone, RequestFailed, ProfileStored
    <3> QED BY <1>3, <3>1 DEF SessionInv, TypeOK
  <2>2. CASE \/ PutDataDone(r) \/ DownloadURLDone(r)
             \/ \E path \in Accounts : CreateUserDone(r, path)
    <3>1. PICK path \in Accounts, step \in {"put", "url", "set"} :
              /\ requests' = (requests \ {r}) \cup {Upload(r, path, step)}
              /\ r.email \in registered'
      BY <1>1, <2>2 DEF PutDataDone, DownloadURLDone, CreateUserDone, server
    <3> QED BY <1>1, <1>3, <3>1 DEF SessionInv, TypeOK
  <2> QED BY <2>1, <2>2 DEF Answer
<1>6. /\ currentUser' \in [Devices -> registered' \cup {NoUser}]
      /\ notified' \in [Devices -> BOOLEAN]
      /\ \A c \in Devices : \/ currentUser'[c] = currentUser[c] /\ notified'[c] = notified[c]
                            \/ ~notified'[c]
  <2>1. CASE UNCHANGED <<currentUser, notified>>
    BY <1>3, <2>1 DEF SessionInv, TypeOK
  <2>2. CASE BecomeCurrent(r.device, r.email) /\ r.email \in registered'
    BY <1>1, <1>3, <2>2 DEF BecomeCurrent, SessionInv, TypeOK
  <2> QED BY <2>1, <2>2 DEF Answer, SignInDone, RequestFailed, PutDataDone, DownloadURLDone,
                            ProfileStored, CreateUserDone, session, server
<1>7. TypeOK'
  BY <1>2, <1>3, <1>4, <1>5, <1>6 DEF SessionInv, TypeOK
<1> QED BY <1>2, <1>6, <1>7, ScreensStay

\* The first launch satisfies the invariant.
LEMMA SessionInit == Init => SessionInv
<1> SUFFICES ASSUME Init PROVE SessionInv
  OBVIOUS
<1>1. PICK x \in Screen : /\ x = Login(<<Fresh>>) /\ x.kind = "login"
                          /\ x.listeners = <<Fresh>>
  BY NewScreens
<1>2. /\ <<x>> \in Seq(Screen) /\ <<x>> # <<>> /\ Len(<<x>>) = 1 /\ <<x>>[1] = x
      /\ DOMAIN <<x>> = {1}
  OBVIOUS
<1>3. stack = [d \in Devices |-> <<x>>]
  BY <1>1 DEF Init
<1>4. Awaits(x)
  BY <1>1, FreshAwaits
<1>5. \A u, told : Settled(<<x>>, u, told)
  BY <1>1, <1>2, <1>4 DEF Settled
<1>6. stack \in [Devices -> Seq(Screen)] /\ \A d \in Devices : stack[d] # <<>>
  BY <1>2, <1>3
<1>7. profile \in [Accounts -> [email : Accounts, avatar : Accounts] \cup {NoProfile}]
  BY DEF Init
<1>8. alive \in [Devices -> BOOLEAN] /\ notified \in [Devices -> BOOLEAN]
  BY DEF Init
<1>9. asked \in 0..MaxRequests /\ kills \in 0..MaxKills
  BY BoundsAssumption DEF Init
<1>10. TypeOK
  BY <1>6, <1>7, <1>8, <1>9, AccountsAssumption DEF Init, TypeOK
<1> QED BY <1>3, <1>5, <1>10 DEF SessionInv

\* Whoever is signed in is on, or on the way to, a screen of the account.
LEMMA SessionAlways == Spec => []SessionInv
<1>1. ASSUME SessionInv, NEW d \in Devices, User(d) PROVE SessionInv'
  BY <1>1, OpenSession, LeaveRegisterSession, AskSession, SendSession, EndedSession DEF User
<1>2. SessionInv /\ [Next]_vars => SessionInv'
  <2>1. ASSUME SessionInv, Next PROVE SessionInv'
    BY <1>1, <2>1, NotifySession, NotifyFreshSession, RevokeSessionSession, EndedSession,
       RelaunchSession, AnswerSession DEF Next
  <2>2. ASSUME SessionInv, UNCHANGED vars PROVE SessionInv'
    <3>1. TypeOK'
      BY <2>2 DEF SessionInv, TypeOK, vars
    <3> QED BY <2>2, <3>1 DEF SessionInv, vars
  <2> QED BY <2>1, <2>2
<1> QED BY <1>2, SessionInit, PTL DEF Spec

\* Accounts, screens and requests keep their kinds of value; the account of a
\* registration that got to its avatar exists (handleregister).
THEOREM AccountTypes == Spec => []TypeOK
<1>1. SessionInv => TypeOK
  BY DEF SessionInv
<1> QED BY <1>1, SessionAlways, PTL

\* Once the main queue has caught up, a signed-in user is at the list or the
\* new message: islogined's listeners, which pile up and are never removed,
\* take the user there from every login and registration.
THEOREM SignedInLeavesLogin == Spec => []SessionOnScreen
<1>1. SessionInv => SessionOnScreen
  <2> SUFFICES ASSUME SessionInv, NEW d \in Devices, alive[d], currentUser[d] # NoUser,
                      notified[d],
                      \A l \in Listeners(stack[d]) : stack[d][l[1]].listeners[l[2]] # Fresh
               PROVE  Top(d).kind \in {"list", "newmessage"}
    BY DEF SessionOnScreen
  <2>1. PICK s \in Seq(Screen) : s = stack[d] /\ s # <<>>
    BY DEF SessionInv, TypeOK
  <2>2. /\ Len(s) \in Nat /\ Len(s) > 0 /\ DOMAIN s = 1..Len(s)
        /\ \A i \in 1..Len(s) : s[i] \in Screen
    BY <2>1, LenProperties, EmptySeq, ElementOfSeq
  <2>3. Settled(s, currentUser[d], notified[d])
    BY <2>1 DEF SessionInv
  <2>4. \A i \in DOMAIN s : ~Awaits(s[i])
    <3> SUFFICES ASSUME NEW i \in DOMAIN s, Awaits(s[i]) PROVE FALSE
      OBVIOUS
    <3> DEFINE k == Len(s[i].listeners)
    <3>1. s[i].kind = "login" /\ s[i].listeners \in Seq(Said) /\ s[i].listeners # <<>>
          /\ s[i].listeners[k] \in {Fresh, NoUser}
      BY <2>2, ScreenFields DEF Awaits
    <3>2. k \in DOMAIN s[i].listeners
      BY <3>1, LenProperties, EmptySeq
    <3>3. <<i, k>> \in Listeners(s)
      BY <3>1, <3>2 DEF Listeners
    <3>4. s[i].listeners[k] # Fresh
      BY <2>1, <3>3
    <3>5. s[i].listeners[k] \in {currentUser[d], Fresh}
      BY <2>3, <3>1, <3>2 DEF Settled
    <3> QED BY <3>1, <3>4, <3>5
  <2>5. s[Len(s)].kind # "login" /\ s[Len(s)].kind # "register"
    BY <2>2, <2>3, <2>4 DEF Settled
  <2>6. s[Len(s)].kind \in {"login", "list", "register", "newmessage"}
    BY <2>2, ScreenFields
  <2>7. Top(d) = s[Len(s)]
    BY <2>1 DEF Top, Last
  <2> QED BY <2>5, <2>6, <2>7
<1> QED BY <1>1, SessionAlways, PTL

==============================================================================
