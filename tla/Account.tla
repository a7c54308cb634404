------------------------------- MODULE Account -------------------------------
(***************************************************************************)
(* Accounts: login.swift, register.handleregister, and the readers of a    *)
(* profile (newmessage, the cells of the message list).                    *)
(*                                                                         *)
(* Firebase Auth keeps the account of a phone.  It answers sign-ins and    *)
(* registrations when it likes, changes the account on its own queue and   *)
(* tells the listeners of the login screens on the main queue.  None of    *)
(* these listeners is ever removed, and each opens the message list.  A    *)
(* registration goes on behind it: avatar, its address, the profile.       *)
(***************************************************************************)
EXTENDS Naturals, Sequences, FiniteSets, SequencesExt

CONSTANTS
    Devices,
    Accounts,       \* also stands for the e-mails and for the avatars' paths
    Existing,       \* accounts that are registered at the start
    NoUser,
    NoProfile,
    Fresh,          \* a listener that was not called yet
    MaxRequests,    \* bound: sign-ins and registrations
    MaxScreens,     \* bound: screens of a stack the user opens
    MaxKills        \* bound: processes killed, forced sign-outs

ASSUME AccountsAssumption ==
    /\ Existing \subseteq Accounts
    /\ NoUser \notin Accounts
    /\ NoProfile \notin [email : Accounts, avatar : Accounts]
    /\ Fresh \notin Accounts \cup {NoUser}

ASSUME BoundsAssumption == {MaxRequests, MaxScreens, MaxKills} \subseteq Nat

VARIABLES
    alive,          \* the app runs
    currentUser,    \* Auth.auth().currentUser of each phone
    notified,       \* no change of currentUser waits for the main queue
    stack,          \* the screens of each navigation controller
    requests,       \* sign-ins and registrations not finished
    asked,          \* how many there were
    kills,
    registered,     \* accounts of Firebase Auth
    avatars,        \* paths in the bucket
    profile,        \* user/<uid>
    listed          \* partners in user-mess/<uid>

session == <<currentUser, notified, stack>>
server == <<registered, avatars, profile, listed>>
vars == <<alive, currentUser, notified, stack, requests, asked, kills,
          registered, avatars, profile, listed>>

-----------------------------------------------------------------------------
\* Screens.  A listener is what it was last called with.
Login(listeners) == [kind |-> "login", listeners |-> listeners]
List(u) == [kind |-> "list", user |-> u]
Other(kind) == [kind |-> kind]

Screen == [kind : {"login"}, listeners : Seq(Accounts \cup {NoUser, Fresh})]
          \cup [kind : {"list"}, user : Accounts \cup {NoUser}]
          \cup [kind : {"register", "newmessage"}]

Top(d) == Last(stack[d])

\* Requests.  The three callbacks of a registration follow each other; "set"
\* is the profile on its way to the server.
Request ==
    [id : 1..MaxRequests, device : Devices, email : Accounts,
     step : {"signIn", "create"}]
    \cup [id : 1..MaxRequests, device : Devices, email : Accounts,
          step : {"put", "url", "set"}, avatar : Accounts]

Upload(r, path, step) ==
    [id |-> r.id, device |-> r.device, email |-> r.email, step |-> step,
     avatar |-> path]

Listeners(s) == UNION {{<<i, j>> : j \in DOMAIN s[i].listeners} :
                          i \in {k \in DOMAIN s : s[k].kind = "login"}}

\* The message list; its viewDidLoad sends a signed-out user back to the
\* login screen.
ListFor(u) == IF u = NoUser THEN <<List(u), Login(<<Fresh>>)>> ELSE <<List(u)>>

Init ==
    /\ alive = [d \in Devices |-> TRUE]
    /\ currentUser = [d \in Devices |-> NoUser]
    /\ notified = [d \in Devices |-> TRUE]
    /\ stack = [d \in Devices |-> <<Login(<<Fresh>>)>>]
    /\ requests = {}
    /\ asked = 0
    /\ kills = 0
    /\ registered = Existing
    /\ avatars = Existing
    /\ profile = [e \in Accounts |-> IF e \in Existing
                                     THEN [email |-> e, avatar |-> e]
                                     ELSE NoProfile]
    /\ listed = [e \in Accounts |-> {}]

-----------------------------------------------------------------------------
(* The listeners of islogined.                                             *)

\* The listeners a notification reaches: all whose account is another one.
Heard(d) ==
    {l \in Listeners(stack[d]) : stack[d][l[1]].listeners[l[2]] # currentUser[d]}

\* These listeners are called: each opens the list for an account.
Called(d, ls) ==
    [i \in DOMAIN stack[d] |->
        IF stack[d][i].kind = "login"
        THEN Login([j \in DOMAIN stack[d][i].listeners |->
                       IF <<i, j>> \in ls THEN currentUser[d]
                                          ELSE stack[d][i].listeners[j]])
        ELSE stack[d][i]]
    \o IF currentUser[d] = NoUser THEN <<>>
       ELSE [n \in 1..Cardinality(ls) |-> List(currentUser[d])]

\* The notification of a change arrives on the main queue.
Notify(d) ==
    /\ alive[d]
    /\ ~notified[d]
    /\ notified' = [notified EXCEPT ![d] = TRUE]
    /\ stack' = [stack EXCEPT ![d] = Called(d, Heard(d))]
    /\ UNCHANGED <<alive, currentUser, requests, asked, kills, server>>

\* A listener that was just added is called on its own.
NotifyFresh(d, l) ==
    /\ alive[d]
    /\ l \in Listeners(stack[d])
    /\ stack[d][l[1]].listeners[l[2]] = Fresh
    /\ stack' = [stack EXCEPT ![d] = Called(d, {l})]
    /\ UNCHANGED <<alive, currentUser, notified, requests, asked, kills, server>>

-----------------------------------------------------------------------------
(* The user.                                                               *)

Open(d, screens) ==
    /\ alive[d]
    /\ Len(stack[d]) < MaxScreens
    /\ stack' = [stack EXCEPT ![d] = @ \o screens]

\* movetoregister.
OpenRegister(d) ==
    /\ Top(d).kind = "login"
    /\ Open(d, <<Other("register")>>)
    /\ UNCHANGED <<alive, currentUser, notified, requests, asked, kills, server>>

\* Back from the registration: viewWillAppear adds another listener.
LeaveRegister(d) ==
    LET below == Len(stack[d]) - 1 IN
    /\ alive[d]
    /\ Top(d).kind = "register"
    /\ Cardinality(Listeners(stack[d])) < MaxScreens
    /\ stack' = [stack EXCEPT ![d] =
                    Append(SubSeq(stack[d], 1, below - 1),
                           Login(Append(stack[d][below].listeners, Fresh)))]
    /\ UNCHANGED <<alive, currentUser, notified, requests, asked, kills, server>>

\* register.move.
OpenLogin(d) ==
    /\ Top(d).kind = "register"
    /\ Open(d, <<Login(<<Fresh>>)>>)
    /\ UNCHANGED <<alive, currentUser, notified, requests, asked, kills, server>>

\* handlemovetonewmesssage.
OpenNewMessage(d) ==
    /\ Top(d).kind = "list"
    /\ Open(d, <<Other("newmessage")>>)
    /\ UNCHANGED <<alive, currentUser, notified, requests, asked, kills, server>>

\* newmessage.handlecancel.
Cancel(d) ==
    /\ Top(d).kind = "newmessage"
    /\ Open(d, ListFor(currentUser[d]))
    /\ UNCHANGED <<alive, currentUser, notified, requests, asked, kills, server>>

\* Mutant: the login screen waits for a change of the account.
LogoutQuiet(d) ==
    /\ Top(d).kind = "list"
    /\ Open(d, <<Login(<<currentUser[d]>>)>>)
    /\ currentUser' = [currentUser EXCEPT ![d] = NoUser]
    /\ notified' = [notified EXCEPT ![d] = @ /\ currentUser[d] = NoUser]
    /\ UNCHANGED <<alive, requests, asked, kills, server>>

\* handlelogout.
Logout(d) ==
    /\ Top(d).kind = "list"
    /\ Open(d, <<Login(<<Fresh>>)>>)
    /\ currentUser' = [currentUser EXCEPT ![d] = NoUser]
    /\ notified' = [notified EXCEPT ![d] = @ /\ currentUser[d] = NoUser]
    /\ UNCHANGED <<alive, requests, asked, kills, server>>

\* login.move and handleregister.
Ask(d, e, screen, step) ==
    /\ alive[d]
    /\ Top(d).kind = screen
    /\ asked < MaxRequests
    /\ asked' = asked + 1
    /\ requests' = requests \cup {[id |-> asked', device |-> d, email |-> e,
                                   step |-> step]}
    /\ UNCHANGED <<alive, session, kills, server>>

\* A message is sent from newmessage's list of profiles; both lists get it
\* (Messaging).  The server handles it after what the phone wrote before.
Send(d, p) ==
    LET e == currentUser[d] IN
    /\ alive[d]
    /\ Top(d).kind = "newmessage"
    /\ e # NoUser
    /\ profile[p] # NoProfile
    /\ \A r \in requests : ~(r.device = d /\ r.step = "set")
    /\ listed' = [[listed EXCEPT ![e] = @ \cup {p}] EXCEPT ![p] = @ \cup {e}]
    /\ UNCHANGED <<alive, session, requests, asked, kills, registered, avatars, profile>>

\* The process ends.  A profile on the wire may still reach the server.
Ended(d) ==
    /\ alive' = [alive EXCEPT ![d] = FALSE]
    /\ requests' = {r \in requests : r.device # d \/ r.step = "set"}

\* A cell of the list reads the profile of its partner with as!.
RowCrash(d, p) ==
    /\ alive[d]
    /\ Top(d).kind = "list"
    /\ currentUser[d] # NoUser
    /\ p \in listed[currentUser[d]]
    /\ profile[p] = NoProfile
    /\ Ended(d)
    /\ UNCHANGED <<session, asked, kills, server>>

-----------------------------------------------------------------------------
(* The answers.                                                            *)

\* FIRAuth.updateCurrentUser.
BecomeCurrent(d, u) ==
    /\ currentUser' = [currentUser EXCEPT ![d] = u]
    /\ notified' = [notified EXCEPT ![d] = FALSE]

SignInDone(r) ==
    /\ r.step = "signIn"
    /\ r.email \in registered
    /\ BecomeCurrent(r.device, r.email)
    /\ requests' = requests \ {r}
    /\ UNCHANGED <<alive, stack, asked, kills, server>>

\* Mutant: the avatar's path is not known yet.
CreateUserDoneNoPath(r, path) ==
    /\ r.step = "create"
    /\ r.email \notin registered
    /\ registered' = registered \cup {r.email}
    /\ BecomeCurrent(r.device, r.email)
    /\ requests' = (requests \ {r}) \cup {[r EXCEPT !.step = "put"]}
    /\ UNCHANGED <<alive, stack, asked, kills, avatars, profile, listed>>

\* The account is created and signed in.  The avatar's path is the text
\* field's content now, which the user may have changed.
CreateUserDone(r, path) ==
    /\ r.step = "create"
    /\ r.email \notin registered
    /\ registered' = registered \cup {r.email}
    /\ BecomeCurrent(r.device, r.email)
    /\ requests' = (requests \ {r}) \cup {Upload(r, path, "put")}
    /\ UNCHANGED <<alive, stack, asked, kills, avatars, profile, listed>>

\* Any of the calls fails: the error is printed, nothing is undone.  The
\* server may have done what was asked although the answer got lost.
RequestFailed(r) ==
    /\ requests' = requests \ {r}
    /\ \/ UNCHANGED <<registered, avatars>>
       \/ /\ r.step = "create"
          /\ registered' = registered \cup {r.email}
          /\ UNCHANGED avatars
       \/ /\ r.step = "put"
          /\ avatars' = avatars \cup {r.avatar}
          /\ UNCHANGED registered
    /\ UNCHANGED <<alive, session, asked, kills, profile, listed>>

PutDataDone(r) ==
    /\ r.step = "put"
    /\ avatars' = avatars \cup {r.avatar}
    /\ requests' = (requests \ {r}) \cup {Upload(r, r.avatar, "url")}
    /\ UNCHANGED <<alive, session, asked, kills, registered, profile, listed>>

\* downloadURL answers: setValue of user/<uid> is issued.
DownloadURLDone(r) ==
    /\ r.step = "url"
    /\ r.avatar \in avatars
    /\ requests' = (requests \ {r}) \cup {Upload(r, r.avatar, "set")}
    /\ UNCHANGED <<alive, session, asked, kills, server>>

\* Mutant: the profile goes to the account that is signed in.
ProfileStoredAtCurrent(r) ==
    /\ r.step = "set"
    /\ profile' = IF currentUser[r.device] = NoUser THEN profile
                  ELSE [profile EXCEPT ![currentUser[r.device]] =
                           [email |-> r.email, avatar |-> r.avatar]]
    /\ requests' = requests \ {r}
    /\ UNCHANGED <<alive, session, asked, kills, registered, avatars, listed>>

\* The server stores the profile under the uid of the registration's result.
ProfileStored(r) ==
    /\ r.step = "set"
    /\ profile' = [profile EXCEPT ![r.email] = [email |-> r.email, avatar |-> r.avatar]]
    /\ requests' = requests \ {r}
    /\ UNCHANGED <<alive, session, asked, kills, registered, avatars, listed>>

-----------------------------------------------------------------------------
(* Forced sign-out, the end of the process and its next start.             *)

RevokeSession(d) ==
    /\ alive[d]
    /\ currentUser[d] # NoUser
    /\ kills < MaxKills
    /\ kills' = kills + 1
    /\ BecomeCurrent(d, NoUser)
    /\ UNCHANGED <<alive, stack, requests, asked, server>>

Kill(d) ==
    /\ alive[d]
    /\ kills < MaxKills
    /\ kills' = kills + 1
    /\ Ended(d)
    /\ UNCHANGED <<session, asked, server>>

Relaunch(d) ==
    /\ ~alive[d]
    /\ alive' = [alive EXCEPT ![d] = TRUE]
    /\ notified' = [notified EXCEPT ![d] = TRUE]
    /\ stack' = [stack EXCEPT ![d] = <<Login(<<Fresh>>)>>]
    /\ requests' = {r \in requests : r.device # d}
    /\ UNCHANGED <<currentUser, asked, kills, server>>

-----------------------------------------------------------------------------
User(d) ==
    \/ OpenRegister(d) \/ LeaveRegister(d) \/ OpenLogin(d)
    \/ OpenNewMessage(d) \/ Cancel(d) \/ Logout(d)
    \/ \E e \in Accounts : \/ Ask(d, e, "login", "signIn")
                           \/ Ask(d, e, "register", "create")
                           \/ Send(d, e)
                           \/ RowCrash(d, e)

Answer(r) ==
    \/ SignInDone(r) \/ RequestFailed(r) \/ PutDataDone(r) \/ DownloadURLDone(r)
    \/ ProfileStored(r) \/ \E path \in Accounts : CreateUserDone(r, path)

Next ==
    \/ \E d \in Devices :
          \/ User(d) \/ Notify(d) \/ RevokeSession(d) \/ Kill(d) \/ Relaunch(d)
          \/ \E l \in Listeners(stack[d]) : NotifyFresh(d, l)
    \/ \E r \in requests : Answer(r)

Spec == Init /\ [][Next]_vars

-----------------------------------------------------------------------------
(* Properties.                                                             *)

\* Every variable keeps its kind of value; a registration that has got to
\* its avatar knows the path and has its account.
TypeOK ==
    /\ alive \in [Devices -> BOOLEAN]
    /\ currentUser \in [Devices -> registered \cup {NoUser}]
    /\ notified \in [Devices -> BOOLEAN]
    /\ stack \in [Devices -> Seq(Screen)]
    /\ \A d \in Devices : stack[d] # <<>>
    /\ requests \subseteq Request
    /\ \A r \in requests : r.step \in {"put", "url", "set"} => r.email \in registered
    /\ asked \in 0..MaxRequests
    /\ kills \in 0..MaxKills
    /\ registered \subseteq Accounts
    /\ avatars \subseteq Accounts
    /\ profile \in [Accounts -> [email : Accounts, avatar : Accounts] \cup {NoProfile}]
    /\ listed \in [Accounts -> SUBSET Accounts]

\* "After the login it is checked once more, and the app moves by itself"
\* (login.swift:40): once the main queue has caught up, a signed-in user is
\* never left at the login or the registration, however late requests were
\* answered and whatever the user did in the meantime.
SessionOnScreen ==
    \A d \in Devices :
        /\ alive[d]
        /\ currentUser[d] # NoUser
        /\ notified[d]
        /\ \A l \in Listeners(stack[d]) : stack[d][l[1]].listeners[l[2]] # Fresh
        => Top(d).kind \in {"list", "newmessage"}

\* A profile is stored under the account it was registered for, and its
\* avatar is in the bucket, although the session and the form may change
\* during the four calls and each may fail (handleregister).
ProfileComplete ==
    \A e \in Accounts : profile[e] # NoProfile =>
        /\ e \in registered
        /\ profile[e].email = e
        /\ profile[e].avatar \in avatars

\* The assertion `snap.value as! NSDictionary` of a list's cell: each partner
\* in a list has a profile.
PartnersHaveProfiles ==
    \A d \in Devices :
        alive[d] /\ Top(d).kind = "list" /\ currentUser[d] # NoUser =>
            \A p \in listed[currentUser[d]] : profile[p] # NoProfile

==============================================================================
