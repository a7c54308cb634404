------------------------------ MODULE Messaging ------------------------------
(***************************************************************************)
(* Sending messages: the chat screen (chat_logmessage.swift), the upload   *)
(* jobs of its image picker, each device's FIFO of outstanding database    *)
(* writes (FPersistentConnection) and the two remote stores, the realtime  *)
(* database and the storage bucket.                                        *)
(*                                                                         *)
(* A message is written first at mess/<key>.  Only when that write is      *)
(* acknowledged does the client write the two index entries               *)
(* user-mess/<from>/<to>/<key> and user-mess/<to>/<from>/<key>, so the     *)
(* fan-out is three separate writes with a callback in between.            *)
(***************************************************************************)
EXTENDS Naturals, Sequences, FiniteSets

CONSTANTS
    Devices,            \* the phones
    Users,              \* the accounts
    Chats,              \* chat_logmessage instances
    DeviceOf,           \* the phone each instance lives on
    Jobs,               \* slots for uploads in progress
    Keys,               \* values childByAutoId can return (a bound)
    Paths,              \* numbers drawn for object names, Int.random(in: 0...10000)
    Login, Inbox,       \* the screens other than a chat
    NoUser, NoChat, NoKey, NoMsg, NoPath,
    DemoFrom, DemoTo,   \* the literals "demo_from_ID" and "demo_toID"
    MayDeny,            \* the server may refuse a write
    MayKill,            \* the operating system may kill the app
    MaxReconnects,      \* bound: connection losses in a behaviour
    MaxPendingDeletes   \* bound: deletions outstanding on a device

ASSUME UsersAssumption ==
    /\ NoUser \notin Users
    /\ DemoFrom \notin Users
    /\ DemoTo \notin Users

ASSUME ScreensAssumption ==
    /\ DeviceOf \in [Chats -> Devices]
    /\ Login # Inbox
    /\ {Login, Inbox, NoChat} \cap Chats = {}

ASSUME StoresAssumption ==
    /\ NoKey \notin Keys
    /\ NoPath \notin Paths

ASSUME BoundsAssumption ==
    /\ MayDeny \in BOOLEAN
    /\ MayKill \in BOOLEAN
    /\ MaxReconnects \in Nat
    /\ MaxPendingDeletes \in Nat

VARIABLES
    up,             \* the app runs on the device
    screen,         \* what the device shows
    currentUser,    \* Auth.auth().currentUser, kept by the keychain
    partner,        \* whom a chat instance was opened for
    user,           \* chat_logmessage.user, nil until the profile arrives
    job,            \* uploads in progress
    used,           \* keys childByAutoId has handed out
    puts,           \* FPersistentConnection.outstandingPuts, per device
    mess,           \* database: mess/<key>
    userMess,       \* database: user-mess/<owner>/<partner>/<key>
    userMessFlat,   \* database: user-mess/<owner>/<key>
    storage,        \* objects in the storage bucket
    reconnects      \* connection losses so far

clientVars == <<up, screen, currentUser, partner, user, job, used>>
serverVars == <<mess, userMess, userMessFlat, storage>>
vars == <<up, screen, currentUser, partner, user, job, used, puts,
          mess, userMess, userMessFlat, storage, reconnects>>

-----------------------------------------------------------------------------
(* Data.                                                                   *)

\* The fields of mess/<key> the properties tell apart; the text and the
\* client's timestamp are abstracted.  Only a video can lack its partner.
Message == [kind  : {"text", "image"},
            from  : Users \cup {DemoFrom},
            to    : Users,
            image : Paths \cup {NoPath},
            video : {NoPath}]
           \cup
           [kind  : {"video"},
            from  : Users \cup {DemoFrom},
            to    : Users \cup {DemoTo},
            image : Paths,
            video : Paths \cup {NoPath}]

ASSUME NoMsgAssumption == NoMsg \notin Message

\* Objects of the bucket: "Chat_image:.../<n>.jpg" and "movie:/<n>".  The
\* accounts in a picture's name are abstracted with its number.
Picture(n) == <<"Chat_image", n>>
Movie(n) == <<"movie", n>>
Object == {"Chat_image", "movie"} \X Paths

Idle == [stage |-> "idle", chat |-> NoChat, video |-> FALSE,
         path |-> NoPath, movie |-> NoPath]

\* An upload: the movie of a video first, then the image.
MovieJob == [stage : {"putFile", "movieURL"}, chat : Chats, video : {TRUE},
             path : {NoPath}, movie : Paths]
ThumbnailJob == [stage : {"putData", "imageURL"}, chat : Chats, video : {TRUE},
                 path : Paths, movie : Paths \cup {NoPath}]
ImageJob == [stage : {"putData", "imageURL"}, chat : Chats, video : {FALSE},
             path : Paths, movie : {NoPath}]
Job == {Idle} \cup MovieJob \cup ThumbnailJob \cup ImageJob

MessPut(k, m) == [at |-> "mess", key |-> k, msg |-> m,
                  owner |-> NoUser, partner |-> NoUser, reply |-> "none"]
IndexPut(o, p, k) == [at |-> "index", key |-> k, msg |-> NoMsg,
                      owner |-> o, partner |-> p, reply |-> "none"]
FlatPut(o, k) == [at |-> "flat", key |-> k, msg |-> NoMsg,
                  owner |-> o, partner |-> NoUser, reply |-> "none"]
DeletePut(o, p) == [at |-> "delete", key |-> NoKey, msg |-> NoMsg,
                    owner |-> o, partner |-> p, reply |-> "none"]

\* One outstanding write: where it goes, and the server's answer as far as
\* the client has received it.
Reply == {"none", "ok", "denied"}

Put == [at : {"mess"}, key : Keys, msg : Message,
        owner : {NoUser}, partner : {NoUser}, reply : Reply]
       \cup [at : {"index"}, key : Keys, msg : {NoMsg},
             owner : Users, partner : Users, reply : Reply]
       \cup [at : {"flat"}, key : Keys, msg : {NoMsg},
             owner : Users, partner : {NoUser}, reply : Reply]
       \cup [at : {"delete"}, key : {NoKey}, msg : {NoMsg},
             owner : Users, partner : Users, reply : Reply]

\* Mutant: the default is dropped.
FromIdNoDefault(d) == currentUser[d]

\* `Auth.auth().currentUser?.uid ?? "demo_from_ID"`.
FromId(d) == IF currentUser[d] = NoUser THEN DemoFrom ELSE currentUser[d]

\* `self.user?.id ?? "demo_toID"`.
ToId(s) == IF user[s] = NoUser THEN DemoTo ELSE user[s]

\* Mess.get_chat_partner_id, for the account that is current at the call.
ChatPartnerId(me, m) == IF me = m.from THEN m.to ELSE m.from

\* Partners of the rows the message list of d can show: it was filled from
\* user-mess/<uid>, and outlives a forced sign-out.
RowPartners(d) ==
    {ChatPartnerId(currentUser[d], mess[e[3]]) :
        e \in {x \in userMess : /\ currentUser[d] \in {x[1], NoUser}
                                /\ mess[x[3]] # NoMsg}}

ChatsOf(d) == {s \in Chats : DeviceOf[s] = d}
JobsOf(d) == {j \in Jobs : job[j].chat \in ChatsOf(d)}

Init ==
    /\ up = [d \in Devices |-> TRUE]
    /\ screen = [d \in Devices |-> Login]
    /\ currentUser = [d \in Devices |-> NoUser]
    /\ partner = [s \in Chats |-> NoUser]
    /\ user = [s \in Chats |-> NoUser]
    /\ job = [j \in Jobs |-> Idle]
    /\ used = {}
    /\ puts = [d \in Devices |-> <<>>]
    /\ mess = [k \in Keys |-> NoMsg]
    /\ userMess = {}
    /\ userMessFlat = {}
    /\ storage = {}
    /\ reconnects = 0

-----------------------------------------------------------------------------
(* Session and screens.                                                    *)

\* login.move succeeds; the auth listener of islogined pushes the message
\* list.
SignIn(d, u) ==
    /\ up[d]
    /\ screen[d] = Login
    /\ currentUser[d] = NoUser
    /\ currentUser' = [currentUser EXCEPT ![d] = u]
    /\ screen' = [screen EXCEPT ![d] = Inbox]
    /\ UNCHANGED <<up, partner, user, job, used, puts, serverVars, reconnects>>

\* messagecontroller.handlelogout: uploads in progress go on.
SignOut(d) ==
    /\ up[d]
    /\ screen[d] = Inbox
    /\ currentUser' = [currentUser EXCEPT ![d] = NoUser]
    /\ screen' = [screen EXCEPT ![d] = Login]
    /\ UNCHANGED <<up, partner, user, job, used, puts, serverVars, reconnects>>

\* The auth client drops an account whose token is no longer valid, on
\* whatever screen the user is.
RevokeSession(d) ==
    /\ up[d]
    /\ screen[d] # Login
    /\ currentUser[d] # NoUser
    /\ currentUser' = [currentUser EXCEPT ![d] = NoUser]
    /\ UNCHANGED <<up, screen, partner, user, job, used, puts, serverVars,
                   reconnects>>

\* An instance can be taken for a new chat when nothing of its last one is
\* still running.
Free(s) == /\ screen[DeviceOf[s]] # s
           /\ \A j \in Jobs : job[j].chat # s

\* newmessage.didSelectRowAt: the profile is at hand.
OpenFromNewMessage(s, p) ==
    /\ up[DeviceOf[s]]
    /\ screen[DeviceOf[s]] = Inbox
    /\ Free(s)
    /\ screen' = [screen EXCEPT ![DeviceOf[s]] = s]
    /\ partner' = [partner EXCEPT ![s] = p]
    /\ user' = [user EXCEPT ![s] = p]
    /\ UNCHANGED <<up, currentUser, job, used, puts, serverVars, reconnects>>

\* messagecontroller.didSelectRowAt: the screen is pushed at once, `user` is
\* set when the partner's profile arrives.
OpenFromInbox(s, p) ==
    /\ up[DeviceOf[s]]
    /\ screen[DeviceOf[s]] = Inbox
    /\ Free(s)
    /\ p \in RowPartners(DeviceOf[s])
    /\ screen' = [screen EXCEPT ![DeviceOf[s]] = s]
    /\ partner' = [partner EXCEPT ![s] = p]
    /\ user' = [user EXCEPT ![s] = NoUser]
    /\ UNCHANGED <<up, currentUser, job, used, puts, serverVars, reconnects>>

\* The observer of user/<partner> fires, even after the screen was left.
ProfileLoaded(s) ==
    /\ up[DeviceOf[s]]
    /\ partner[s] # NoUser
    /\ user[s] = NoUser
    /\ user' = [user EXCEPT ![s] = partner[s]]
    /\ UNCHANGED <<up, screen, currentUser, partner, job, used, puts,
                   serverVars, reconnects>>

\* The Back button.  What the instance knew matters only to an upload that
\* still refers to it.
LeaveChat(s) ==
    /\ up[DeviceOf[s]]
    /\ screen[DeviceOf[s]] = s
    /\ screen' = [screen EXCEPT ![DeviceOf[s]] = Inbox]
    /\ \/ /\ \E j \in Jobs : job[j].chat = s
          /\ UNCHANGED <<partner, user>>
       \/ /\ \A j \in Jobs : job[j].chat # s
          /\ partner' = [partner EXCEPT ![s] = NoUser]
          /\ user' = [user EXCEPT ![s] = NoUser]
    /\ UNCHANGED <<up, currentUser, job, used, puts, serverVars, reconnects>>

-----------------------------------------------------------------------------
(* The app dies: a failed `!`, or the system kills it.  Nothing of its     *)
(* memory survives (persistence is off); writes already on the wire can    *)
(* still reach the server, so `puts` is emptied by Relaunch only.          *)

Die(d) ==
    /\ up' = [up EXCEPT ![d] = FALSE]
    /\ screen' = [screen EXCEPT ![d] = Login]
    /\ partner' = [s \in Chats |-> IF s \in ChatsOf(d) THEN NoUser ELSE partner[s]]
    /\ user' = [s \in Chats |-> IF s \in ChatsOf(d) THEN NoUser ELSE user[s]]
    /\ job' = [j \in Jobs |-> IF j \in JobsOf(d) THEN Idle ELSE job[j]]
    /\ UNCHANGED <<currentUser, used>>

Kill(d) ==
    /\ MayKill
    /\ up[d]
    /\ Die(d)
    /\ UNCHANGED <<puts, serverVars, reconnects>>

Relaunch(d) ==
    /\ ~up[d]
    /\ up' = [up EXCEPT ![d] = TRUE]
    /\ screen' = [screen EXCEPT ![d] = IF currentUser[d] = NoUser THEN Login
                                                                  ELSE Inbox]
    /\ puts' = [puts EXCEPT ![d] = <<>>]
    /\ UNCHANGED <<currentUser, partner, user, job, used, serverVars, reconnects>>

-----------------------------------------------------------------------------
(* Sending.                                                                *)

\* Mutant: the index is written at once instead of in the completion block.
WriteMessageEager(d, m) ==
    \E k \in Keys \ used :
        /\ used' = used \cup {k}
        /\ puts' = [puts EXCEPT ![d] = Append(Append(@, MessPut(k, m)),
                                             IndexPut(m.from, m.to, k))]

\* Mutant: a key that is already taken.
WriteMessageSameKey(d, m) ==
    \E k \in Keys :
        /\ used' = used \cup {k}
        /\ puts' = [puts EXCEPT ![d] = Append(@, MessPut(k, m))]

\* childByAutoId and updateChildValues on mess/<key>: the write joins the
\* outstanding puts of the device.
WriteMessage(d, m) ==
    \E k \in Keys \ used :
        /\ used' = used \cup {k}
        /\ puts' = [puts EXCEPT ![d] = Append(@, MessPut(k, m))]

\* send_data_to_Firebase.
SendText(s) ==
    /\ up[DeviceOf[s]]
    /\ screen[DeviceOf[s]] = s
    /\ user[s] # NoUser
    /\ WriteMessage(DeviceOf[s],
                    [kind |-> "text", from |-> FromId(DeviceOf[s]),
                     to |-> user[s], image |-> NoPath, video |-> NoPath])
    /\ UNCHANGED <<up, screen, currentUser, partner, user, job, serverVars,
                   reconnects>>

\* `user!.id` before the profile has arrived.
SendTextCrash(s) ==
    /\ up[DeviceOf[s]]
    /\ screen[DeviceOf[s]] = s
    /\ user[s] = NoUser
    /\ Die(DeviceOf[s])
    /\ UNCHANGED <<puts, serverVars, reconnects>>

\* imagePickerController with an image: upload_image_chat_to_firebase draws
\* a name and starts putData.
PickImage(s, j, n) ==
    /\ up[DeviceOf[s]]
    /\ screen[DeviceOf[s]] = s
    /\ job[j] = Idle
    /\ job' = [job EXCEPT ![j] = [stage |-> "putData", chat |-> s, video |-> FALSE,
                                  path |-> n, movie |-> NoPath]]
    /\ UNCHANGED <<up, screen, currentUser, partner, user, used, puts,
                   serverVars, reconnects>>

\* imagePickerController with a movie: upload_video_to_firebase draws a
\* name and starts putFile.
PickVideo(s, j, n) ==
    /\ up[DeviceOf[s]]
    /\ screen[DeviceOf[s]] = s
    /\ job[j] = Idle
    /\ job' = [job EXCEPT ![j] = [stage |-> "putFile", chat |-> s, video |-> TRUE,
                                  path |-> NoPath, movie |-> n]]
    /\ UNCHANGED <<up, screen, currentUser, partner, user, used, puts,
                   serverVars, reconnects>>

DeviceOfJob(j) == DeviceOf[job[j].chat]

\* The completion of putFile: an error is printed and the handler goes on.
PutFileDone(j) ==
    /\ job[j].stage = "putFile"
    /\ up[DeviceOfJob(j)]
    /\ job' = [job EXCEPT ![j].stage = "movieURL"]
    /\ \/ storage' = storage \cup {Movie(job[j].movie)}
       \/ UNCHANGED storage
    /\ UNCHANGED <<up, screen, currentUser, partner, user, used, puts,
                   mess, userMess, userMessFlat, reconnects>>

\* Mutant: the link is made of the movie's name, not taken from the answer.
MovieURLFromName(j, n) ==
    /\ job[j].stage = "movieURL"
    /\ up[DeviceOfJob(j)]
    /\ job' = [job EXCEPT ![j].stage = "putData", ![j].path = n]
    /\ UNCHANGED <<up, screen, currentUser, partner, user, used, puts,
                   serverVars, reconnects>>

\* The completion of the movie's downloadURL: again an error is only
\* printed, `url` is then nil.  The thumbnail's upload starts under a name
\* of its own.
MovieURLDone(j, n) ==
    /\ job[j].stage = "movieURL"
    /\ up[DeviceOfJob(j)]
    /\ \/ /\ Movie(job[j].movie) \in storage
          /\ job' = [job EXCEPT ![j].stage = "putData", ![j].path = n]
       \/ job' = [job EXCEPT ![j].stage = "putData", ![j].path = n,
                             ![j].movie = NoPath]
    /\ UNCHANGED <<up, screen, currentUser, partner, user, used, puts,
                   serverVars, reconnects>>

\* `thumnail_CGImage!` when no frame could be read from the file.
ThumbnailCrash(j) ==
    /\ job[j].stage = "movieURL"
    /\ up[DeviceOfJob(j)]
    /\ Die(DeviceOfJob(j))
    /\ UNCHANGED <<puts, serverVars, reconnects>>

\* Mutant: an error of putData is printed and the handler goes on.
PutDataDoneGoesOn(j) ==
    /\ job[j].stage = "putData"
    /\ up[DeviceOfJob(j)]
    /\ job' = [job EXCEPT ![j].stage = "imageURL"]
    /\ \/ storage' = storage \cup {Picture(job[j].path)}
       \/ UNCHANGED storage
    /\ UNCHANGED <<up, screen, currentUser, partner, user, used, puts,
                   mess, userMess, userMessFlat, reconnects>>

\* The completion of putData.
PutDataDone(j) ==
    /\ job[j].stage = "putData"
    /\ up[DeviceOfJob(j)]
    /\ \/ /\ storage' = storage \cup {Picture(job[j].path)}
          /\ job' = [job EXCEPT ![j].stage = "imageURL"]
       \/ /\ job' = [job EXCEPT ![j] = Idle]
          /\ UNCHANGED storage
    /\ UNCHANGED <<up, screen, currentUser, partner, user, used, puts,
                   mess, userMess, userMessFlat, reconnects>>

\* The message an upload leads to.  The account and the partner are read
\* now, not when the picture was picked.
MediaMessage(j) ==
    [kind  |-> IF job[j].video THEN "video" ELSE "image",
     from  |-> FromId(DeviceOfJob(j)),
     to    |-> ToId(job[j].chat),
     image |-> job[j].path,
     video |-> job[j].movie]

\* The completion of the image's downloadURL without an error: the closure
\* of the picker or of upload_video_to_firebase runs.
ImageURLDone(j) ==
    /\ job[j].stage = "imageURL"
    /\ up[DeviceOfJob(j)]
    /\ job[j].video \/ user[job[j].chat] # NoUser
    /\ WriteMessage(DeviceOfJob(j), MediaMessage(j))
    /\ job' = [job EXCEPT ![j] = Idle]
    /\ UNCHANGED <<up, screen, currentUser, partner, user, serverVars, reconnects>>

\* With an error it ends there.
ImageURLFailed(j) ==
    /\ job[j].stage = "imageURL"
    /\ up[DeviceOfJob(j)]
    /\ job' = [job EXCEPT ![j] = Idle]
    /\ UNCHANGED <<up, screen, currentUser, partner, user, used, puts,
                   serverVars, reconnects>>

\* `self.user!.id` in the picker's closure.
ImageURLCrash(j) ==
    /\ job[j].stage = "imageURL"
    /\ up[DeviceOfJob(j)]
    /\ ~job[j].video
    /\ user[job[j].chat] = NoUser
    /\ Die(DeviceOfJob(j))
    /\ UNCHANGED <<puts, serverVars, reconnects>>

\* Deleting a row of the message list: removeValue on
\* user-mess/<uid>/<partner>.
DeleteConversation(d, p) ==
    /\ up[d]
    /\ screen[d] = Inbox
    /\ currentUser[d] # NoUser
    /\ p \in RowPartners(d)
    /\ Cardinality({i \in 1..Len(puts[d]) : puts[d][i].at = "delete"})
          < MaxPendingDeletes
    /\ puts' = [puts EXCEPT ![d] = Append(@, DeletePut(currentUser[d], p))]
    /\ UNCHANGED <<clientVars, serverVars, reconnects>>

-----------------------------------------------------------------------------
(* The connection and the server.                                          *)

\* A connection carries the puts in order, so the server decides the first
\* one it has not answered.
Undecided(d, i) ==
    /\ puts[d][i].reply = "none"
    /\ \A h \in 1..(i - 1) : puts[d][h].reply # "none"

Answer(d, i, r) == puts' = [puts EXCEPT ![d] = [@ EXCEPT ![i].reply = r]]

StoreMessage(d, i) ==
    /\ puts[d][i].at = "mess"
    /\ mess' = [mess EXCEPT ![puts[d][i].key] = puts[d][i].msg]
    /\ UNCHANGED <<userMess, userMessFlat>>

StoreIndex(d, i) ==
    /\ puts[d][i].at = "index"
    /\ userMess' = userMess \cup {<<puts[d][i].owner, puts[d][i].partner,
                                    puts[d][i].key>>}
    /\ UNCHANGED <<mess, userMessFlat>>

StoreFlat(d, i) ==
    /\ puts[d][i].at = "flat"
    /\ userMessFlat' = userMessFlat \cup {<<puts[d][i].owner, puts[d][i].key>>}
    /\ UNCHANGED <<mess, userMess>>

RemoveConversation(d, i) ==
    /\ puts[d][i].at = "delete"
    /\ userMess' = {e \in userMess : ~ /\ e[1] = puts[d][i].owner
                                       /\ e[2] = puts[d][i].partner}
    /\ UNCHANGED <<mess, userMessFlat>>

Apply(d, i) == \/ StoreMessage(d, i) \/ StoreIndex(d, i)
               \/ StoreFlat(d, i)    \/ RemoveConversation(d, i)

ServerAccept(d) ==
    \E i \in 1..Len(puts[d]) :
        /\ Undecided(d, i)
        /\ Answer(d, i, "ok")
        /\ Apply(d, i)
        /\ UNCHANGED <<clientVars, storage, reconnects>>

ServerDeny(d) ==
    /\ MayDeny
    /\ \E i \in 1..Len(puts[d]) :
          /\ Undecided(d, i)
          /\ Answer(d, i, "denied")
    /\ UNCHANGED <<clientVars, serverVars, reconnects>>

\* Mutant: the puts in flight are forgotten.
ReconnectForgets(d) ==
    /\ up[d]
    /\ reconnects < MaxReconnects
    /\ reconnects' = reconnects + 1
    /\ puts' = [puts EXCEPT ![d] = <<>>]
    /\ UNCHANGED <<clientVars, serverVars>>

\* onDisconnect drops the callbacks of the requests in flight; restoreState
\* sends every outstanding put again once the connection is back.
Reconnect(d) ==
    /\ up[d]
    /\ reconnects < MaxReconnects
    /\ reconnects' = reconnects + 1
    /\ puts' = [puts EXCEPT ![d] =
                   [i \in 1..Len(puts[d]) |-> [puts[d][i] EXCEPT !.reply = "none"]]]
    /\ UNCHANGED <<clientVars, serverVars>>

-----------------------------------------------------------------------------
(* The completion blocks, run in the order of the puts.                    *)

Answered(d) == /\ up[d]
               /\ puts[d] # <<>>
               /\ Head(puts[d]).reply # "none"

\* A write without a completion block that acts on it: the index writes, the
\* deletion, and a message the server refused (`err != nil`: return).
AckOther(d) ==
    /\ Answered(d)
    /\ Head(puts[d]).at # "mess" \/ Head(puts[d]).reply = "denied"
    /\ puts' = [puts EXCEPT ![d] = Tail(@)]
    /\ UNCHANGED <<clientVars, serverVars, reconnects>>

Acked(d) == /\ Answered(d)
            /\ Head(puts[d]).at = "mess"
            /\ Head(puts[d]).reply = "ok"

\* Mutant: the partner's list first.
AckMessageSwapped(d) ==
    LET p == Head(puts[d]) IN
    /\ Acked(d)
    /\ p.msg.kind # "video"
    /\ p.msg.from # DemoFrom
    /\ puts' = [puts EXCEPT ![d] =
                   Append(Append(Tail(@), IndexPut(p.msg.to, p.msg.from, p.key)),
                          IndexPut(p.msg.from, p.msg.to, p.key))]
    /\ UNCHANGED <<clientVars, serverVars, reconnects>>

\* Mutant: the picker's block writes where the video's does.
AckImageFlat(d) ==
    LET p == Head(puts[d]) IN
    /\ Acked(d)
    /\ p.msg.kind # "video"
    /\ p.msg.from # DemoFrom
    /\ LET index(o, q) == IF p.msg.kind = "image" THEN FlatPut(o, p.key)
                                                  ELSE IndexPut(o, q, p.key)
       IN puts' = [puts EXCEPT ![d] =
                     Append(Append(Tail(@), index(p.msg.from, p.msg.to)),
                            index(p.msg.to, p.msg.from))]
    /\ UNCHANGED <<clientVars, serverVars, reconnects>>

\* The completion block of a text or an image: the two index writes.
AckMessage(d) ==
    LET p == Head(puts[d]) IN
    /\ Acked(d)
    /\ p.msg.kind # "video"
    /\ p.msg.from # DemoFrom
    /\ puts' = [puts EXCEPT ![d] =
                   Append(Append(Tail(@), IndexPut(p.msg.from, p.msg.to, p.key)),
                          IndexPut(p.msg.to, p.msg.from, p.key))]
    /\ UNCHANGED <<clientVars, serverVars, reconnects>>

\* Mutant: the sender is read when the write is acknowledged.
AckVideoLateSender(d) ==
    LET p == Head(puts[d]) IN
    /\ Acked(d)
    /\ p.msg.kind = "video"
    /\ p.msg.from # DemoFrom
    /\ p.msg.to # DemoTo
    /\ puts' = [puts EXCEPT ![d] =
                   Append(Append(Tail(@), FlatPut(currentUser[d], p.key)),
                          FlatPut(p.msg.to, p.key))]
    /\ UNCHANGED <<clientVars, serverVars, reconnects>>

\* The completion block of a video: the index writes leave the partner out
\* of the path.
AckVideo(d) ==
    LET p == Head(puts[d]) IN
    /\ Acked(d)
    /\ p.msg.kind = "video"
    /\ p.msg.from # DemoFrom
    /\ p.msg.to # DemoTo
    /\ puts' = [puts EXCEPT ![d] =
                   Append(Append(Tail(@), FlatPut(p.msg.from, p.key)),
                          FlatPut(p.msg.to, p.key))]
    /\ UNCHANGED <<clientVars, serverVars, reconnects>>

\* `fromID!` when nobody was signed in at the send.
AckCrashFrom(d) ==
    /\ Acked(d)
    /\ Head(puts[d]).msg.from = DemoFrom
    /\ Die(d)
    /\ puts' = [puts EXCEPT ![d] = Tail(@)]
    /\ UNCHANGED <<serverVars, reconnects>>

\* `toID!` of a video sent before the profile arrived: the first index write
\* has been issued by then.
AckCrashTo(d) ==
    LET p == Head(puts[d]) IN
    /\ Acked(d)
    /\ p.msg.from # DemoFrom
    /\ p.msg.to = DemoTo
    /\ Die(d)
    /\ puts' = [puts EXCEPT ![d] = Append(Tail(@), FlatPut(p.msg.from, p.key))]
    /\ UNCHANGED <<serverVars, reconnects>>

-----------------------------------------------------------------------------
ChatStep(s) ==
    \/ \E p \in Users : OpenFromNewMessage(s, p) \/ OpenFromInbox(s, p)
    \/ ProfileLoaded(s) \/ LeaveChat(s) \/ SendText(s) \/ SendTextCrash(s)
    \/ \E j \in Jobs, n \in Paths : PickImage(s, j, n) \/ PickVideo(s, j, n)

JobStep(j) ==
    \/ PutFileDone(j) \/ ThumbnailCrash(j) \/ PutDataDone(j)
    \/ \E n \in Paths : MovieURLDone(j, n)
    \/ ImageURLDone(j) \/ ImageURLFailed(j) \/ ImageURLCrash(j)

DeviceStep(d) ==
    \/ \E u \in Users : SignIn(d, u) \/ DeleteConversation(d, u)
    \/ SignOut(d) \/ RevokeSession(d) \/ Kill(d) \/ Relaunch(d)

ConnectionStep(d) ==
    \/ ServerAccept(d) \/ ServerDeny(d) \/ Reconnect(d)
    \/ AckOther(d) \/ AckMessage(d) \/ AckVideo(d)
    \/ AckCrashFrom(d) \/ AckCrashTo(d)

Next ==
    \/ \E s \in Chats : ChatStep(s)
    \/ \E j \in Jobs : JobStep(j)
    \/ \E d \in Devices : DeviceStep(d) \/ ConnectionStep(d)

Spec == Init /\ [][Next]_vars

\* What keeps running without the user: the connection delivers, the server
\* answers and the main queue runs the completion blocks.
Fairness ==
    \A d \in Devices :
        WF_vars(ServerAccept(d) \/ ServerDeny(d) \/ AckOther(d) \/ AckMessage(d)
                \/ AckVideo(d) \/ AckCrashFrom(d) \/ AckCrashTo(d))

FairSpec == Spec /\ Fairness

-----------------------------------------------------------------------------
(* Properties.                                                             *)

\* The type invariant: every record the client queues or the server stores
\* has the shape its readers cast it to.
TypeOK ==
    /\ up \in [Devices -> BOOLEAN]
    /\ screen \in [Devices -> Chats \cup {Login, Inbox}]
    /\ currentUser \in [Devices -> Users \cup {NoUser}]
    /\ partner \in [Chats -> Users \cup {NoUser}]
    /\ user \in [Chats -> Users \cup {NoUser}]
    /\ job \in [Jobs -> Job]
    /\ used \subseteq Keys
    /\ puts \in [Devices -> Seq(Put)]
    /\ mess \in [Keys -> Message \cup {NoMsg}]
    /\ userMess \subseteq Users \X Users \X Keys
    /\ userMessFlat \subseteq Users \X Keys
    /\ storage \subseteq Object
    /\ reconnects \in 0..MaxReconnects

Participants(m) == {m.from, m.to}

\* An index entry is never ahead of its message and never in the list of an
\* account that neither sent nor received it, in any order of
\* acknowledgements, refusals, retransmissions and kills.  The readers
\* depend on it: `snap.value as! NSDictionary` on mess/<key> in
\* get_message_2 and get_message_user_partner fails on a missing message.
IndexRefersToMessage ==
    /\ \A e \in userMess : /\ mess[e[3]] # NoMsg
                           /\ {e[1], e[2]} = Participants(mess[e[3]])
    /\ \A e \in userMessFlat : /\ mess[e[2]] # NoMsg
                               /\ e[1] \in Participants(mess[e[2]])

Elems(q) == {q[i] : i \in 1..Len(q)}
Queued(d) == Elems(puts[d])

\* What an outstanding write may rely on.
Agrees(p) ==
    /\ p.at = "mess" => /\ p.key \in used
                        /\ mess[p.key] \in {NoMsg, p.msg}
                        /\ p.reply = "ok" => mess[p.key] = p.msg
    /\ p.at = "index" => /\ mess[p.key] # NoMsg
                         /\ {p.owner, p.partner} = Participants(mess[p.key])
    /\ p.at = "flat" => /\ mess[p.key] # NoMsg
                        /\ p.owner \in Participants(mess[p.key])

\* The inductive strengthening of IndexRefersToMessage: a key is handed out
\* once, so whatever is written under it, now or by a retransmission, is one
\* message; index writes are queued only after the message was stored.
IndexInv ==
    /\ \A d \in Devices : \A p \in Queued(d) : Agrees(p)
    /\ \A d, e \in Devices : \A p \in Queued(d), q \in Queued(e) :
          p.at = "mess" /\ q.at = "mess" /\ p.key = q.key => p.msg = q.msg
    /\ \A k \in Keys : mess[k] # NoMsg => k \in used
    /\ IndexRefersToMessage

InBucket(msg) ==
    /\ msg.image # NoPath => Picture(msg.image) \in storage
    /\ msg.video # NoPath => Movie(msg.video) \in storage

\* A message that is readable never shows a picture or a movie the bucket
\* does not hold, although an error of putFile or of the movie's downloadURL
\* is only printed (upload_image_chat_to_firebase, upload_video_to_firebase).
MediaBeforeMessage == \A k \in Keys : mess[k] # NoMsg => InBucket(mess[k])

\* Its inductive strengthening: a message is queued only when its media are
\* in the bucket, and an upload asks for a URL only of what it has put there.
MediaInv ==
    /\ MediaBeforeMessage
    /\ \A d \in Devices : \A p \in Queued(d) : p.at = "mess" => InBucket(p.msg)
    /\ \A j \in Jobs :
          /\ job[j].stage = "imageURL" => Picture(job[j].path) \in storage
          /\ job[j].stage \in {"putData", "imageURL"} =>
                job[j].movie = NoPath \/ Movie(job[j].movie) \in storage

\* A stored message never changes: what restoreState sends a second time,
\* possibly long after others wrote, is what is already there.
StoredMessageStable ==
    [][\A k \in Keys : mess[k] # NoMsg => mess'[k] = mess[k]]_vars

\* When nothing is refused or deleted, a message the recipient is shown is
\* also in the sender's own list, even if the app died between the two
\* writes of the completion block or the connection was lost.
RecipientListedAfterSender ==
    \A e \in userMess :
        e[1] = mess[e[3]].to => <<mess[e[3]].from, e[1], e[3]>> \in userMess

\* A message of one of these kinds is queued on d under key k, and both
\* accounts were known when it was written.
InFlight(d, k, kinds) ==
    \E i \in 1..Len(puts[d]) :
        /\ puts[d][i].at = "mess"
        /\ puts[d][i].key = k
        /\ puts[d][i].msg.kind \in kinds
        /\ puts[d][i].msg.from # DemoFrom
        /\ puts[d][i].msg.to # DemoTo

ListedForBoth(k) ==
    /\ mess[k] # NoMsg
    /\ <<mess[k].from, mess[k].to, k>> \in userMess
    /\ <<mess[k].to, mess[k].from, k>> \in userMess

\* Unless the app dies, a text or an image that was sent ends up in the
\* lists of both, over connection losses at any point of the three writes
\* (send_data_to_Firebase, imagePickerController).
Delivered ==
    \A d \in Devices : \A k \in Keys :
        InFlight(d, k, {"text", "image"}) ~> (ListedForBoth(k) \/ ~up[d])

==============================================================================
