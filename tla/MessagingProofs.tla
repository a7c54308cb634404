--------------------------- MODULE MessagingProofs ---------------------------
(***************************************************************************)
(* Theorems about Messaging, for every set of phones, accounts, chats,     *)
(* keys and object names and every setting of the bounds.                  *)
(***************************************************************************)
EXTENDS Messaging, FiniteSetTheorems, TLAPS

\* A chat instance lives on a phone, so every handler acts on one.
LEMMA DeviceOfChat == \A s \in Chats : DeviceOf[s] \in Devices
BY ScreensAssumption

\* The four kinds of write the client queues are well-formed puts.
LEMMA PutShapes ==
    /\ \A k \in Keys, m \in Message : MessPut(k, m) \in Put
    /\ \A k \in Keys, o \in Users, p \in Users : IndexPut(o, p, k) \in Put
    /\ \A k \in Keys, o \in Users : FlatPut(o, k) \in Put
    /\ \A o \in Users, p \in Users : DeletePut(o, p) \in Put
BY DEF MessPut, IndexPut, FlatPut, DeletePut, Put, Reply

\* The initial state is well-typed.
LEMMA TypeInit == Init => TypeOK
BY BoundsAssumption DEF Init, TypeOK, Idle, Job

\* The death of an app (a failed unwrap or a kill) keeps the client's types.
LEMMA DieType ==
    ASSUME TypeOK, NEW d \in Devices, Die(d)
    PROVE  /\ up' \in [Devices -> BOOLEAN]
           /\ screen' \in [Devices -> Chats \cup {Login, Inbox}]
           /\ currentUser' \in [Devices -> Users \cup {NoUser}]
           /\ partner' \in [Chats -> Users \cup {NoUser}]
           /\ user' \in [Chats -> Users \cup {NoUser}]
           /\ job' \in [Jobs -> Job]
           /\ used' \subseteq Keys
BY DEF TypeOK, Die, Idle, Job

\* Writing a message keeps the types of the queue and of the handed-out keys.
LEMMA WriteMessageType ==
    ASSUME TypeOK, NEW d \in Devices, NEW m \in Message, WriteMessage(d, m)
    PROVE  used' \subseteq Keys /\ puts' \in [Devices -> Seq(Put)]
BY PutShapes DEF TypeOK, WriteMessage

\* Every handler of a chat screen keeps the types.
LEMMA ChatStepType ==
    ASSUME TypeOK, NEW s \in Chats, ChatStep(s) PROVE TypeOK'
<1> USE DeviceOfChat DEF TypeOK, serverVars
<1>1. ASSUME NEW p \in Users, OpenFromNewMessage(s, p) PROVE TypeOK'
  BY <1>1 DEF OpenFromNewMessage
<1>2. ASSUME NEW p \in Users, OpenFromInbox(s, p) PROVE TypeOK'
  BY <1>2 DEF OpenFromInbox
<1>3. CASE ProfileLoaded(s)
  BY <1>3 DEF ProfileLoaded
<1>4. CASE LeaveChat(s)
  BY <1>4 DEF LeaveChat
<1>5. CASE SendText(s)
  <2> DEFINE m == [kind |-> "text", from |-> FromId(DeviceOf[s]),
                   to |-> user[s], image |-> NoPath, video |-> NoPath]
  <2>1. m \in Message
    BY <1>5 DEF SendText, Message, FromId
  <2>2. WriteMessage(DeviceOf[s], m)
    BY <1>5 DEF SendText
  <2> HIDE DEF m
  <2>3. used' \subseteq Keys /\ puts' \in [Devices -> Seq(Put)]
    BY <2>1, <2>2, WriteMessageType
  <2> QED BY <1>5, <2>3 DEF SendText
<1>6. CASE SendTextCrash(s)
  <2>1. Die(DeviceOf[s])
    BY <1>6 DEF SendTextCrash
  <2> QED BY <1>6, <2>1, DieType DEF SendTextCrash
<1>7. ASSUME NEW j \in Jobs, NEW n \in Paths, PickImage(s, j, n) PROVE TypeOK'
  BY <1>7 DEF PickImage, Job, ImageJob
<1>8. ASSUME NEW j \in Jobs, NEW n \in Paths, PickVideo(s, j, n) PROVE TypeOK'
  BY <1>8 DEF PickVideo, Job, MovieJob
<1> QED BY <1>1, <1>2, <1>3, <1>4, <1>5, <1>6, <1>7, <1>8 DEF ChatStep

\* What an upload knows at each of its stages.
LEMMA JobShape ==
    ASSUME NEW x \in Job, x.stage # "idle"
    PROVE  /\ x.chat \in Chats
           /\ \/ x \in MovieJob /\ x.stage \in {"putFile", "movieURL"}
              \/ x \in ThumbnailJob /\ x.stage \in {"putData", "imageURL"}
              \/ x \in ImageJob /\ x.stage \in {"putData", "imageURL"}
<1>1. x # Idle
  BY DEF Idle
<1>2. CASE x \in MovieJob
  BY <1>2 DEF MovieJob
<1>3. CASE x \in ThumbnailJob
  BY <1>3 DEF ThumbnailJob
<1>4. CASE x \in ImageJob
  BY <1>4 DEF ImageJob
<1> QED BY <1>1, <1>2, <1>3, <1>4 DEF Job

\* The steps of an upload lead from one of its stages to the next.
LEMMA JobMoves ==
    ASSUME NEW x \in Job
    PROVE  /\ x.stage = "putFile" => [x EXCEPT !.stage = "movieURL"] \in Job
           /\ x.stage = "putData" => [x EXCEPT !.stage = "imageURL"] \in Job
           /\ \A n \in Paths : x.stage = "movieURL" =>
                 /\ [x EXCEPT !.stage = "putData", !.path = n] \in Job
                 /\ [x EXCEPT !.stage = "putData", !.path = n,
                              !.movie = NoPath] \in Job
<1>1. CASE x.stage = "putFile"
  <2>1. x \in MovieJob
    BY <1>1, JobShape
  <2>2. [x EXCEPT !.stage = "movieURL"] \in MovieJob
    BY <2>1 DEF MovieJob
  <2> QED BY <1>1, <2>2 DEF Job
<1>2. CASE x.stage = "putData"
  <2>1. x \in ThumbnailJob \cup ImageJob
    BY <1>2, JobShape
  <2>2. CASE x \in ThumbnailJob
    <3>1. [x EXCEPT !.stage = "imageURL"] \in ThumbnailJob
      BY <2>2 DEF ThumbnailJob
    <3> QED BY <1>2, <3>1 DEF Job
  <2>3. CASE x \in ImageJob
    <3>1. [x EXCEPT !.stage = "imageURL"] \in ImageJob
      BY <2>3 DEF ImageJob
    <3> QED BY <1>2, <3>1 DEF Job
  <2> QED BY <2>1, <2>2, <2>3
<1>3. CASE x.stage = "movieURL"
  <2>1. x \in MovieJob
    BY <1>3, JobShape
  <2>2. ASSUME NEW n \in Paths
        PROVE  /\ [x EXCEPT !.stage = "putData", !.path = n] \in ThumbnailJob
               /\ [x EXCEPT !.stage = "putData", !.path = n,
                            !.movie = NoPath] \in ThumbnailJob
    BY <2>1 DEF MovieJob, ThumbnailJob
  <2> QED BY <1>3, <2>2 DEF Job
<1>4. CASE x.stage \notin {"putFile", "putData", "movieURL"}
  BY <1>4
<1> QED BY <1>1, <1>2, <1>3, <1>4

\* A running upload knows its chat, hence its phone.
LEMMA RunningJob ==
    ASSUME TypeOK, NEW j \in Jobs, job[j].stage # "idle"
    PROVE  /\ job[j].chat \in Chats
           /\ DeviceOfJob(j) \in Devices
BY DeviceOfChat, JobShape DEF TypeOK, DeviceOfJob

\* What an upload that got its URLs writes is a message.
LEMMA MediaMessageType ==
    ASSUME TypeOK, NEW j \in Jobs, job[j].stage = "imageURL",
           job[j].video \/ user[job[j].chat] # NoUser
    PROVE  MediaMessage(j) \in Message
<1>1. FromId(DeviceOfJob(j)) \in Users \cup {DemoFrom}
  BY RunningJob DEF FromId, TypeOK
<1>2. job[j] \in ThumbnailJob \cup ImageJob
  BY JobShape DEF TypeOK
<1>3. user[job[j].chat] \in Users \cup {NoUser}
  BY RunningJob DEF TypeOK
<1>4. CASE job[j] \in ThumbnailJob
  <2>1. /\ job[j].video = TRUE /\ job[j].path \in Paths
        /\ job[j].movie \in Paths \cup {NoPath}
    BY <1>4 DEF ThumbnailJob
  <2>2. ToId(job[j].chat) \in Users \cup {DemoTo}
    BY <1>3 DEF ToId
  <2> QED BY <1>1, <2>1, <2>2 DEF MediaMessage, Message
<1>5. CASE job[j] \in ImageJob
  <2>1. job[j].video = FALSE /\ job[j].path \in Paths /\ job[j].movie = NoPath
    BY <1>5 DEF ImageJob
  <2>2. ToId(job[j].chat) \in Users
    BY <1>3, <2>1 DEF ToId
  <2> QED BY <1>1, <2>1, <2>2 DEF MediaMessage, Message
<1> QED BY <1>2, <1>4, <1>5

\* Every completion of an upload keeps the types.
LEMMA JobStepType ==
    ASSUME TypeOK, NEW j \in Jobs, JobStep(j) PROVE TypeOK'
<1> USE DEF serverVars
<1> DEFINE d == DeviceOfJob(j)
<1>1. CASE PutFileDone(j)
  <2>1. job' \in [Jobs -> Job]
    BY <1>1, JobMoves DEF PutFileDone, TypeOK
  <2>2. job[j].movie \in Paths
    BY <1>1, JobShape DEF PutFileDone, TypeOK, MovieJob
  <2> QED BY <1>1, <2>1, <2>2 DEF PutFileDone, TypeOK, Object, Movie
<1>2. ASSUME NEW n \in Paths, MovieURLDone(j, n) PROVE TypeOK'
  <2>1. /\ [job[j] EXCEPT !.stage = "putData", !.path = n] \in Job
        /\ [job[j] EXCEPT !.stage = "putData", !.path = n, !.movie = NoPath] \in Job
    BY <1>2, JobMoves DEF MovieURLDone, TypeOK
  <2>2. job' \in [Jobs -> Job]
    BY <1>2, <2>1 DEF MovieURLDone, TypeOK
  <2> QED BY <1>2, <2>2 DEF MovieURLDone, TypeOK
<1>3. CASE ThumbnailCrash(j)
  <2>1. d \in Devices /\ Die(d)
    BY <1>3, RunningJob DEF ThumbnailCrash
  <2> QED BY <1>3, <2>1, DieType DEF ThumbnailCrash, TypeOK
<1>4. CASE PutDataDone(j)
  <2>1. job[j].path \in Paths
    BY <1>4, JobShape DEF PutDataDone, TypeOK, ThumbnailJob, ImageJob
  <2>2. [job[j] EXCEPT !.stage = "imageURL"] \in Job /\ Idle \in Job
    BY <1>4, JobMoves DEF PutDataDone, TypeOK, Job
  <2>3. job' \in [Jobs -> Job]
    BY <1>4, <2>2 DEF PutDataDone, TypeOK
  <2> QED BY <1>4, <2>1, <2>3 DEF PutDataDone, TypeOK, Object, Picture
<1>5. CASE ImageURLDone(j)
  <2>1. d \in Devices
    BY <1>5, RunningJob DEF ImageURLDone
  <2>2. MediaMessage(j) \in Message
    BY <1>5, MediaMessageType DEF ImageURLDone
  <2>3. used' \subseteq Keys /\ puts' \in [Devices -> Seq(Put)]
    BY <1>5, <2>1, <2>2, WriteMessageType DEF ImageURLDone
  <2>4. job' \in [Jobs -> Job]
    BY <1>5 DEF ImageURLDone, TypeOK, Job
  <2> QED BY <1>5, <2>3, <2>4 DEF ImageURLDone, TypeOK
<1>6. CASE ImageURLFailed(j)
  BY <1>6 DEF ImageURLFailed, TypeOK, Job
<1>7. CASE ImageURLCrash(j)
  <2>1. d \in Devices /\ Die(d)
    BY <1>7, RunningJob DEF ImageURLCrash
  <2> QED BY <1>7, <2>1, DieType DEF ImageURLCrash, TypeOK
<1> QED BY <1>1, <1>2, <1>3, <1>4, <1>5, <1>6, <1>7 DEF JobStep

\* Signing in and out, deleting a conversation, a kill and a relaunch keep
\* the types.
LEMMA DeviceStepType ==
    ASSUME TypeOK, NEW d \in Devices, DeviceStep(d) PROVE TypeOK'
<1> USE DEF serverVars, clientVars
<1>1. ASSUME NEW u \in Users, SignIn(d, u) PROVE TypeOK'
  BY <1>1 DEF SignIn, TypeOK
<1>2. ASSUME NEW p \in Users, DeleteConversation(d, p) PROVE TypeOK'
  <2>1. DeletePut(currentUser[d], p) \in Put
    BY <1>2, PutShapes DEF DeleteConversation, TypeOK
  <2> QED BY <1>2, <2>1 DEF DeleteConversation, TypeOK
<1>3. CASE SignOut(d)
  BY <1>3 DEF SignOut, TypeOK
<1>4. CASE RevokeSession(d)
  BY <1>4 DEF RevokeSession, TypeOK
<1>5. CASE Kill(d)
  BY <1>5, DieType DEF Kill, TypeOK
<1>6. CASE Relaunch(d)
  BY <1>6 DEF Relaunch, TypeOK
<1> QED BY <1>1, <1>2, <1>3, <1>4, <1>5, <1>6 DEF DeviceStep

\* An answer changes the reply of a put and nothing else.
LEMMA AnswerType ==
    ASSUME TypeOK, NEW d \in Devices, NEW i \in 1..Len(puts[d]),
           NEW r \in Reply, Answer(d, i, r)
    PROVE  puts' \in [Devices -> Seq(Put)]
<1>1. puts[d] \in Seq(Put) /\ puts[d][i] \in Put
  BY DEF TypeOK
<1>2. [puts[d][i] EXCEPT !.reply = r] \in Put
  BY <1>1 DEF Put
<1>3. [puts[d] EXCEPT ![i].reply = r] \in Seq(Put)
  BY <1>1, <1>2
<1> QED BY <1>3 DEF Answer, TypeOK

\* The server's decisions, a lost connection and the completion blocks keep
\* the types.
LEMMA ConnectionStepType ==
    ASSUME TypeOK, NEW d \in Devices, ConnectionStep(d) PROVE TypeOK'
<1> USE DEF serverVars, clientVars
<1>1. CASE ServerAccept(d)
  <2>1. PICK i \in 1..Len(puts[d]) : /\ Answer(d, i, "ok")
                                     /\ Apply(d, i)
                                     /\ UNCHANGED <<clientVars, storage, reconnects>>
    BY <1>1 DEF ServerAccept
  <2>2. puts' \in [Devices -> Seq(Put)]
    BY <2>1, AnswerType DEF Reply
  <2>3. puts[d][i] \in Put
    BY DEF TypeOK
  <2>4. /\ mess' \in [Keys -> Message \cup {NoMsg}]
        /\ userMess' \subseteq Users \X Users \X Keys
        /\ userMessFlat' \subseteq Users \X Keys
    <3>1. CASE StoreMessage(d, i)
      BY <2>3, <3>1 DEF StoreMessage, TypeOK, Put
    <3>2. CASE StoreIndex(d, i)
      BY <2>3, <3>2 DEF StoreIndex, TypeOK, Put
    <3>3. CASE StoreFlat(d, i)
      BY <2>3, <3>3 DEF StoreFlat, TypeOK, Put
    <3>4. CASE RemoveConversation(d, i)
      BY <2>3, <3>4 DEF RemoveConversation, TypeOK, Put
    <3> QED BY <2>1, <3>1, <3>2, <3>3, <3>4 DEF Apply
  <2> QED BY <2>1, <2>2, <2>4 DEF TypeOK
<1>2. CASE ServerDeny(d)
  <2>1. puts' \in [Devices -> Seq(Put)]
    BY <1>2, AnswerType DEF ServerDeny, Reply
  <2> QED BY <1>2, <2>1 DEF ServerDeny, TypeOK
<1>3. CASE Reconnect(d)
  <2> DEFINE q == [i \in 1..Len(puts[d]) |-> [puts[d][i] EXCEPT !.reply = "none"]]
  <2>1. puts[d] \in Seq(Put)
    BY DEF TypeOK
  <2>2. \A i \in 1..Len(puts[d]) : [puts[d][i] EXCEPT !.reply = "none"] \in Put
    BY <2>1 DEF Put, Reply
  <2>3. q \in Seq(Put)
    BY <2>1, <2>2
  <2> HIDE DEF q
  <2>4. puts' = [puts EXCEPT ![d] = q]
    BY <1>3 DEF Reconnect, q
  <2>5. reconnects' \in 0..MaxReconnects
    BY <1>3, BoundsAssumption DEF Reconnect, TypeOK
  <2>6. puts' \in [Devices -> Seq(Put)]
    BY <2>3, <2>4 DEF TypeOK
  <2> QED BY <1>3, <2>5, <2>6 DEF Reconnect, TypeOK
<1>4. CASE AckOther(d)
  BY <1>4 DEF AckOther, Answered, TypeOK
<1> DEFINE p == Head(puts[d])
<1>5. ASSUME Acked(d)
      PROVE  /\ puts[d] \in Seq(Put) /\ puts[d] # <<>>
             /\ p.key \in Keys
             /\ p.msg \in Message
  <2>1. puts[d] \in Seq(Put) /\ puts[d] # <<>> /\ p \in Put
    BY <1>5 DEF Acked, Answered, TypeOK
  <2> QED BY <1>5, <2>1 DEF Acked, Put
<1>6. CASE AckMessage(d)
  <2>1. Acked(d) /\ p.msg.kind # "video" /\ p.msg.from # DemoFrom
    BY <1>6 DEF AckMessage
  <2>2. p.msg.from \in Users /\ p.msg.to \in Users
    BY <1>5, <2>1 DEF Message
  <2>3. /\ IndexPut(p.msg.from, p.msg.to, p.key) \in Put
        /\ IndexPut(p.msg.to, p.msg.from, p.key) \in Put
    BY <1>5, <2>1, <2>2, PutShapes
  <2> QED BY <1>5, <1>6, <2>1, <2>3 DEF AckMessage, TypeOK
<1>7. CASE AckVideo(d)
  <2>1. Acked(d) /\ p.msg.from # DemoFrom /\ p.msg.to # DemoTo
    BY <1>7 DEF AckVideo
  <2>2. p.msg.from \in Users /\ p.msg.to \in Users
    BY <1>5, <2>1 DEF Message
  <2>3. FlatPut(p.msg.from, p.key) \in Put /\ FlatPut(p.msg.to, p.key) \in Put
    BY <1>5, <2>1, <2>2, PutShapes
  <2> QED BY <1>5, <1>7, <2>1, <2>3 DEF AckVideo, TypeOK
<1>8. CASE AckCrashFrom(d)
  BY <1>5, <1>8, DieType DEF AckCrashFrom, TypeOK
<1>9. CASE AckCrashTo(d)
  <2>1. Acked(d) /\ p.msg.from # DemoFrom
    BY <1>9 DEF AckCrashTo
  <2>2. FlatPut(p.msg.from, p.key) \in Put
    BY <1>5, <2>1, PutShapes DEF Message
  <2> QED BY <1>5, <1>9, <2>1, <2>2, DieType DEF AckCrashTo, TypeOK
<1> QED BY <1>1, <1>2, <1>3, <1>4, <1>6, <1>7, <1>8, <1>9 DEF ConnectionStep

\* Every step keeps the types.
LEMMA TypeStep == TypeOK /\ [Next]_vars => TypeOK'
<1> SUFFICES ASSUME TypeOK, [Next]_vars PROVE TypeOK'
  OBVIOUS
<1>1. CASE UNCHANGED vars
  BY <1>1 DEF vars, TypeOK
<1>2. CASE Next
  BY <1>2, ChatStepType, JobStepType, DeviceStepType, ConnectionStepType DEF Next
<1> QED BY <1>1, <1>2

\* The client never queues and the server never stores a record of a shape
\* its readers do not expect, for any number of phones, accounts and uploads.
THEOREM TypeCorrect == Spec => []TypeOK
<1>1. TypeOK /\ [Next]_vars => TypeOK'
  BY TypeStep
<1> QED BY TypeInit, <1>1, PTL DEF Spec

-----------------------------------------------------------------------------
(***************************************************************************)
(* Safety: what an index entry promises, that a stored message is final,   *)
(* that its media are in the bucket, and that the recipient's list is      *)
(* never ahead of the sender's.                                            *)
(***************************************************************************)

(* Queues as sets of puts.                                                 *)

\* Appending to a queue adds one element.
LEMMA ElemsAppend ==
    ASSUME NEW S, NEW q \in Seq(S), NEW x \in S
    PROVE  \A p \in Elems(Append(q, x)) : p \in Elems(q) \/ p = x
BY DEF Elems

\* Dropping the head of a queue adds none.
LEMMA ElemsTail ==
    ASSUME NEW S, NEW q \in Seq(S), q # <<>>
    PROVE  /\ Elems(Tail(q)) \subseteq Elems(q)
           /\ Head(q) \in Elems(q)
           /\ Tail(q) \in Seq(S)
BY DEF Elems

\* What the types say of one outstanding put.
LEMMA QueuedType ==
    ASSUME TypeOK, NEW d \in Devices, NEW p \in Queued(d)
    PROVE  /\ p \in Put
           /\ p.at = "mess" => p.key \in Keys /\ p.msg \in Message
           /\ p.at \in {"index", "flat"} => p.key \in Keys
BY DEF TypeOK, Queued, Elems, Put

\* Equal up to the server's answer.
Same(p, q) == /\ p.at = q.at
              /\ p.key = q.key
              /\ p.msg = q.msg
              /\ p.owner = q.owner
              /\ p.partner = q.partner

\* p is what became of q: the answer may be lost, or arrive for a put that
\* is not a message.
After(p, q) == /\ Same(p, q)
               /\ p.at = "mess" /\ p.reply = "ok" => q.reply = "ok"

\* An answer changes one put of one queue.
LEMMA ElemsAnswer ==
    ASSUME TypeOK, NEW d \in Devices, NEW i \in 1..Len(puts[d]), NEW r \in Reply,
           Answer(d, i, r)
    PROVE  \A e \in Devices : \A p \in Queued(e)' :
              p \in Queued(e) \/ p = [puts[d][i] EXCEPT !.reply = r]
BY DEF TypeOK, Queued, Elems, Answer

\* The steps that store no message and write none keep the invariant, when
\* the writes they add and the entries they store agree with what is stored.
LEMMA IndexKeep ==
    ASSUME TypeOK, IndexInv, mess' = mess, used \subseteq used',
           \A e \in userMess' :
              \/ e \in userMess
              \/ mess[e[3]] # NoMsg /\ {e[1], e[2]} = Participants(mess[e[3]]),
           \A e \in userMessFlat' :
              \/ e \in userMessFlat
              \/ mess[e[2]] # NoMsg /\ e[1] \in Participants(mess[e[2]]),
           \A d \in Devices : \A p \in Queued(d)' :
              \/ \E q \in Queued(d) : After(p, q)
              \/ p.at # "mess" /\ Agrees(p)
    PROVE  IndexInv'
<1>1. IndexRefersToMessage'
  BY DEF IndexInv, IndexRefersToMessage, Participants
<1>2. ASSUME NEW d \in Devices, NEW p \in Queued(d)' PROVE Agrees(p)'
  <2>1. CASE \E q \in Queued(d) : After(p, q)
    BY <2>1 DEF IndexInv, Agrees, After, Same
  <2>2. CASE p.at # "mess" /\ Agrees(p)
    BY <2>2 DEF Agrees
  <2> QED BY <2>1, <2>2
<1>3. ASSUME NEW d \in Devices, NEW e \in Devices,
             NEW p \in Queued(d)', NEW q \in Queued(e)',
             p.at = "mess", q.at = "mess", p.key = q.key
      PROVE  p.msg = q.msg
  BY <1>3 DEF IndexInv, After, Same
<1>4. \A k \in Keys : mess'[k] # NoMsg => k \in used'
  BY DEF IndexInv
<1> QED BY <1>1, <1>2, <1>3, <1>4 DEF IndexInv

\* Steps that leave the queues and the database alone.
LEMMA IndexIdle ==
    ASSUME TypeOK, IndexInv, UNCHANGED <<puts, used, mess, userMess, userMessFlat>>
    PROVE  IndexInv'
<1>1. \A d \in Devices : Queued(d)' = Queued(d)
  BY DEF Queued, Elems
<1>2. \A d \in Devices : \A p \in Queued(d)' : \E q \in Queued(d) : After(p, q)
  BY <1>1 DEF After, Same
<1> QED BY <1>2, IndexKeep

\* A message is written under a key nothing else was written under.
LEMMA IndexWrite ==
    ASSUME TypeOK, IndexInv, NEW d \in Devices, NEW m \in Message,
           WriteMessage(d, m), UNCHANGED <<mess, userMess, userMessFlat>>
    PROVE  IndexInv'
<1>1. PICK k \in Keys \ used : /\ used' = used \cup {k}
                               /\ puts' = [puts EXCEPT ![d] = Append(@, MessPut(k, m))]
  BY DEF WriteMessage
<1>2. mess[k] = NoMsg
  BY <1>1 DEF IndexInv
<1>3. /\ MessPut(k, m).at = "mess" /\ MessPut(k, m).key = k
      /\ MessPut(k, m).reply = "none"
  BY DEF MessPut
<1>4. \A e \in Devices : \A p \in Queued(e)' : p \in Queued(e) \/ p = MessPut(k, m)
  <2>1. puts[d] \in Seq(Put) /\ MessPut(k, m) \in Put
    BY PutShapes DEF TypeOK
  <2> QED BY <1>1, <2>1, ElemsAppend DEF Queued, TypeOK
<1>5. \A e \in Devices : \A p \in Queued(e) : p.at = "mess" => p.key # k
  BY <1>1 DEF IndexInv, Agrees
<1>6. ASSUME NEW e \in Devices, NEW p \in Queued(e)' PROVE Agrees(p)'
  BY <1>1, <1>2, <1>3, <1>4 DEF IndexInv, Agrees
<1>7. ASSUME NEW e \in Devices, NEW f \in Devices,
             NEW p \in Queued(e)', NEW q \in Queued(f)',
             p.at = "mess", q.at = "mess", p.key = q.key
      PROVE  p.msg = q.msg
  <2>1. CASE p \in Queued(e) /\ q \in Queued(f)
    BY <1>7, <2>1 DEF IndexInv
  <2>2. CASE p = MessPut(k, m)
    BY <1>3, <1>4, <1>5, <1>7, <2>2
  <2>3. CASE q = MessPut(k, m)
    BY <1>3, <1>4, <1>5, <1>7, <2>3
  <2> QED BY <1>4, <2>1, <2>2, <2>3
<1>8. IndexRefersToMessage' /\ \A j \in Keys : mess'[j] # NoMsg => j \in used'
  BY <1>1 DEF IndexInv, IndexRefersToMessage, Participants
<1> QED BY <1>6, <1>7, <1>8 DEF IndexInv

\* Storing a message changes nothing that was stored.
LEMMA MessageFinal ==
    ASSUME TypeOK, IndexInv, NEW d \in Devices, NEW i \in 1..Len(puts[d]),
           StoreMessage(d, i)
    PROVE  /\ \A k \in Keys : mess[k] # NoMsg => mess'[k] = mess[k]
           /\ \A k \in Keys : mess'[k] # NoMsg => k \in used
           /\ mess'[puts[d][i].key] = puts[d][i].msg
<1>1. puts[d][i] \in Queued(d)
  BY DEF Queued, Elems
<1>2. puts[d][i].key \in Keys /\ Agrees(puts[d][i])
  BY <1>1, QueuedType DEF StoreMessage, IndexInv
<1> QED BY <1>2 DEF StoreMessage, IndexInv, Agrees, TypeOK

\* The server's acceptance of a put keeps the invariant.
LEMMA IndexAccept ==
    ASSUME TypeOK, IndexInv, NEW d \in Devices, ServerAccept(d) PROVE IndexInv'
<1>1. PICK i \in 1..Len(puts[d]) : /\ Answer(d, i, "ok")
                                   /\ Apply(d, i)
                                   /\ UNCHANGED <<clientVars, storage, reconnects>>
  BY DEF ServerAccept
<1>0. PICK x, y : x = puts[d][i] /\ y = [puts[d][i] EXCEPT !.reply = "ok"]
  OBVIOUS
<1>2. x \in Queued(d) /\ x \in Put /\ Agrees(x)
  BY <1>0, QueuedType DEF Queued, Elems, IndexInv
<1>3. Same(y, x) /\ y.reply = "ok"
  BY <1>0, <1>2 DEF Same, Put
<1>4. \A e \in Devices : \A p \in Queued(e)' : p \in Queued(e) \/ p = y
  BY <1>0, <1>1, ElemsAnswer DEF Reply
<1>5. used' = used
  BY <1>1 DEF clientVars
<1>6. CASE StoreMessage(d, i)
  <2>1. /\ \A k \in Keys : mess[k] # NoMsg => mess'[k] = mess[k]
        /\ \A k \in Keys : mess'[k] # NoMsg => k \in used
        /\ mess'[x.key] = x.msg
    BY <1>0, <1>6, MessageFinal
  <2>2. x.at = "mess" /\ x.key \in Keys
    BY <1>0, <1>2, <1>6, QueuedType DEF StoreMessage
  <2>3. mess' = [mess EXCEPT ![x.key] = x.msg]
    BY <1>0, <1>6 DEF StoreMessage
  <2>4. ASSUME NEW e \in Devices, NEW p \in Queued(e) PROVE Agrees(p)'
    <3>1. Agrees(p) /\ (p.at = "mess" /\ p.key = x.key => p.msg = x.msg)
      BY <1>2, <2>2 DEF IndexInv
    <3>2. p.at \in {"mess", "index", "flat"} => p.key \in Keys
      BY QueuedType
    <3> QED BY <1>5, <2>1, <2>2, <2>3, <3>1, <3>2 DEF Agrees, TypeOK, Participants
  <2>5. Agrees(y)'
    BY <1>2, <1>3, <1>5, <2>1, <2>2 DEF Agrees, Same
  <2>6. \A e \in Devices : \A p \in Queued(e)' : Agrees(p)'
    BY <1>4, <2>4, <2>5
  <2>7. ASSUME NEW e \in Devices, NEW f \in Devices,
               NEW p \in Queued(e)', NEW q \in Queued(f)',
               p.at = "mess", q.at = "mess", p.key = q.key
        PROVE  p.msg = q.msg
    <3>1. \E c \in Devices : \E p1 \in Queued(c) : Same(p, p1)
      BY <1>2, <1>3, <1>4 DEF Same
    <3>2. \E c \in Devices : \E q1 \in Queued(c) : Same(q, q1)
      BY <1>2, <1>3, <1>4 DEF Same
    <3>3. PICK c \in Devices : \E p1 \in Queued(c) : Same(p, p1)
      BY <3>1
    <3>4. PICK p1 \in Queued(c) : Same(p, p1)
      BY <3>3
    <3>5. PICK g \in Devices : \E q1 \in Queued(g) : Same(q, q1)
      BY <3>2
    <3>6. PICK q1 \in Queued(g) : Same(q, q1)
      BY <3>5
    <3>7. p1.at = "mess" /\ q1.at = "mess" /\ p1.key = q1.key
      BY <2>7, <3>4, <3>6 DEF Same
    <3>8. p1.msg = q1.msg
      BY <3>7 DEF IndexInv
    <3> QED BY <3>4, <3>6, <3>8 DEF Same
  <2>8. IndexRefersToMessage'
    BY <1>6, <2>1 DEF StoreMessage, IndexInv, IndexRefersToMessage, TypeOK, Participants
  <2> QED BY <1>5, <2>1, <2>6, <2>7, <2>8 DEF IndexInv
<1>7. CASE ~StoreMessage(d, i)
  <2>1. mess' = mess /\ x.at # "mess"
    BY <1>0, <1>1, <1>7 DEF Apply, StoreMessage, StoreIndex, StoreFlat, RemoveConversation
  <2>2. \A e \in Devices : \A p \in Queued(e)' : \E q \in Queued(e) \cup {x} : After(p, q)
    BY <1>2, <1>3, <1>4, <2>1 DEF After, Same
  <2>3. \A e \in Devices : \A p \in Queued(e)' :
            \/ \E q \in Queued(e) : After(p, q)
            \/ p.at # "mess" /\ Agrees(p)
    BY <1>2, <2>1, <2>2 DEF After, Same, Agrees
  <2>4. \A e \in userMess' :
            \/ e \in userMess
            \/ mess[e[3]] # NoMsg /\ {e[1], e[2]} = Participants(mess[e[3]])
    BY <1>0, <1>1, <1>2, <1>7 DEF Apply, StoreIndex, StoreFlat, RemoveConversation, Agrees
  <2>5. \A e \in userMessFlat' :
            \/ e \in userMessFlat
            \/ mess[e[2]] # NoMsg /\ e[1] \in Participants(mess[e[2]])
    BY <1>0, <1>1, <1>2, <1>7 DEF Apply, StoreIndex, StoreFlat, RemoveConversation, Agrees
  <2> QED BY <1>5, <2>1, <2>3, <2>4, <2>5, IndexKeep
<1> QED BY <1>6, <1>7

\* A lost connection loses answers and nothing else.
LEMMA ReconnectAfter ==
    ASSUME TypeOK, NEW d \in Devices, Reconnect(d)
    PROVE  \A e \in Devices : \A p \in Queued(e)' : \E q \in Queued(e) : After(p, q)
<1> DEFINE q0 == [i \in 1..Len(puts[d]) |-> [puts[d][i] EXCEPT !.reply = "none"]]
<1>1. puts[d] \in Seq(Put) /\ puts' = [puts EXCEPT ![d] = q0]
  BY DEF Reconnect, TypeOK
<1>2. ASSUME NEW p \in Elems(q0) PROVE \E q \in Queued(d) : After(p, q)
  <2>1. Len(q0) = Len(puts[d])
    BY <1>1
  <2>2. PICK i \in 1..Len(puts[d]) : p = [puts[d][i] EXCEPT !.reply = "none"]
    BY <2>1 DEF Elems
  <2>3. puts[d][i] \in Put /\ puts[d][i] \in Queued(d)
    BY <1>1 DEF Queued, Elems
  <2>4. After(p, puts[d][i])
    BY <2>2, <2>3 DEF After, Same, Put
  <2> QED BY <2>3, <2>4
<1> HIDE DEF q0
<1>3. \A e \in Devices : \A p \in Queued(e) : After(p, p)
  BY DEF After, Same
<1> QED BY <1>1, <1>2, <1>3 DEF Queued, TypeOK

\* An answer leaves the writes as they are, and a refusal acknowledges none.
LEMMA AnswerSame ==
    ASSUME TypeOK, NEW d \in Devices, NEW i \in 1..Len(puts[d]), NEW r \in Reply,
           Answer(d, i, r)
    PROVE  \A e \in Devices : \A p \in Queued(e)' :
              \E q \in Queued(e) : Same(p, q) /\ (r # "ok" => After(p, q))
<1>1. \A e \in Devices : \A p \in Queued(e)' :
          p \in Queued(e) \/ p = [puts[d][i] EXCEPT !.reply = r]
  BY ElemsAnswer
<1>2. PICK y : y = [puts[d][i] EXCEPT !.reply = r]
  OBVIOUS
<1>3. puts[d][i] \in Queued(d) /\ puts[d][i] \in Put
  BY DEF Queued, Elems, TypeOK
<1>4. Same(y, puts[d][i]) /\ (r # "ok" => After(y, puts[d][i]))
  BY <1>2, <1>3 DEF After, Same, Put
<1>5. \A e \in Devices : \A p \in Queued(e) : Same(p, p) /\ After(p, p)
  BY DEF After, Same
<1>6. ASSUME NEW e \in Devices, NEW p \in Queued(e)'
      PROVE  \E q \in Queued(e) : Same(p, q) /\ (r # "ok" => After(p, q))
  <2>1. CASE p \in Queued(e)
    BY <1>5, <2>1
  <2>2. CASE p \notin Queued(e)
    <3>1. p = y /\ e = d
      BY <1>1, <1>2, <2>2 DEF Answer, Queued, TypeOK
    <3> QED BY <1>3, <1>4, <3>1
  <2> QED BY <2>1, <2>2
<1> QED BY <1>6

\* A refusal, a lost connection and a retransmission keep the invariant: the
\* answers change, the writes do not.
LEMMA IndexAnswer ==
    ASSUME TypeOK, IndexInv, NEW d \in Devices, ServerDeny(d) \/ Reconnect(d)
    PROVE  IndexInv'
<1>1. \A e \in Devices : \A p \in Queued(e)' : \E q \in Queued(e) : After(p, q)
  <2>1. CASE ServerDeny(d)
    <3>1. PICK i \in 1..Len(puts[d]) : Answer(d, i, "denied")
      BY <2>1 DEF ServerDeny
    <3>2. \A e \in Devices : \A p \in Queued(e)' :
              \E q \in Queued(e) : "denied" # "ok" => After(p, q)
      BY <3>1, AnswerSame DEF Reply
    <3> QED BY <3>2
  <2>2. CASE Reconnect(d)
    BY <2>2, ReconnectAfter
  <2> QED BY <2>1, <2>2
<1> QED BY <1>1, IndexKeep DEF ServerDeny, Reconnect, clientVars, serverVars

\* The completion blocks queue index writes only, of messages that are stored.
LEMMA AckElems ==
    ASSUME TypeOK, IndexInv, NEW d \in Devices,
           \/ AckOther(d) \/ AckMessage(d) \/ AckVideo(d)
           \/ AckCrashFrom(d) \/ AckCrashTo(d)
    PROVE  \A e \in Devices : \A x \in Queued(e)' :
              \/ x \in Queued(e)
              \/ x.at # "mess" /\ Agrees(x)
<1> DEFINE p == Head(puts[d])
<1>1. Answered(d)
  BY DEF AckOther, AckMessage, AckVideo, AckCrashFrom, AckCrashTo, Acked
<1>2. /\ puts[d] \in Seq(Put) /\ puts[d] # <<>> /\ Tail(puts[d]) \in Seq(Put)
      /\ Elems(Tail(puts[d])) \subseteq Queued(d)
      /\ p \in Queued(d) /\ p \in Put
  BY <1>1, ElemsTail DEF Answered, TypeOK, Queued
<1>3. ASSUME Acked(d), p.msg.from # DemoFrom
      PROVE  /\ p.key \in Keys
             /\ mess[p.key] = p.msg /\ mess[p.key] # NoMsg
             /\ p.msg \in Message /\ p.msg.from \in Users
  <2>1. p.at = "mess" /\ p.reply = "ok" /\ Agrees(p)
    BY <1>2, <1>3 DEF Acked, IndexInv
  <2>2. p.key \in Keys /\ p.msg \in Message
    BY <1>2, <2>1, QueuedType
  <2> QED BY <1>3, <2>1, <2>2, NoMsgAssumption DEF Agrees, Message
<1>4. \A e \in Devices : \A x \in Queued(e)' :
        \/ x \in Queued(e)
        \/ x.at # "mess" /\ Agrees(x)
  <2>1. CASE AckOther(d)
    BY <1>2, <2>1 DEF AckOther, Queued, TypeOK
  <2>2. CASE AckMessage(d)
    <3> DEFINE a == IndexPut(p.msg.from, p.msg.to, p.key)
               b == IndexPut(p.msg.to, p.msg.from, p.key)
    <3>1. p.msg.from \in Users /\ p.msg.to \in Users /\ p.key \in Keys
      BY <1>3, <2>2 DEF AckMessage, Message
    <3>2. a \in Put /\ b \in Put
      BY <3>1, PutShapes
    <3>3. a.at # "mess" /\ Agrees(a) /\ b.at # "mess" /\ Agrees(b)
      BY <1>3, <2>2 DEF AckMessage, IndexPut, Agrees, Participants
    <3>4. puts' = [puts EXCEPT ![d] = Append(Append(Tail(puts[d]), a), b)]
      BY <2>2 DEF AckMessage
    <3> HIDE DEF a, b
    <3>5. \A x \in Elems(Append(Tail(puts[d]), a)) : x \in Elems(Tail(puts[d])) \/ x = a
      BY <1>2, <3>2, ElemsAppend
    <3>6. Append(Tail(puts[d]), a) \in Seq(Put)
      BY <1>2, <3>2
    <3>7. \A x \in Elems(Append(Append(Tail(puts[d]), a), b)) :
             x \in Elems(Append(Tail(puts[d]), a)) \/ x = b
      BY <3>2, <3>6, ElemsAppend
    <3> QED BY <1>2, <3>3, <3>4, <3>5, <3>7 DEF Queued, TypeOK
  <2>3. CASE AckVideo(d)
    <3> DEFINE a == FlatPut(p.msg.from, p.key)
               b == FlatPut(p.msg.to, p.key)
    <3>1. p.msg.from \in Users /\ p.msg.to \in Users /\ p.key \in Keys
      BY <1>3, <2>3 DEF AckVideo, Message
    <3>2. a \in Put /\ b \in Put
      BY <3>1, PutShapes
    <3>3. a.at # "mess" /\ Agrees(a) /\ b.at # "mess" /\ Agrees(b)
      BY <1>3, <2>3 DEF AckVideo, FlatPut, Agrees, Participants
    <3>4. puts' = [puts EXCEPT ![d] = Append(Append(Tail(puts[d]), a), b)]
      BY <2>3 DEF AckVideo
    <3> HIDE DEF a, b
    <3>5. \A x \in Elems(Append(Tail(puts[d]), a)) : x \in Elems(Tail(puts[d])) \/ x = a
      BY <1>2, <3>2, ElemsAppend
    <3>6. Append(Tail(puts[d]), a) \in Seq(Put)
      BY <1>2, <3>2
    <3>7. \A x \in Elems(Append(Append(Tail(puts[d]), a), b)) :
             x \in Elems(Append(Tail(puts[d]), a)) \/ x = b
      BY <3>2, <3>6, ElemsAppend
    <3> QED BY <1>2, <3>3, <3>4, <3>5, <3>7 DEF Queued, TypeOK
  <2>4. CASE AckCrashFrom(d)
    BY <1>2, <2>4 DEF AckCrashFrom, Queued, TypeOK
  <2>5. CASE AckCrashTo(d)
    <3> DEFINE a == FlatPut(p.msg.from, p.key)
    <3>1. a \in Put
      BY <1>3, <2>5, PutShapes DEF AckCrashTo
    <3>2. a.at # "mess" /\ Agrees(a)
      BY <1>3, <2>5 DEF AckCrashTo, FlatPut, Agrees, Participants
    <3>3. puts' = [puts EXCEPT ![d] = Append(Tail(puts[d]), a)]
      BY <2>5 DEF AckCrashTo
    <3> HIDE DEF a
    <3>4. \A x \in Elems(Append(Tail(puts[d]), a)) : x \in Elems(Tail(puts[d])) \/ x = a
      BY <1>2, <3>1, ElemsAppend
    <3> QED BY <1>2, <3>2, <3>3, <3>4 DEF Queued, TypeOK
  <2> QED BY <2>1, <2>2, <2>3, <2>4, <2>5
<1> QED BY <1>4

\* So they keep the invariant.
LEMMA IndexAck ==
    ASSUME TypeOK, IndexInv, NEW d \in Devices,
           \/ AckOther(d) \/ AckMessage(d) \/ AckVideo(d)
           \/ AckCrashFrom(d) \/ AckCrashTo(d)
    PROVE  IndexInv'
<1>1. \A e \in Devices : \A x \in Queued(e) : After(x, x)
  BY DEF After, Same
<1>2. UNCHANGED <<used, mess, userMess, userMessFlat>>
  BY DEF AckOther, AckMessage, AckVideo, AckCrashFrom, AckCrashTo, Die,
         clientVars, serverVars
<1> QED BY <1>1, <1>2, AckElems, IndexKeep

\* Every step keeps the invariant.
LEMMA IndexStep == TypeOK /\ IndexInv /\ [Next]_vars => IndexInv'
<1> SUFFICES ASSUME TypeOK, IndexInv, [Next]_vars PROVE IndexInv'
  OBVIOUS
<1> USE DEF serverVars, clientVars
<1>1. CASE UNCHANGED vars
  BY <1>1, IndexIdle DEF vars
<1>2. ASSUME NEW s \in Chats, ChatStep(s) PROVE IndexInv'
  <2>1. CASE SendText(s)
    <3> DEFINE m == [kind |-> "text", from |-> FromId(DeviceOf[s]),
                     to |-> user[s], image |-> NoPath, video |-> NoPath]
    <3>1. m \in Message
      BY <2>1, DeviceOfChat DEF SendText, Message, FromId, TypeOK
    <3>2. WriteMessage(DeviceOf[s], m) /\ UNCHANGED <<mess, userMess, userMessFlat>>
      BY <2>1 DEF SendText
    <3> HIDE DEF m
    <3> QED BY <3>1, <3>2, DeviceOfChat, IndexWrite
  <2>2. CASE ~SendText(s)
    <3>1. UNCHANGED <<puts, used, mess, userMess, userMessFlat>>
      BY <1>2, <2>2 DEF ChatStep, OpenFromNewMessage, OpenFromInbox, ProfileLoaded,
         LeaveChat, SendTextCrash, Die, PickImage, PickVideo
    <3> QED BY <3>1, IndexIdle
  <2> QED BY <2>1, <2>2
<1>3. ASSUME NEW j \in Jobs, JobStep(j) PROVE IndexInv'
  <2>1. CASE ImageURLDone(j)
    <3>1. DeviceOfJob(j) \in Devices /\ MediaMessage(j) \in Message
      BY <2>1, RunningJob, MediaMessageType DEF ImageURLDone
    <3>2. /\ WriteMessage(DeviceOfJob(j), MediaMessage(j))
          /\ UNCHANGED <<mess, userMess, userMessFlat>>
      BY <2>1 DEF ImageURLDone
    <3> QED BY <3>1, <3>2, IndexWrite
  <2>2. CASE ~ImageURLDone(j)
    <3>1. UNCHANGED <<puts, used, mess, userMess, userMessFlat>>
      BY <1>3, <2>2 DEF JobStep, PutFileDone, ThumbnailCrash, PutDataDone,
         MovieURLDone, ImageURLFailed, ImageURLCrash, Die
    <3> QED BY <3>1, IndexIdle
  <2> QED BY <2>1, <2>2
<1>4. ASSUME NEW d \in Devices, DeviceStep(d) PROVE IndexInv'
  <2>1. ASSUME NEW p \in Users, DeleteConversation(d, p) PROVE IndexInv'
    <3>1. DeletePut(currentUser[d], p) \in Put
      BY <2>1, PutShapes DEF DeleteConversation, TypeOK
    <3>2. /\ DeletePut(currentUser[d], p).at # "mess"
          /\ Agrees(DeletePut(currentUser[d], p))
      BY DEF DeletePut, Agrees
    <3>3. PICK x : x = DeletePut(currentUser[d], p)
      OBVIOUS
    <3>4. puts' = [puts EXCEPT ![d] = Append(puts[d], x)]
      BY <2>1, <3>3 DEF DeleteConversation
    <3>5. \A y \in Elems(Append(puts[d], x)) : y \in Elems(puts[d]) \/ y = x
      BY <3>1, <3>3, ElemsAppend DEF TypeOK
    <3>6. \A e \in Devices : \A y \in Queued(e)' : y \in Queued(e) \/ y = x
      BY <3>4, <3>5 DEF Queued, TypeOK
    <3>7. \A e \in Devices : \A y \in Queued(e) : After(y, y)
      BY DEF After, Same
    <3>8. UNCHANGED <<used, mess, userMess, userMessFlat>>
      BY <2>1 DEF DeleteConversation
    <3> QED BY <3>2, <3>3, <3>6, <3>7, <3>8, IndexKeep
  <2>2. CASE Relaunch(d)
    <3>1. \A e \in Devices : \A x \in Queued(e)' : x \in Queued(e)
      BY <2>2 DEF Relaunch, Queued, Elems, TypeOK
    <3>2. \A e \in Devices : \A x \in Queued(e) : After(x, x)
      BY DEF After, Same
    <3>3. UNCHANGED <<used, mess, userMess, userMessFlat>>
      BY <2>2 DEF Relaunch
    <3> QED BY <3>1, <3>2, <3>3, IndexKeep
  <2>3. CASE (\E u \in Users : SignIn(d, u)) \/ SignOut(d) \/ RevokeSession(d) \/ Kill(d)
    <3>1. UNCHANGED <<puts, used, mess, userMess, userMessFlat>>
      BY <2>3 DEF SignIn, SignOut, RevokeSession, Kill, Die
    <3> QED BY <3>1, IndexIdle
  <2> QED BY <1>4, <2>1, <2>2, <2>3 DEF DeviceStep
<1>5. ASSUME NEW d \in Devices, ConnectionStep(d) PROVE IndexInv'
  BY <1>5, IndexAccept, IndexAnswer, IndexAck DEF ConnectionStep
<1> QED BY <1>1, <1>2, <1>3, <1>4, <1>5 DEF Next

\* The invariant holds initially.
LEMMA IndexInit == Init => IndexInv
BY DEF Init, IndexInv, IndexRefersToMessage, Queued, Elems

\* The strengthened invariant, for every instance.
THEOREM IndexInvariant == Spec => []IndexInv
<1>1. Init => TypeOK /\ IndexInv
  BY TypeInit, IndexInit
<1>2. TypeOK /\ IndexInv /\ [Next]_vars => TypeOK' /\ IndexInv'
  BY TypeStep, IndexStep
<1> QED BY <1>1, <1>2, PTL DEF Spec

\* No list ever names a message that is not stored, or one its owner neither
\* sent nor received, whatever is refused, repeated or lost.
THEOREM IndexSafe == Spec => []IndexRefersToMessage
<1>1. IndexInv => IndexRefersToMessage
  BY DEF IndexInv
<1> QED BY <1>1, IndexInvariant, PTL

\* What is stored under a key is final: a retransmission changes nothing.
THEOREM StoredIsFinal == Spec => StoredMessageStable
<1> DEFINE Final == \A k \in Keys : mess[k] # NoMsg => mess'[k] = mess[k]
<1>1. TypeOK /\ IndexInv /\ [Next]_vars => [Final]_vars
  <2> SUFFICES ASSUME TypeOK, IndexInv, Next PROVE Final
    BY DEF vars
  <2> USE DEF serverVars, clientVars
  <2>1. ASSUME NEW d \in Devices, ServerAccept(d) PROVE Final
    <3>1. PICK i \in 1..Len(puts[d]) : Apply(d, i)
      BY <2>1 DEF ServerAccept
    <3>2. CASE StoreMessage(d, i)
      BY <3>2, MessageFinal
    <3>3. CASE ~StoreMessage(d, i)
      BY <3>1, <3>3 DEF Apply, StoreIndex, StoreFlat, RemoveConversation
    <3> QED BY <3>2, <3>3
  <2>2. ASSUME NEW d \in Devices, DeviceStep(d) PROVE Final
    BY <2>2 DEF DeviceStep, SignIn, DeleteConversation, SignOut, RevokeSession,
       Kill, Die, Relaunch
  <2>3. ASSUME NEW d \in Devices, ConnectionStep(d) PROVE Final
    BY <2>1, <2>3 DEF ConnectionStep, ServerDeny, Reconnect, AckOther, AckMessage,
       AckVideo, AckCrashFrom, AckCrashTo
  <2>4. ASSUME NEW s \in Chats, ChatStep(s) PROVE Final
    BY <2>4 DEF ChatStep, OpenFromNewMessage, OpenFromInbox, ProfileLoaded,
       LeaveChat, SendText, SendTextCrash, PickImage, PickVideo
  <2>5. ASSUME NEW j \in Jobs, JobStep(j) PROVE Final
    BY <2>5 DEF JobStep, PutFileDone, ThumbnailCrash, PutDataDone,
       MovieURLDone, ImageURLDone, ImageURLFailed, ImageURLCrash
  <2> QED BY <2>2, <2>3, <2>4, <2>5 DEF Next
<1> QED BY <1>1, TypeCorrect, IndexInvariant, PTL DEF Spec, StoredMessageStable

-----------------------------------------------------------------------------
(* Media.                                                                  *)

\* What an upload may rely on.
JobAgrees(x) ==
    /\ x.stage = "imageURL" => Picture(x.path) \in storage
    /\ x.stage \in {"putData", "imageURL"} =>
          x.movie = NoPath \/ Movie(x.movie) \in storage

\* The bucket only grows, so a step keeps the invariant when the messages it
\* stores or queues and the uploads it moves on have their media in it.
LEMMA MediaKeep ==
    ASSUME TypeOK, MediaInv, storage \subseteq storage',
           \A k \in Keys : mess'[k] # NoMsg =>
              \/ mess[k] # NoMsg /\ mess'[k] = mess[k]
              \/ InBucket(mess'[k]),
           \A d \in Devices : \A p \in Queued(d)' : p.at = "mess" =>
              \/ \E q \in Queued(d) : Same(p, q)
              \/ InBucket(p.msg),
           \A j \in Jobs : job'[j] = job[j] \/ JobAgrees(job[j])' \/ job'[j] = Idle
    PROVE  MediaInv'
<1>1. MediaBeforeMessage'
  BY DEF MediaInv, MediaBeforeMessage, InBucket
<1>2. ASSUME NEW d \in Devices, NEW p \in Queued(d)', p.at = "mess"
      PROVE  InBucket(p.msg)'
  <2>1. InBucket(p.msg)
    BY <1>2 DEF MediaInv, Same
  <2> QED BY <2>1 DEF InBucket
<1>3. ASSUME NEW j \in Jobs
      PROVE  /\ job'[j].stage = "imageURL" => Picture(job'[j].path) \in storage'
             /\ job'[j].stage \in {"putData", "imageURL"} =>
                   job'[j].movie = NoPath \/ Movie(job'[j].movie) \in storage'
  BY <1>3 DEF MediaInv, JobAgrees, Idle
<1> QED BY <1>1, <1>2, <1>3 DEF MediaInv

\* Writing a message whose media are in the bucket.
LEMMA MediaWrite ==
    ASSUME TypeOK, MediaInv, NEW d \in Devices, NEW m \in Message,
           WriteMessage(d, m), InBucket(m), UNCHANGED <<mess, storage>>,
           \A j \in Jobs : job'[j] = job[j] \/ job'[j] = Idle
    PROVE  MediaInv'
<1>1. PICK k \in Keys : puts' = [puts EXCEPT ![d] = Append(@, MessPut(k, m))]
  BY DEF WriteMessage
<1>2. \A e \in Devices : \A p \in Queued(e)' : p \in Queued(e) \/ p = MessPut(k, m)
  <2>1. puts[d] \in Seq(Put) /\ MessPut(k, m) \in Put
    BY PutShapes DEF TypeOK
  <2> QED BY <1>1, <2>1, ElemsAppend DEF Queued, TypeOK
<1>3. MessPut(k, m).msg = m
  BY DEF MessPut
<1>4. \A p : Same(p, p)
  BY DEF Same
<1>5. \A e \in Devices : \A p \in Queued(e)' :
         (\E q \in Queued(e) : Same(p, q)) \/ InBucket(p.msg)
  BY <1>2, <1>3, <1>4
<1> QED BY <1>5, MediaKeep

\* A step that leaves the database, the queues and the bucket alone.
LEMMA MediaIdle ==
    ASSUME TypeOK, MediaInv, UNCHANGED <<puts, mess, storage>>,
           \A j \in Jobs : job'[j] = job[j] \/ JobAgrees(job[j])' \/ job'[j] = Idle
    PROVE  MediaInv'
<1>1. \A p : Same(p, p)
  BY DEF Same
<1>2. \A d \in Devices : Queued(d)' = Queued(d)
  BY DEF Queued, Elems
<1> QED BY <1>1, <1>2, MediaKeep

\* Uploads keep the invariant: an object is asked for only after the upload
\* that reported it, and a movie whose URL could not be had is left out.
LEMMA MediaJobStep ==
    ASSUME TypeOK, MediaInv, NEW j \in Jobs, JobStep(j) PROVE MediaInv'
<1> USE DEF serverVars
<1>1. CASE PutFileDone(j)
  <2>1. \A d \in Devices : Queued(d)' = Queued(d)
    BY <1>1 DEF PutFileDone, Queued, Elems
  <2>2. \A p : Same(p, p)
    BY DEF Same
  <2>3. storage \subseteq storage' /\ mess' = mess
    BY <1>1 DEF PutFileDone
  <2>4. \A i \in Jobs : job'[i] = job[i] \/ JobAgrees(job[i])'
    BY <1>1, JobShape DEF PutFileDone, TypeOK, JobAgrees, MovieJob
  <2> QED BY <2>1, <2>2, <2>3, <2>4, MediaKeep
<1>2. ASSUME NEW n \in Paths, MovieURLDone(j, n) PROVE MediaInv'
  <2>1. job[j] \in MovieJob
    BY <1>2, JobShape DEF MovieURLDone, TypeOK
  <2>3. UNCHANGED <<puts, mess, storage>>
    BY <1>2 DEF MovieURLDone
  <2>4. /\ job'[j].stage = "putData"
        /\ job'[j].movie = NoPath \/ Movie(job'[j].movie) \in storage
    <3>1. CASE /\ Movie(job[j].movie) \in storage
               /\ job' = [job EXCEPT ![j].stage = "putData", ![j].path = n]
      BY <2>1, <3>1 DEF TypeOK, MovieJob
    <3>2. CASE job' = [job EXCEPT ![j].stage = "putData", ![j].path = n,
                                  ![j].movie = NoPath]
      BY <2>1, <3>2 DEF TypeOK, MovieJob
    <3> QED BY <1>2, <3>1, <3>2 DEF MovieURLDone
  <2>5. JobAgrees(job[j])'
    BY <2>3, <2>4 DEF JobAgrees
  <2>6. \A i \in Jobs : i # j => job'[i] = job[i]
    BY <1>2 DEF MovieURLDone, TypeOK
  <2> QED BY <2>3, <2>5, <2>6, MediaIdle
<1>3. CASE PutDataDone(j)
  <2>1. \A d \in Devices : Queued(d)' = Queued(d)
    BY <1>3 DEF PutDataDone, Queued, Elems
  <2>2. \A p : Same(p, p)
    BY DEF Same
  <2>3. storage \subseteq storage' /\ mess' = mess
    BY <1>3 DEF PutDataDone
  <2>4. job[j] \in ThumbnailJob \cup ImageJob
    BY <1>3, JobShape DEF PutDataDone, TypeOK
  <2>5. job[j].movie = NoPath \/ Movie(job[j].movie) \in storage
    BY <1>3 DEF PutDataDone, MediaInv
  <2>6. \A i \in Jobs : i # j => job'[i] = job[i]
    BY <1>3 DEF PutDataDone, TypeOK
  <2>7. CASE job' = [job EXCEPT ![j] = Idle]
    <3>1. job'[j] = Idle
      BY <2>7 DEF TypeOK
    <3> QED BY <2>1, <2>2, <2>3, <2>6, <3>1, MediaKeep
  <2>8. CASE /\ storage' = storage \cup {Picture(job[j].path)}
             /\ job' = [job EXCEPT ![j].stage = "imageURL"]
    <3>1. /\ Picture(job'[j].path) \in storage'
          /\ job'[j].movie = NoPath \/ Movie(job'[j].movie) \in storage'
      <4>1. CASE job[j] \in ThumbnailJob
        BY <2>5, <2>8, <4>1 DEF TypeOK, ThumbnailJob
      <4>2. CASE job[j] \in ImageJob
        BY <2>5, <2>8, <4>2 DEF TypeOK, ImageJob
      <4> QED BY <2>4, <4>1, <4>2
    <3>2. JobAgrees(job[j])'
      BY <3>1 DEF JobAgrees
    <3> QED BY <2>1, <2>2, <2>3, <2>6, <3>2, MediaKeep
  <2> QED BY <1>3, <2>7, <2>8 DEF PutDataDone
<1>4. CASE ImageURLDone(j)
  <2>1. DeviceOfJob(j) \in Devices /\ MediaMessage(j) \in Message
    BY <1>4, RunningJob, MediaMessageType DEF ImageURLDone
  <2>2. InBucket(MediaMessage(j))
    BY <1>4 DEF ImageURLDone, MediaInv, InBucket, MediaMessage
  <2>3. /\ WriteMessage(DeviceOfJob(j), MediaMessage(j))
        /\ UNCHANGED <<mess, storage>>
    BY <1>4 DEF ImageURLDone
  <2>4. \A i \in Jobs : job'[i] = job[i] \/ job'[i] = Idle
    BY <1>4 DEF ImageURLDone, TypeOK
  <2> QED BY <2>1, <2>2, <2>3, <2>4, MediaWrite
<1>5. CASE ThumbnailCrash(j) \/ ImageURLFailed(j) \/ ImageURLCrash(j)
  <2>1. UNCHANGED <<puts, mess, storage>>
    BY <1>5 DEF ThumbnailCrash, ImageURLFailed, ImageURLCrash
  <2>2. \A i \in Jobs : job'[i] = job[i] \/ job'[i] = Idle
    BY <1>5 DEF ThumbnailCrash, ImageURLFailed, ImageURLCrash, Die, TypeOK
  <2> QED BY <2>1, <2>2, MediaIdle
<1> QED BY <1>1, <1>2, <1>3, <1>4, <1>5 DEF JobStep

\* The connection keeps the invariant: it stores and repeats queued messages
\* and queues no new ones.
LEMMA MediaConnectionStep ==
    ASSUME TypeOK, IndexInv, MediaInv, NEW d \in Devices, ConnectionStep(d)
    PROVE  MediaInv'
<1> USE DEF serverVars, clientVars
<1>1. \A j \in Jobs : job'[j] = job[j] \/ job'[j] = Idle
  BY DEF ConnectionStep, ServerAccept, ServerDeny, Reconnect, AckOther,
         AckMessage, AckVideo, AckCrashFrom, AckCrashTo, Die
<1>2. storage' = storage
  BY DEF ConnectionStep, ServerAccept, ServerDeny, Reconnect, AckOther,
         AckMessage, AckVideo, AckCrashFrom, AckCrashTo
<1>3. \A k \in Keys : mess'[k] # NoMsg =>
         (mess[k] # NoMsg /\ mess'[k] = mess[k]) \/ InBucket(mess'[k])
  <2>1. CASE ServerAccept(d)
    <3>1. PICK i \in 1..Len(puts[d]) : Apply(d, i)
      BY <2>1 DEF ServerAccept
    <3>2. CASE StoreMessage(d, i)
      <4>1. puts[d][i] \in Queued(d) /\ puts[d][i].at = "mess"
        BY <3>2 DEF StoreMessage, Queued, Elems
      <4>2. InBucket(puts[d][i].msg)
        BY <4>1 DEF MediaInv
      <4> QED BY <3>2, <4>2 DEF StoreMessage, TypeOK
    <3>3. CASE ~StoreMessage(d, i)
      BY <3>1, <3>3 DEF Apply, StoreIndex, StoreFlat, RemoveConversation
    <3> QED BY <3>2, <3>3
  <2>2. CASE ~ServerAccept(d)
    BY <2>2 DEF ConnectionStep, ServerDeny, Reconnect, AckOther, AckMessage,
       AckVideo, AckCrashFrom, AckCrashTo
  <2> QED BY <2>1, <2>2
<1>4. \A e \in Devices : \A p \in Queued(e)' : p.at = "mess" =>
         \E q \in Queued(e) : Same(p, q)
  <2>1. CASE ServerAccept(d)
    <3>1. PICK i \in 1..Len(puts[d]) : Answer(d, i, "ok")
      BY <2>1 DEF ServerAccept
    <3> QED BY <3>1, AnswerSame DEF Reply
  <2>2. CASE ServerDeny(d)
    <3>1. PICK i \in 1..Len(puts[d]) : Answer(d, i, "denied")
      BY <2>2 DEF ServerDeny
    <3> QED BY <3>1, AnswerSame DEF Reply
  <2>3. CASE Reconnect(d)
    BY <2>3, ReconnectAfter DEF After
  <2>4. CASE \/ AckOther(d) \/ AckMessage(d) \/ AckVideo(d)
             \/ AckCrashFrom(d) \/ AckCrashTo(d)
    <3>1. \A p : Same(p, p)
      BY DEF Same
    <3> QED BY <2>4, <3>1, AckElems
  <2> QED BY <2>1, <2>2, <2>3, <2>4 DEF ConnectionStep
<1> QED BY <1>1, <1>2, <1>3, <1>4, MediaKeep

\* Every step keeps the invariant.
LEMMA MediaStep ==
    TypeOK /\ IndexInv /\ MediaInv /\ [Next]_vars => MediaInv'
<1> SUFFICES ASSUME TypeOK, IndexInv, MediaInv, [Next]_vars PROVE MediaInv'
  OBVIOUS
<1> USE DEF serverVars, clientVars
<1>1. CASE UNCHANGED vars
  BY <1>1, MediaIdle DEF vars
<1>2. ASSUME NEW s \in Chats, ChatStep(s) PROVE MediaInv'
  <2>1. CASE SendText(s)
    <3> DEFINE m == [kind |-> "text", from |-> FromId(DeviceOf[s]),
                     to |-> user[s], image |-> NoPath, video |-> NoPath]
    <3>1. m \in Message /\ InBucket(m)
      BY <2>1, DeviceOfChat DEF SendText, Message, FromId, TypeOK, InBucket
    <3>2. WriteMessage(DeviceOf[s], m) /\ UNCHANGED <<mess, storage, job>>
      BY <2>1 DEF SendText
    <3> HIDE DEF m
    <3> QED BY <3>1, <3>2, DeviceOfChat, MediaWrite
  <2>2. ASSUME NEW j \in Jobs, NEW n \in Paths, PickImage(s, j, n) \/ PickVideo(s, j, n)
        PROVE  MediaInv'
    <3>1. UNCHANGED <<puts, mess, storage>>
      BY <2>2 DEF PickImage, PickVideo
    <3>2. \A i \in Jobs : job'[i] = job[i] \/ JobAgrees(job[i])'
      BY <2>2 DEF PickImage, PickVideo, JobAgrees, TypeOK
    <3> QED BY <3>1, <3>2, MediaIdle
  <2>3. CASE \/ \E p \in Users : OpenFromNewMessage(s, p) \/ OpenFromInbox(s, p)
             \/ ProfileLoaded(s) \/ LeaveChat(s) \/ SendTextCrash(s)
    <3>1. UNCHANGED <<puts, mess, storage>>
      BY <2>3 DEF OpenFromNewMessage, OpenFromInbox, ProfileLoaded, LeaveChat,
                  SendTextCrash
    <3>2. \A i \in Jobs : job'[i] = job[i] \/ job'[i] = Idle
      BY <2>3 DEF OpenFromNewMessage, OpenFromInbox, ProfileLoaded, LeaveChat,
                  SendTextCrash, Die
    <3> QED BY <3>1, <3>2, MediaIdle
  <2> QED BY <1>2, <2>1, <2>2, <2>3 DEF ChatStep
<1>3. ASSUME NEW j \in Jobs, JobStep(j) PROVE MediaInv'
  BY <1>3, MediaJobStep
<1>4. ASSUME NEW d \in Devices, DeviceStep(d) PROVE MediaInv'
  <2>1. \A i \in Jobs : job'[i] = job[i] \/ job'[i] = Idle
    BY <1>4 DEF DeviceStep, SignIn, DeleteConversation, SignOut, RevokeSession,
                Kill, Relaunch, Die
  <2>2. UNCHANGED <<mess, storage>>
    BY <1>4 DEF DeviceStep, SignIn, DeleteConversation, SignOut, RevokeSession,
                Kill, Relaunch
  <2>3. \A e \in Devices : \A p \in Queued(e)' : p.at = "mess" => p \in Queued(e)
    <3>1. ASSUME NEW p \in Users, DeleteConversation(d, p)
          PROVE  \A e \in Devices : \A y \in Queued(e)' : y.at = "mess" => y \in Queued(e)
      <4>1. PICK x \in Put : x = DeletePut(currentUser[d], p)
        BY <3>1, PutShapes DEF DeleteConversation, TypeOK
      <4>2. puts' = [puts EXCEPT ![d] = Append(puts[d], x)]
        BY <3>1, <4>1 DEF DeleteConversation
      <4>3. \A y \in Elems(Append(puts[d], x)) : y \in Elems(puts[d]) \/ y = x
        BY ElemsAppend DEF TypeOK
      <4>4. x.at # "mess"
        BY <4>1 DEF DeletePut
      <4> QED BY <4>2, <4>3, <4>4 DEF Queued, TypeOK
    <3>2. CASE Relaunch(d)
      BY <3>2 DEF Relaunch, Queued, Elems, TypeOK
    <3>3. CASE (\E u \in Users : SignIn(d, u)) \/ SignOut(d) \/ RevokeSession(d) \/ Kill(d)
      BY <3>3 DEF SignIn, SignOut, RevokeSession, Kill, Queued, Elems
    <3> QED BY <1>4, <3>1, <3>2, <3>3 DEF DeviceStep
  <2>4. \A p : Same(p, p)
    BY DEF Same
  <2> QED BY <2>1, <2>2, <2>3, <2>4, MediaKeep
<1>5. ASSUME NEW d \in Devices, ConnectionStep(d) PROVE MediaInv'
  BY <1>5, MediaConnectionStep
<1> QED BY <1>1, <1>2, <1>3, <1>4, <1>5 DEF Next

\* The invariant holds initially.
LEMMA MediaInit == Init => MediaInv
BY DEF Init, MediaInv, MediaBeforeMessage, Queued, Elems, Idle

\* A message that can be read never shows media the bucket does not hold,
\* whatever uploads fail and in whatever order they complete.
THEOREM MediaSafe == Spec => []MediaBeforeMessage
<1>1. Init => TypeOK /\ IndexInv /\ MediaInv
  BY TypeInit, IndexInit, MediaInit
<1>2. TypeOK /\ IndexInv /\ MediaInv /\ [Next]_vars => TypeOK' /\ IndexInv' /\ MediaInv'
  BY TypeStep, IndexStep, MediaStep
<1>3. MediaInv => MediaBeforeMessage
  BY DEF MediaInv
<1> QED BY <1>1, <1>2, <1>3, PTL DEF Spec

-----------------------------------------------------------------------------
(* The order of the two lists.                                             *)

\* x is the write of the message under k to its sender's list.
FirstWrite(M, k, x) == /\ x.at = "index"
                       /\ x.key = k
                       /\ x.owner = M[k].from
                       /\ x.partner = M[k].to

ForRecipient(M, x) == x.at = "index" /\ x.owner = M[x.key].to

EntryOf(x) == <<x.owner, x.partner, x.key>>

\* In a queue q over stored messages M and lists U, nothing was refused, what
\* was acknowledged is in the lists, and whatever goes to a recipient comes
\* after what goes to the sender.
InOrder(M, U, q) ==
    /\ \A i \in 1..Len(q) :
          /\ q[i].at # "delete"
          /\ q[i].reply # "denied"
          /\ q[i].at = "index" /\ q[i].reply = "ok" => EntryOf(q[i]) \in U
    /\ \A i \in 1..Len(q) : ForRecipient(M, q[i]) =>
          \/ <<M[q[i].key].from, M[q[i].key].to, q[i].key>> \in U
          \/ \E h \in 1..i : FirstWrite(M, q[i].key, q[h])

\* The inductive strengthening of RecipientListedAfterSender.
OrderInv == /\ RecipientListedAfterSender
            /\ \A d \in Devices : InOrder(mess, userMess, puts[d])

\* A completed write leaves the queue, and is in the lists by then.
LEMMA OrderTail ==
    ASSUME NEW M, NEW U, NEW q \in Seq(Put), q # <<>>, InOrder(M, U, q),
           Head(q).reply # "none"
    PROVE  InOrder(M, U, Tail(q))
<1>1. /\ Len(q) \in Nat /\ Len(Tail(q)) = Len(q) - 1 /\ Head(q) = q[1] /\ Len(q) > 0
      /\ \A i \in 1..Len(Tail(q)) : i + 1 \in 1..Len(q) /\ Tail(q)[i] = q[i + 1]
  OBVIOUS
<1>2. \A i \in 1..Len(Tail(q)) :
          /\ Tail(q)[i].at # "delete"
          /\ Tail(q)[i].reply # "denied"
          /\ Tail(q)[i].at = "index" /\ Tail(q)[i].reply = "ok" => EntryOf(Tail(q)[i]) \in U
  BY <1>1 DEF InOrder
<1>3. ASSUME NEW i \in 1..Len(Tail(q)), ForRecipient(M, Tail(q)[i])
      PROVE  \/ <<M[Tail(q)[i].key].from, M[Tail(q)[i].key].to, Tail(q)[i].key>> \in U
             \/ \E h \in 1..i : FirstWrite(M, Tail(q)[i].key, Tail(q)[h])
  <2> DEFINE k == Tail(q)[i].key
  <2>1. k = q[i + 1].key /\ ForRecipient(M, q[i + 1]) /\ i + 1 \in 1..Len(q)
    BY <1>1, <1>3
  <2>2. \/ <<M[k].from, M[k].to, k>> \in U
        \/ \E h \in 1..(i + 1) : FirstWrite(M, k, q[h])
    BY <2>1 DEF InOrder
  <2>3. ASSUME NEW h \in 1..(i + 1), FirstWrite(M, k, q[h])
        PROVE  \/ <<M[k].from, M[k].to, k>> \in U
               \/ \E g \in 1..i : FirstWrite(M, k, Tail(q)[g])
    <3>1. CASE h = 1
      <4>1. q[1] \in Put /\ 1 \in 1..Len(q)
        BY <1>1
      <4>2. q[1].reply = "ok"
        BY <4>1, <1>1 DEF InOrder, Put, Reply
      <4>3. EntryOf(q[1]) \in U
        BY <4>1, <4>2, <2>3, <3>1 DEF InOrder, FirstWrite
      <4> QED BY <4>3, <2>3, <3>1 DEF EntryOf, FirstWrite
    <3>2. CASE h # 1
      <4>1. h - 1 \in 1..i /\ h - 1 \in 1..Len(Tail(q)) /\ (h - 1) + 1 = h
        BY <1>1, <3>2
      <4>2. Tail(q)[h - 1] = q[h]
        BY <1>1, <4>1
      <4> QED BY <4>1, <4>2, <2>3
    <3> QED BY <3>1, <3>2
  <2> QED BY <2>2, <2>3
<1> QED BY <1>2, <1>3 DEF InOrder

\* A new write, if it is for a recipient, finds the sender's before it.
LEMMA OrderAppend ==
    ASSUME NEW M, NEW U, NEW q \in Seq(Put), NEW x \in Put, InOrder(M, U, q),
           x.at # "delete", x.reply = "none",
           ForRecipient(M, x) =>
              \/ FirstWrite(M, x.key, x)
              \/ \E h \in 1..Len(q) : FirstWrite(M, x.key, q[h])
    PROVE  InOrder(M, U, Append(q, x))
<1> DEFINE r == Append(q, x)
<1>1. /\ Len(q) \in Nat /\ Len(r) = Len(q) + 1 /\ r[Len(q) + 1] = x
      /\ \A i \in 1..Len(q) : r[i] = q[i]
  OBVIOUS
<1> HIDE DEF r
<1>2. \A i \in 1..Len(r) : i \in 1..Len(q) \/ i = Len(q) + 1
  BY <1>1
<1>3. \A i \in 1..Len(r) :
          /\ r[i].at # "delete"
          /\ r[i].reply # "denied"
          /\ r[i].at = "index" /\ r[i].reply = "ok" => EntryOf(r[i]) \in U
  BY <1>1, <1>2 DEF InOrder
<1>4. ASSUME NEW i \in 1..Len(r), ForRecipient(M, r[i])
      PROVE  \/ <<M[r[i].key].from, M[r[i].key].to, r[i].key>> \in U
             \/ \E h \in 1..i : FirstWrite(M, r[i].key, r[h])
  <2>1. CASE i \in 1..Len(q)
    <3>1. r[i] = q[i] /\ \A h \in 1..i : h \in 1..Len(q) /\ r[h] = q[h]
      BY <1>1, <2>1
    <3> QED BY <1>4, <2>1, <3>1 DEF InOrder
  <2>2. CASE i = Len(q) + 1
    <3>1. r[i] = x /\ i \in 1..i /\ \A h \in 1..Len(q) : h \in 1..i
      BY <1>1, <2>2
    <3> QED BY <1>1, <1>4, <3>1
  <2> QED BY <1>2, <2>1, <2>2
<1> QED BY <1>3, <1>4 DEF InOrder, r

\* Answers come and go, messages and entries are added.
LEMMA OrderGrows ==
    ASSUME NEW M, NEW U, NEW N, NEW V, NEW q, NEW r,
           InOrder(M, U, q), Len(r) = Len(q), U \subseteq V,
           \A i \in 1..Len(q) :
              /\ Same(r[i], q[i])
              /\ r[i].reply # "denied"
              /\ r[i].at = "index" /\ r[i].reply = "ok" => EntryOf(r[i]) \in V
              /\ q[i].at = "index" => N[q[i].key] = M[q[i].key],
           Len(q) \in Nat
    PROVE  InOrder(N, V, r)
<1>1. \A i \in 1..Len(q) : r[i].at # "delete"
  BY DEF InOrder, Same
<1>2. ASSUME NEW i \in 1..Len(q), ForRecipient(N, r[i])
      PROVE  \/ <<N[r[i].key].from, N[r[i].key].to, r[i].key>> \in V
             \/ \E h \in 1..i : FirstWrite(N, r[i].key, r[h])
  <2>1. /\ r[i].key = q[i].key /\ q[i].at = "index" /\ N[q[i].key] = M[q[i].key]
        /\ ForRecipient(M, q[i])
    BY <1>2 DEF ForRecipient, Same
  <2>2. \/ <<M[q[i].key].from, M[q[i].key].to, q[i].key>> \in U
        \/ \E h \in 1..i : FirstWrite(M, q[i].key, q[h])
    BY <2>1 DEF InOrder
  <2>3. ASSUME NEW h \in 1..i, FirstWrite(M, q[i].key, q[h])
        PROVE  FirstWrite(N, r[i].key, r[h])
    <3>1. h \in 1..Len(q)
      OBVIOUS
    <3> QED BY <2>1, <2>3, <3>1 DEF FirstWrite, Same
  <2> QED BY <2>1, <2>2, <2>3
<1> QED BY <1>1, <1>2 DEF InOrder


\* Steps that leave the queues, the messages and the lists alone.
LEMMA OrderIdle ==
    ASSUME OrderInv, UNCHANGED <<puts, mess, userMess>>
    PROVE  OrderInv'
BY DEF OrderInv, RecipientListedAfterSender

\* A step that stores nothing changes at most the queue of one phone.
LEMMA OrderOne ==
    ASSUME TypeOK, OrderInv, UNCHANGED <<mess, userMess>>, NEW d \in Devices, NEW r,
           puts' = [puts EXCEPT ![d] = r], InOrder(mess, userMess, r)
    PROVE  OrderInv'
<1>1. \A e \in Devices : puts'[e] = IF e = d THEN r ELSE puts[e]
  BY DEF TypeOK
<1>2. \A e \in Devices : InOrder(mess, userMess, puts'[e])
  BY <1>1 DEF OrderInv
<1> QED BY <1>2 DEF OrderInv, RecipientListedAfterSender

\* A write that is no list entry can join any queue.
LEMMA OrderJoin ==
    ASSUME TypeOK, OrderInv, UNCHANGED <<mess, userMess>>, NEW d \in Devices,
           NEW x \in Put, x.at \in {"mess", "flat"}, x.reply = "none",
           puts' = [puts EXCEPT ![d] = Append(@, x)]
    PROVE  OrderInv'
<1>1. puts[d] \in Seq(Put) /\ InOrder(mess, userMess, puts[d])
  BY DEF TypeOK, OrderInv
<1>2. InOrder(mess, userMess, Append(puts[d], x))
  BY <1>1, OrderAppend DEF ForRecipient
<1> QED BY <1>2, OrderOne

\* The server stores a queued message, or an entry whose turn it is.
LEMMA OrderAccept ==
    ASSUME TypeOK, IndexInv, OrderInv, NEW d \in Devices, ServerAccept(d)
    PROVE  OrderInv'
<1>1. PICK i \in 1..Len(puts[d]) : /\ Undecided(d, i)
                                   /\ Answer(d, i, "ok")
                                   /\ Apply(d, i)
  BY DEF ServerAccept
<1>2. PICK x : x = puts[d][i]
  OBVIOUS
<1>3. /\ puts[d] \in Seq(Put) /\ Len(puts[d]) \in Nat /\ x \in Put /\ x \in Queued(d)
      /\ Agrees(x) /\ InOrder(mess, userMess, puts[d]) /\ x.at # "delete"
  BY <1>2 DEF TypeOK, Queued, Elems, IndexInv, OrderInv, InOrder
<1>4. /\ userMess \subseteq userMess'
      /\ x.at = "index" => EntryOf(x) \in userMess'
      /\ \A e \in userMess' : e \in userMess \/ (x.at = "index" /\ e = EntryOf(x))
  BY <1>1, <1>2, <1>3 DEF Apply, StoreMessage, StoreIndex, StoreFlat, RemoveConversation,
                          EntryOf
<1>5. \A k \in Keys : mess[k] # NoMsg => mess'[k] = mess[k]
  <2>1. CASE StoreMessage(d, i)
    BY <2>1, MessageFinal
  <2>2. CASE ~StoreMessage(d, i)
    BY <1>1, <2>2 DEF Apply, StoreIndex, StoreFlat, RemoveConversation
  <2> QED BY <2>1, <2>2
<1>6. ASSUME NEW e \in Devices PROVE InOrder(mess, userMess, puts[e])'
  <2> DEFINE q == puts[e]
             r == puts'[e]
  <2>1. q \in Seq(Put) /\ Len(q) \in Nat /\ InOrder(mess, userMess, q)
    BY DEF TypeOK, OrderInv
  <2>2. r = IF e = d THEN [puts[d] EXCEPT ![i].reply = "ok"] ELSE puts[e]
    BY <1>1 DEF Answer, TypeOK
  <2>3. Len(r) = Len(q)
    BY <2>1, <2>2
  <2>4. ASSUME NEW j \in 1..Len(q)
        PROVE  /\ Same(r[j], q[j])
               /\ r[j].reply # "denied"
               /\ r[j].at = "index" /\ r[j].reply = "ok" => EntryOf(r[j]) \in userMess'
               /\ q[j].at = "index" => mess'[q[j].key] = mess[q[j].key]
    <3>1. q[j] \in Put /\ q[j] \in Queued(e)
      BY <2>1 DEF Queued, Elems
    <3>2. Agrees(q[j]) /\ (q[j].at = "index" => q[j].key \in Keys)
      BY <3>1, QueuedType DEF IndexInv
    <3>3. q[j].at = "index" => mess'[q[j].key] = mess[q[j].key]
      BY <1>5, <3>2 DEF Agrees
    <3>4. CASE r[j] = q[j]
      <4>1. /\ r[j].reply # "denied"
            /\ r[j].at = "index" /\ r[j].reply = "ok" => EntryOf(r[j]) \in userMess'
        BY <1>4, <2>1, <3>4 DEF InOrder
      <4> QED BY <3>3, <3>4, <4>1 DEF Same
    <3>5. CASE r[j] # q[j]
      <4>1. e = d /\ j = i
        BY <2>1, <2>2, <3>5
      <4>2. q[j] = x
        BY <1>2, <4>1
      <4>3. r[j] = [q[j] EXCEPT !.reply = "ok"]
        BY <2>1, <2>2, <4>1
      <4>4. Same(r[j], q[j]) /\ r[j].reply = "ok"
        BY <3>1, <4>3 DEF Same, Put
      <4>5. r[j].at = "index" => EntryOf(r[j]) \in userMess'
        BY <1>4, <4>2, <4>4 DEF EntryOf, Same
      <4> QED BY <3>3, <4>4, <4>5
    <3> QED BY <3>4, <3>5
  <2> HIDE DEF q, r
  <2>5. InOrder(mess', userMess', r)
    BY <1>4, <2>1, <2>3, <2>4, OrderGrows
  <2> QED BY <2>5 DEF r
<1>7. RecipientListedAfterSender'
  <2> SUFFICES ASSUME NEW e \in userMess', e[1] = mess'[e[3]].to
               PROVE  <<mess'[e[3]].from, e[1], e[3]>> \in userMess'
    BY DEF RecipientListedAfterSender
  <2>1. CASE e \in userMess
    <3>1. mess[e[3]] # NoMsg /\ e[3] \in Keys
      BY <2>1 DEF IndexInv, IndexRefersToMessage, TypeOK
    <3>2. mess'[e[3]] = mess[e[3]]
      BY <1>5, <3>1
    <3> QED BY <1>4, <2>1, <3>2 DEF OrderInv, RecipientListedAfterSender
  <2>2. CASE x.at = "index" /\ e = EntryOf(x)
    <3> DEFINE k == x.key
    <3>1. k \in Keys /\ mess[k] # NoMsg
      BY <1>3, <2>2, QueuedType DEF Agrees
    <3>2. mess'[k] = mess[k] /\ e[3] = k /\ e[1] = x.owner
      BY <1>5, <2>2, <3>1 DEF EntryOf
    <3>3. ForRecipient(mess, x)
      BY <2>2, <3>2 DEF ForRecipient
    <3>4. \/ <<mess[k].from, mess[k].to, k>> \in userMess
          \/ \E h \in 1..i : FirstWrite(mess, k, puts[d][h])
      BY <1>2, <1>3, <3>3 DEF InOrder
    <3>5. ASSUME NEW h \in 1..i, FirstWrite(mess, k, puts[d][h])
          PROVE  <<mess[k].from, mess[k].to, k>> \in userMess'
      <4>1. EntryOf(puts[d][h]) = <<mess[k].from, mess[k].to, k>>
        BY <3>5 DEF EntryOf, FirstWrite
      <4>2. CASE h = i
        BY <1>2, <1>4, <2>2, <4>1, <4>2
      <4>3. CASE h # i
        <5>1. h \in 1..(i - 1) /\ h \in 1..Len(puts[d])
          BY <1>3, <4>3
        <5>2. puts[d][h] \in Put /\ puts[d][h].reply # "none" /\ puts[d][h].reply # "denied"
          BY <1>1, <1>3, <5>1 DEF Undecided, InOrder
        <5>3. puts[d][h].reply = "ok"
          BY <5>2 DEF Put, Reply
        <5> QED BY <1>3, <1>4, <3>5, <4>1, <5>1, <5>3 DEF InOrder, FirstWrite
      <4> QED BY <4>2, <4>3
    <3> QED BY <1>4, <3>2, <3>3, <3>4, <3>5 DEF ForRecipient
  <2> QED BY <1>4, <2>1, <2>2
<1> QED BY <1>6, <1>7 DEF OrderInv


\* A lost connection loses answers only; what was stored stays stored.
LEMMA OrderReconnect ==
    ASSUME TypeOK, OrderInv, NEW d \in Devices, Reconnect(d)
    PROVE  OrderInv'
<1> DEFINE q == puts[d]
           r == [i \in 1..Len(q) |-> [q[i] EXCEPT !.reply = "none"]]
<1>1. q \in Seq(Put) /\ Len(q) \in Nat /\ InOrder(mess, userMess, q)
  BY DEF TypeOK, OrderInv
<1>2. Len(r) = Len(q)
  BY <1>1
<1>3. ASSUME NEW i \in 1..Len(q) PROVE Same(r[i], q[i]) /\ r[i].reply = "none"
  <2>1. q[i] \in Put
    BY <1>1
  <2> QED BY <2>1 DEF Same, Put
<1>4. puts' = [puts EXCEPT ![d] = r] /\ UNCHANGED <<mess, userMess>>
  BY DEF Reconnect, serverVars
<1> HIDE DEF q, r
<1>5. InOrder(mess, userMess, r)
  BY <1>1, <1>2, <1>3, OrderGrows
<1> QED BY <1>4, <1>5, OrderOne

\* The completion blocks queue the sender's entry before the recipient's, of
\* a message that is stored.
LEMMA OrderAck ==
    ASSUME TypeOK, IndexInv, OrderInv, NEW d \in Devices,
           \/ AckOther(d) \/ AckMessage(d) \/ AckVideo(d)
           \/ AckCrashFrom(d) \/ AckCrashTo(d)
    PROVE  OrderInv'
<1> DEFINE p == Head(puts[d])
           q == Tail(puts[d])
<1>1. Answered(d) /\ UNCHANGED <<mess, userMess>>
  BY DEF AckOther, AckMessage, AckVideo, AckCrashFrom, AckCrashTo, Acked, clientVars,
         serverVars
<1>2. /\ puts[d] \in Seq(Put) /\ puts[d] # <<>> /\ p \in Put /\ p \in Queued(d)
      /\ p.reply # "none" /\ q \in Seq(Put) /\ Len(q) \in Nat
      /\ InOrder(mess, userMess, puts[d])
  BY <1>1, ElemsTail DEF Answered, TypeOK, Queued, OrderInv
<1>3. InOrder(mess, userMess, q)
  BY <1>2, OrderTail
<1>4. ASSUME Acked(d), p.msg.from # DemoFrom
      PROVE  /\ p.key \in Keys /\ mess[p.key] = p.msg
             /\ p.msg \in Message /\ p.msg.from \in Users
             /\ p.msg.to # DemoTo => p.msg.to \in Users
  <2>1. p.at = "mess" /\ p.reply = "ok" /\ Agrees(p)
    BY <1>2, <1>4 DEF Acked, IndexInv
  <2>2. p.key \in Keys /\ p.msg \in Message
    BY <1>2, <2>1, QueuedType
  <2> QED BY <1>4, <2>1, <2>2 DEF Agrees, Message
<1> HIDE DEF p, q
<1>5. CASE AckOther(d) \/ AckCrashFrom(d)
  <2>1. puts' = [puts EXCEPT ![d] = q]
    BY <1>5 DEF AckOther, AckCrashFrom, q
  <2> QED BY <1>1, <1>3, <2>1, OrderOne
<1>6. CASE AckMessage(d)
  <2> DEFINE a == IndexPut(p.msg.from, p.msg.to, p.key)
             b == IndexPut(p.msg.to, p.msg.from, p.key)
  <2>1. /\ p.key \in Keys /\ mess[p.key] = p.msg /\ p.msg \in Message
        /\ p.msg.from \in Users /\ p.msg.kind # "video"
    BY <1>4, <1>6 DEF AckMessage, p
  <2>2. p.msg.to \in Users
    BY <2>1 DEF Message
  <2>3. /\ a \in Put /\ a.at = "index" /\ a.reply = "none" /\ a.key = p.key
        /\ FirstWrite(mess, p.key, a)
    BY <2>1, <2>2, PutShapes DEF IndexPut, FirstWrite
  <2>4. b \in Put /\ b.at = "index" /\ b.reply = "none" /\ b.key = p.key
    BY <2>1, <2>2, PutShapes DEF IndexPut
  <2>5. puts' = [puts EXCEPT ![d] = Append(Append(q, a), b)]
    BY <1>6 DEF AckMessage, p, q
  <2> HIDE DEF a, b
  <2>6. InOrder(mess, userMess, Append(q, a))
    BY <1>2, <1>3, <2>3, OrderAppend
  <2>7. /\ Append(q, a) \in Seq(Put) /\ Len(Append(q, a)) = Len(q) + 1
        /\ Append(q, a)[Len(q) + 1] = a /\ Len(q) + 1 \in 1..Len(Append(q, a))
    BY <1>2, <2>3
  <2>8. \E h \in 1..Len(Append(q, a)) : FirstWrite(mess, b.key, Append(q, a)[h])
    BY <2>3, <2>4, <2>7
  <2>9. InOrder(mess, userMess, Append(Append(q, a), b))
    BY <2>4, <2>6, <2>7, <2>8, OrderAppend
  <2> QED BY <1>1, <2>5, <2>9, OrderOne
<1>7. CASE AckVideo(d)
  <2> DEFINE a == FlatPut(p.msg.from, p.key)
             b == FlatPut(p.msg.to, p.key)
  <2>1. p.key \in Keys /\ p.msg.from \in Users /\ p.msg.to \in Users
    BY <1>4, <1>7 DEF AckVideo, p
  <2>2. /\ a \in Put /\ a.at = "flat" /\ a.reply = "none"
        /\ b \in Put /\ b.at = "flat" /\ b.reply = "none"
    BY <2>1, PutShapes DEF FlatPut
  <2>3. puts' = [puts EXCEPT ![d] = Append(Append(q, a), b)]
    BY <1>7 DEF AckVideo, p, q
  <2> HIDE DEF a, b
  <2>4. InOrder(mess, userMess, Append(q, a)) /\ Append(q, a) \in Seq(Put)
    BY <1>2, <1>3, <2>2, OrderAppend DEF ForRecipient
  <2>5. InOrder(mess, userMess, Append(Append(q, a), b))
    BY <2>2, <2>4, OrderAppend DEF ForRecipient
  <2> QED BY <1>1, <2>3, <2>5, OrderOne
<1>8. CASE AckCrashTo(d)
  <2> DEFINE a == FlatPut(p.msg.from, p.key)
  <2>1. p.key \in Keys /\ p.msg.from \in Users
    BY <1>4, <1>8 DEF AckCrashTo, p
  <2>2. a \in Put /\ a.at = "flat" /\ a.reply = "none"
    BY <2>1, PutShapes DEF FlatPut
  <2>3. puts' = [puts EXCEPT ![d] = Append(q, a)]
    BY <1>8 DEF AckCrashTo, p, q
  <2> HIDE DEF a
  <2>4. InOrder(mess, userMess, Append(q, a))
    BY <1>2, <1>3, <2>2, OrderAppend DEF ForRecipient
  <2> QED BY <1>1, <2>3, <2>4, OrderOne
<1> QED BY <1>5, <1>6, <1>7, <1>8

\* Without room for a deletion there is none.
LEMMA NoDeletion ==
    ASSUME TypeOK, MaxPendingDeletes = 0, NEW d \in Devices, NEW u
    PROVE  ~DeleteConversation(d, u)
<1> DEFINE D == {i \in 1..Len(puts[d]) : puts[d][i].at = "delete"}
<1>1. Len(puts[d]) \in Nat
  BY DEF TypeOK
<1>2. IsFiniteSet(1..Len(puts[d]))
  BY <1>1, FS_Interval
<1>3. IsFiniteSet(D)
  BY <1>2, FS_Subset
<1>4. Cardinality(D) \in Nat
  BY <1>3, FS_CardinalityType
<1> HIDE DEF D
<1>5. ~(Cardinality(D) < 0)
  BY <1>4
<1> QED BY <1>5 DEF DeleteConversation, D

\* A message that is sent joins the queue.
LEMMA OrderWrite ==
    ASSUME TypeOK, OrderInv, NEW d \in Devices, NEW m \in Message,
           WriteMessage(d, m), UNCHANGED <<mess, userMess>>
    PROVE  OrderInv'
<1>1. PICK k \in Keys : puts' = [puts EXCEPT ![d] = Append(@, MessPut(k, m))]
  BY DEF WriteMessage
<1>2. /\ MessPut(k, m) \in Put /\ MessPut(k, m).at = "mess"
      /\ MessPut(k, m).reply = "none"
  BY PutShapes DEF MessPut
<1> QED BY <1>1, <1>2, OrderJoin

\* Every step keeps the order.
LEMMA OrderStep ==
    ASSUME ~MayDeny, MaxPendingDeletes = 0
    PROVE  TypeOK /\ IndexInv /\ OrderInv /\ [Next]_vars => OrderInv'
<1> SUFFICES ASSUME TypeOK, IndexInv, OrderInv, [Next]_vars PROVE OrderInv'
  OBVIOUS
<1> USE DEF serverVars, clientVars
<1>1. CASE UNCHANGED vars
  BY <1>1, OrderIdle DEF vars
<1>2. ASSUME NEW s \in Chats, ChatStep(s) PROVE OrderInv'
  <2>1. CASE SendText(s)
    <3> DEFINE m == [kind |-> "text", from |-> FromId(DeviceOf[s]),
                     to |-> user[s], image |-> NoPath, video |-> NoPath]
    <3>1. m \in Message
      BY <2>1, DeviceOfChat DEF SendText, Message, FromId, TypeOK
    <3>2. WriteMessage(DeviceOf[s], m) /\ UNCHANGED <<mess, userMess>>
      BY <2>1 DEF SendText
    <3> HIDE DEF m
    <3> QED BY <3>1, <3>2, DeviceOfChat, OrderWrite
  <2>2. CASE ~SendText(s)
    <3>1. UNCHANGED <<puts, mess, userMess>>
      BY <1>2, <2>2 DEF ChatStep, OpenFromNewMessage, OpenFromInbox, ProfileLoaded,
         LeaveChat, SendTextCrash, Die, PickImage, PickVideo
    <3> QED BY <3>1, OrderIdle
  <2> QED BY <2>1, <2>2
<1>3. ASSUME NEW j \in Jobs, JobStep(j) PROVE OrderInv'
  <2>1. CASE ImageURLDone(j)
    <3>1. DeviceOfJob(j) \in Devices /\ MediaMessage(j) \in Message
      BY <2>1, RunningJob, MediaMessageType DEF ImageURLDone
    <3>2. WriteMessage(DeviceOfJob(j), MediaMessage(j)) /\ UNCHANGED <<mess, userMess>>
      BY <2>1 DEF ImageURLDone
    <3> QED BY <3>1, <3>2, OrderWrite
  <2>2. CASE ~ImageURLDone(j)
    <3>1. UNCHANGED <<puts, mess, userMess>>
      BY <1>3, <2>2 DEF JobStep, PutFileDone, ThumbnailCrash, PutDataDone,
         MovieURLDone, ImageURLFailed, ImageURLCrash, Die
    <3> QED BY <3>1, OrderIdle
  <2> QED BY <2>1, <2>2
<1>4. ASSUME NEW d \in Devices, DeviceStep(d) PROVE OrderInv'
  <2>1. CASE Relaunch(d)
    <3>1. InOrder(mess, userMess, <<>>)
      BY DEF InOrder
    <3>2. puts' = [puts EXCEPT ![d] = <<>>] /\ UNCHANGED <<mess, userMess>>
      BY <2>1 DEF Relaunch
    <3> QED BY <3>1, <3>2, OrderOne
  <2>2. CASE (\E u \in Users : SignIn(d, u)) \/ SignOut(d) \/ RevokeSession(d) \/ Kill(d)
    <3>1. UNCHANGED <<puts, mess, userMess>>
      BY <2>2 DEF SignIn, SignOut, RevokeSession, Kill, Die
    <3> QED BY <3>1, OrderIdle
  <2>3. \A u \in Users : ~DeleteConversation(d, u)
    BY NoDeletion
  <2> QED BY <1>4, <2>1, <2>2, <2>3 DEF DeviceStep
<1>5. ASSUME NEW d \in Devices, ConnectionStep(d) PROVE OrderInv'
  BY <1>5, OrderAccept, OrderReconnect, OrderAck DEF ConnectionStep, ServerDeny
<1> QED BY <1>1, <1>2, <1>3, <1>4, <1>5 DEF Next

\* As long as the server refuses nothing and nothing is deleted, a message in
\* its recipient's list is in its sender's too, over any number of connection
\* losses and app deaths between the writes of the completion block
\* (chat_logmessage.swift 186-190, restoreState).
THEOREM SenderListedFirst ==
    ~MayDeny /\ MaxPendingDeletes = 0 /\ Spec => []RecipientListedAfterSender
<1> SUFFICES ASSUME ~MayDeny, MaxPendingDeletes = 0
             PROVE  Spec => []RecipientListedAfterSender
  OBVIOUS
<1>1. Init => OrderInv
  BY DEF Init, OrderInv, RecipientListedAfterSender, InOrder
<1>2. TypeOK /\ IndexInv /\ OrderInv /\ [Next]_vars => OrderInv'
  BY OrderStep
<1>3. OrderInv => RecipientListedAfterSender
  BY DEF OrderInv
<1> QED BY <1>1, <1>2, <1>3, TypeCorrect, IndexInvariant, PTL DEF Spec
==============================================================================
