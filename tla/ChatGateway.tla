----------------------------- MODULE ChatGateway ----------------------------
(***************************************************************************)
(* The chat gateway: agent/api/ai_chat_gateway.py.  Threads of one process *)
(* call one gateway.  Its two stores are dictionaries that nothing guards  *)
(* and that are written whole after each change; what an image contains is *)
(* a file named by the hash of it, shared by the images that have it.  A   *)
(* save takes a lock file that only the save itself removes.               *)
(***************************************************************************)
EXTENDS Naturals

CONSTANTS
    Threads,
    Conversations, Messages, Images,   (* ids, each generated once           *)
    Contents,
    MaxFailures     (* bound on saves that fail and on processes that die     *)

VARIABLES
    chats,          (* _conversations._data: conversations and messages       *)
    images,         (* _uploads._data: the content each image has             *)
    chats_file, images_file,
    bytes,          (* the contents in uploads_dir                            *)
    queued,         (* messages whose plan the mission queue took             *)
    up,             (* FALSE: a lock left behind, no gateway can be built     *)
    pc, mine,       (* where each thread is, and with what                    *)
    failures,
    told,           (* history: images whose upload returned                  *)
    forced,         (* history: images deleted by force                       *)
    raced           (* history: images whose deletion overlapped their use,
                       or was not saved when their content went; images whose
                       upload overlapped the removal of the same content      *)

history_vars == <<told, forced, raced>>
store_vars == <<chats, images, chats_file, images_file, bytes, queued>>
vars == <<store_vars, up, pc, mine, failures, history_vars>>

Nothing == "nothing"
NoMessage == [chat |-> Nothing, images |-> {}, status |-> Nothing]
Empty == [image |-> Nothing, content |-> Nothing, message |-> Nothing,
          body |-> NoMessage, mode |-> Nothing, force |-> FALSE]

Init ==
    /\ chats = [status |-> [c \in Conversations |-> Nothing],
                message |-> [m \in Messages |-> NoMessage]]
    /\ images = [i \in Images |-> Nothing]
    /\ chats_file = chats /\ images_file = images
    /\ bytes = {} /\ queued = {} /\ up = TRUE
    /\ pc = [t \in Threads |-> "idle"]
    /\ mine = [t \in Threads |-> Empty]
    /\ failures = 0
    /\ told = {} /\ forced = {} /\ raced = {}

At(t, place) == up /\ pc[t] = place

Go(t, place, m) ==
    /\ pc' = [pc EXCEPT ![t] = place]
    /\ mine' = [mine EXCEPT ![t] = m]

Return(t) == Go(t, "idle", Empty)

OnlyThread == UNCHANGED <<store_vars, up, failures, history_vars>>

(* is_image_referenced                                                       *)
Referenced(i) == \E m \in Messages : i \in chats.message[m].images

(* The ids a new call may draw: neither stored nor drawn by another call.    *)
FreshImages ==
    {i \in Images : images[i] = Nothing /\ i \notin told \cup raced /\ \A t \in Threads : mine[t].image # i}
FreshMessages ==
    {m \in Messages : chats.message[m] = NoMessage /\ \A t \in Threads : mine[t].message # m}

-----------------------------------------------------------------------------
(* Conversations: create, archive, delete.  A deleted one can be archived.   *)

SetStatus(t, c, status) ==
    /\ At(t, "idle")
    /\ chats.status[c] # status
    /\ status = "active" <=> chats.status[c] = Nothing
    /\ chats' = [chats EXCEPT !.status[c] = status]
    /\ Go(t, "save_chats", Empty)
    /\ UNCHANGED <<images, chats_file, images_file, bytes, queued, up, failures, history_vars>>

-----------------------------------------------------------------------------
(* upload_image and delete_image                                             *)

(* Somebody found that no image has the content, and is about to remove it.  *)
Doomed(x) == \E u \in Threads : pc[u] = "remove" /\ mine[u].content = x

(* write_image_bytes_if_absent                                               *)
UploadBytes(t, i, x) ==
    /\ At(t, "idle") /\ i \in FreshImages
    /\ bytes' = bytes \cup {x}
    /\ raced' = IF Doomed(x) THEN raced \cup {i} ELSE raced
    /\ Go(t, "put_image", [Empty EXCEPT !.image = i, !.content = x])
    /\ UNCHANGED <<chats, images, chats_file, images_file, queued, up, failures, told, forced>>

PutImage(t) ==
    /\ At(t, "put_image")
    /\ images' = [images EXCEPT ![mine[t].image] = mine[t].content]
    /\ Go(t, "save_upload", mine[t])
    /\ UNCHANGED <<chats, chats_file, images_file, bytes, queued, up, failures, history_vars>>

CheckImage(t, i, force) ==
    /\ At(t, "idle") /\ i \in told
    /\ force \/ ~Referenced(i)
    /\ Go(t, "drop_image", [Empty EXCEPT !.image = i, !.force = force])
    /\ OnlyThread

(* Messages that name the image were stored, or are about to be.             *)
InUse(i) == Referenced(i) \/ \E u \in Threads : pc[u] = "put_message" /\ i \in mine[u].body.images

DropImage(t) ==
    /\ At(t, "drop_image")
    /\ LET i == mine[t].image
       IN  IF images[i] = Nothing
           THEN Return(t) /\ OnlyThread
           ELSE /\ images' = [images EXCEPT ![i] = Nothing]
                /\ Go(t, "save_drop", [mine[t] EXCEPT !.content = images[i]])
                /\ forced' = IF mine[t].force THEN forced \cup {i} ELSE forced
                /\ raced' = IF InUse(i) THEN raced \cup {i} ELSE raced
                /\ UNCHANGED <<chats, chats_file, images_file, bytes, queued, up, failures, told>>

(* Images with the content that are not in the dictionary yet: their upload  *)
(* found the content there, or has just written it.                          *)
Arriving(x) ==
    {mine[u].image : u \in {v \in Threads : pc[v] = "put_image" /\ mine[v].content = x}}

(* Images that a deletion took out of the dictionary and not of the file.    *)
Unsaved(x) == {i \in Images : images[i] = Nothing /\ images_file[i] = x}

(* Mutant of FindUses: the content goes with the first of its images.        *)
FindNoUses(t) ==
    /\ At(t, "unlink")
    /\ Go(t, "remove", mine[t]) /\ raced' = raced \cup Arriving(mine[t].content)
    /\ UNCHANGED <<store_vars, up, failures, told, forced>>

(* delete_image_bytes_if_unreferenced looks into the index of contents, and  *)
(* removes the file; an upload may begin, be told and be attached in between. *)
FindUses(t) ==
    /\ At(t, "unlink")
    /\ IF \E i \in Images : images[i] = mine[t].content
       THEN Return(t) /\ UNCHANGED raced
       ELSE /\ Go(t, "remove", mine[t])
            /\ raced' = raced \cup Arriving(mine[t].content)
    /\ UNCHANGED <<store_vars, up, failures, told, forced>>

Unlink(t) ==
    /\ At(t, "remove")
    /\ bytes' = bytes \ {mine[t].content}
    /\ raced' = raced \cup Unsaved(mine[t].content)
    /\ Return(t)
    /\ UNCHANGED <<chats, images, chats_file, images_file, queued, up, failures, told, forced>>

-----------------------------------------------------------------------------
(* send_message                                                              *)

Validate(t, m, c, attached, mode) ==
    /\ At(t, "idle") /\ m \in FreshMessages
    /\ chats.status[c] \in {"active", "archived"}
    /\ attached \subseteq told /\ \A i \in attached : images[i] # Nothing
    /\ Go(t, "put_message",
          [Empty EXCEPT !.message = m, !.mode = mode,
                        !.body = [chat |-> c, images |-> attached, status |-> "received"]])
    /\ OnlyThread

SetMessage(t, status) ==
    chats' = [chats EXCEPT !.message[mine[t].message] = [mine[t].body EXCEPT !.status = status]]

PutMessage(t) ==
    /\ At(t, "put_message")
    /\ SetMessage(t, "received")
    /\ Go(t, "save_message", mine[t])
    /\ UNCHANGED <<images, chats_file, images_file, bytes, queued, up, failures, history_vars>>

(* The planner answers, raises, or there is none, which is found out now.    *)
PlanMessage(t) ==
    /\ At(t, "plan")
    /\ \/ /\ mine[t].mode = "plan_and_enqueue"
          /\ Go(t, "enqueue", mine[t]) /\ UNCHANGED chats
       \/ /\ mine[t].mode = "planning"
          /\ SetMessage(t, "planned") /\ Go(t, "save_chats", mine[t])
       \/ SetMessage(t, "planning_failed") /\ Go(t, "save_chats", mine[t])
       \/ Return(t) /\ UNCHANGED chats
    /\ UNCHANGED <<images, chats_file, images_file, bytes, queued, up, failures, history_vars>>

EnqueuePlan(t) ==
    /\ At(t, "enqueue")
    /\ \/ queued' = queued \cup {mine[t].message} /\ SetMessage(t, "enqueued")
       \/ queued' = queued /\ SetMessage(t, "enqueue_failed")
    /\ Go(t, "save_chats", mine[t])
    /\ UNCHANGED <<images, chats_file, images_file, bytes, up, failures, history_vars>>

-----------------------------------------------------------------------------
(* Saves, and what interrupts them                                           *)

SaveChats(t) ==
    /\ At(t, "save_chats") \/ At(t, "save_message")
    /\ chats_file' = chats
    /\ IF pc[t] = "save_message" /\ mine[t].mode # "analysis" THEN Go(t, "plan", mine[t]) ELSE Return(t)
    /\ UNCHANGED <<chats, images, images_file, bytes, queued, up, failures, history_vars>>

SaveImages(t) ==
    /\ At(t, "save_upload") \/ At(t, "save_drop")
    /\ images_file' = images
    /\ \/ /\ pc[t] = "save_upload"
          /\ told' = told \cup {mine[t].image} /\ Return(t)
       \/ /\ pc[t] = "save_drop"
          /\ told' = told /\ Go(t, "unlink", mine[t])
    /\ UNCHANGED <<chats, images, chats_file, bytes, queued, up, failures, forced, raced>>

Saving(t) == pc[t] \in {"save_chats", "save_message", "save_upload", "save_drop"}

(* The lock is not had within a tenth of a second, the dictionary changes    *)
(* while it is written, or the disk refuses: the call raises.                *)
SaveFails(t) ==
    /\ up /\ Saving(t) /\ failures < MaxFailures
    /\ failures' = failures + 1
    /\ Return(t)
    /\ UNCHANGED <<store_vars, up, history_vars>>

(* The process dies and another is started.  Where it died in a save, the    *)
(* lock is there to stay: the next load raises.                              *)
Crash ==
    /\ up /\ failures < MaxFailures
    /\ failures' = failures + 1
    /\ chats' = chats_file /\ images' = images_file
    /\ pc' = [t \in Threads |-> "idle"] /\ mine' = [t \in Threads |-> Empty]
    /\ \/ up' = TRUE
       \/ up' = FALSE /\ \E t \in Threads : Saving(t)
    /\ UNCHANGED <<chats_file, images_file, bytes, queued, history_vars>>

-----------------------------------------------------------------------------
Call(t) ==
    \/ \E c \in Conversations, s \in {"active", "archived", "deleted"} : SetStatus(t, c, s)
    \/ \E i \in Images, x \in Contents : UploadBytes(t, i, x)
    \/ \E i \in Images, force \in BOOLEAN : CheckImage(t, i, force)
    \/ \E m \in Messages, c \in Conversations, attached \in SUBSET Images,
          mode \in {"analysis", "planning", "plan_and_enqueue"} : Validate(t, m, c, attached, mode)

Step(t) ==
    \/ PutImage(t) \/ DropImage(t) \/ FindUses(t) \/ Unlink(t)
    \/ PutMessage(t) \/ PlanMessage(t) \/ EnqueuePlan(t)
    \/ SaveChats(t) \/ SaveImages(t) \/ SaveFails(t)

Next == Crash \/ \E t \in Threads : Call(t) \/ Step(t)

Spec == Init /\ [][Next]_vars

-----------------------------------------------------------------------------
(* The inductive invariant of AttachedIsReadable.  Every upload and every    *)
(* message has an id of its own from the moment it draws it; what a file     *)
(* knows the memory knew, and an image is missing in one of them only until  *)
(* it is told or where it was dropped; and the contents both refer to are    *)
(* there, except those of images that raced.                                 *)
MessageRecords ==
    [chat : Conversations \cup {Nothing}, images : SUBSET Images,
     status : {Nothing, "received", "planned", "planning_failed", "enqueued", "enqueue_failed"}]
Places ==
    {"idle", "put_image", "save_upload", "drop_image", "save_drop", "unlink", "remove",
     "put_message", "save_message", "plan", "enqueue", "save_chats"}
Held ==
    [image : Images \cup {Nothing}, content : Contents \cup {Nothing},
     message : Messages \cup {Nothing}, body : MessageRecords,
     mode : {Nothing, "analysis", "planning", "plan_and_enqueue"}, force : BOOLEAN]

Uploading(t) == pc[t] \in {"put_image", "save_upload"}
Sending(t) == mine[t].message # Nothing

ChatTypeOK ==
    /\ chats.message \in [Messages -> MessageRecords]
    /\ chats_file.message \in [Messages -> MessageRecords]
    /\ chats = [status |-> chats.status, message |-> chats.message]
    /\ chats_file = [status |-> chats_file.status, message |-> chats_file.message]
    /\ images \in [Images -> Contents \cup {Nothing}]
    /\ images_file \in [Images -> Contents \cup {Nothing}]
    /\ pc \in [Threads -> Places] /\ mine \in [Threads -> Held]
    /\ told \subseteq Images

UploadsApart ==
    \A t \in Threads :
        /\ Uploading(t) =>
              /\ mine[t].image \in Images \ told /\ mine[t].content \in Contents
              /\ \A u \in Threads \ {t} : Uploading(u) => mine[u].image # mine[t].image
        /\ pc[t] = "put_image" =>
              /\ images[mine[t].image] = Nothing
              /\ mine[t].content \in bytes \/ mine[t].image \in raced
        /\ pc[t] = "drop_image" => mine[t].image \in told

MessagesApart ==
    /\ \A t \in Threads : pc[t] \in {"put_message", "save_message", "plan", "enqueue"} => Sending(t)
    /\ \A t \in Threads : Sending(t) =>
        /\ chats.message[mine[t].message].images = IF pc[t] = "put_message" THEN {} ELSE mine[t].body.images
        /\ mine[t].body.images \subseteq told
        /\ \A u \in Threads \ {t} : mine[u].message # mine[t].message

FileBehind ==
    \A m \in Messages :
        /\ chats.message[m].images \subseteq told
        /\ chats_file.message[m].images \subseteq chats.message[m].images

ImagesKnown ==
    \A i \in Images :
        /\ images[i] # Nothing /\ images_file[i] # Nothing => images[i] = images_file[i]
        /\ images[i] = Nothing /\ images_file[i] # Nothing => i \in told
        /\ i \in told /\ images[i] # Nothing => images_file[i] # Nothing

ContentsThere ==
    \A i \in Images \ raced : {images[i], images_file[i]} \subseteq bytes \cup {Nothing}

RemovalsApart ==
    \A t \in Threads :
        /\ pc[t] \in {"save_drop", "unlink", "remove"} => mine[t].content \in Contents
        /\ pc[t] = "remove" =>
              /\ \A i \in Images \ raced : images[i] # mine[t].content
              /\ Arriving(mine[t].content) \subseteq raced

ShownAreThere ==
    /\ \A m \in Messages : \A i \in chats.message[m].images \ (forced \cup raced) :
          images[i] # Nothing
    /\ \A t \in Threads : pc[t] = "put_message" =>
          \A i \in mine[t].body.images \ (forced \cup raced) : images[i] # Nothing

Attached ==
    /\ ChatTypeOK /\ UploadsApart /\ MessagesApart /\ FileBehind
    /\ ImagesKnown /\ ContentsThere /\ RemovalsApart /\ ShownAreThere

(* An image that a stored message shows can be read, with its metadata and   *)
(* its content, also after a restart: unless it was deleted by force, its    *)
(* deletion overlapped the call that used it or was not saved when that of   *)
(* another image removed the content they share, or its upload overlapped    *)
(* the look and the removal of that content, which nothing keeps together.   *)
AttachedIsReadable ==
    \A m \in Messages : \A i \in chats.message[m].images \ (forced \cup raced) :
        images[i] # Nothing /\ images[i] \in bytes
=============================================================================
