---------------------------- MODULE GrabberDispatcher ----------------------------
(***************************************************************************)
(* The grabber's event flow around the simple-modifications pipeline: the  *)
(* devices post key events and the configuration watcher posts reloads to *)
(* one FIFO dispatcher queue (spec 5 and 6: the input sink is FIFO, reload *)
(* is serialized on the dispatcher); the dispatcher thread takes them one  *)
(* at a time and runs manipulate() or update() to completion.              *)
(*                                                                         *)
(* phys is the physical state of the keys, which runs ahead of pressed    *)
(* (what the manager has been told) by the events still queued.            *)
(***************************************************************************)
EXTENDS SimpleModificationsManipulatorManager

CONSTANT MaxQueue   \* bound on the events waiting in the dispatcher queue

VARIABLES phys, queue

dvars == <<vars, phys, queue>>

QueuedEvent ==
  [kind: {"down", "up"}, device: Devices, key: Keys] \cup [kind: {"update"}, profile: Profiles]

(* A device reports a key going down or up.                                *)
PostKey(d, k) ==
  /\ Len(queue) < MaxQueue
  /\ phys' = [phys EXCEPT ![d] = IF k \in @ THEN @ \ {k} ELSE @ \cup {k}]
  /\ queue' = Append(queue, [kind |-> IF k \in phys[d] THEN "up" ELSE "down",
                             device |-> d, key |-> k])
  /\ UNCHANGED vars

(* karabiner.json changed: a reload with profile p is posted.              *)
PostUpdate(p) ==
  /\ Len(queue) < MaxQueue
  /\ queue' = Append(queue, [kind |-> "update", profile |-> p])
  /\ UNCHANGED <<vars, phys>>

(* The dispatcher runs the oldest queued event.                            *)
Dispatch ==
  /\ queue # <<>>
  /\ LET e == Head(queue)
     IN CASE e.kind = "down" -> KeyDown(e.device, e.key)
          [] e.kind = "up" -> KeyUp(e.device, e.key)
          [] OTHER -> Update(e.profile)
  /\ queue' = Tail(queue)
  /\ UNCHANGED phys

DInit == Init /\ phys = [d \in Devices |-> {}] /\ queue = <<>>

DNext ==
  \/ \E d \in Devices, k \in Keys : PostKey(d, k)
  \/ \E p \in Profiles : PostUpdate(p)
  \/ Dispatch

(* The dispatcher thread is never starved: whenever its queue holds an     *)
(* event it eventually runs one (weak fairness of Dispatch only; devices  *)
(* and the user need not do anything).                                     *)
DSpec == DInit /\ [][DNext]_dvars /\ WF_dvars(Dispatch)

AllReleased == \A d \in Devices : phys[d] = {}
SinkIdle == \A k \in Keys : sink[k] = 0

(* Once every physical key is up, the output eventually holds no key down: *)
(* every key-down emitted, remapped or forwarded, before or across any     *)
(* number of reloads, is eventually matched by its key-up, even if keys    *)
(* are pressed again in the meantime.                                      *)
ReleasedKeysSettle == AllReleased ~> SinkIdle
=============================================================================
