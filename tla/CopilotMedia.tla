---------------------------- MODULE CopilotMedia ----------------------------
(***************************************************************************)
(* The microphone and the camera of the composer.  A press of a button     *)
(* starts a capture, or, while the page says that device is capturing,     *)
(* only takes the mark back: nothing stops the recorder.  One mark is kept *)
(* for both devices.  A capture asks for the device, holds it, releases it *)
(* and reads what it has, then reports a result or an error.               *)
(***************************************************************************)
EXTENDS ConsoleApi

CONSTANTS
    MaxCaptures,   \* bound: how often a device is asked for
    MediaKept      \* the attachments the composer keeps: 4 on the page

Devices == {"mic", "camera"}
NoDevice == NoArg
Captures == 1..MaxCaptures

\* How big a capture came out.
Sizes == {"small", "big"}
isOverCap(size) == size = "big"

\* holds: the tracks of the device that are still live.
Unused == [source |-> NoDevice, stage |-> "unused", holds |-> FALSE]

Init ==
    /\ db = [mark |-> NoDevice, able |-> TRUE, capture |-> [c \in Captures |-> Unused], media |-> <<>>]
    /\ net = 0

At(c, stage) == db.capture[c].stage = stage /\ UNCHANGED net

Goes(c, stage, holds) == db' = [db EXCEPT !.capture[c].stage = stage, !.capture[c].holds = holds]

\* onError or onCapture, then the mark is taken back, whoever set it last.
Reports(c, media) ==
    db' = [db EXCEPT !.capture[c].stage = "reported", !.capture[c].holds = FALSE,
                     !.media = media, !.mark = NoDevice]

-----------------------------------------------------------------------------
\* The buttons; a closed or handed over session, or an auditor, has them off.
handleMedia(device) ==
    /\ db.able
    /\ \/ db.mark = device /\ db' = [db EXCEPT !.mark = NoDevice] /\ UNCHANGED net
       \/ /\ db.mark # device /\ net < MaxCaptures
          /\ net' = net + 1
          /\ db' = [db EXCEPT !.mark = device,
                              !.capture[net + 1] = [source |-> device, stage |-> "asking", holds |-> FALSE]]

setDisabled == UNCHANGED net /\ db' = [db EXCEPT !.able = ~@]

\* No API, no format, or no permission.
notSupported(c) == At(c, "asking") /\ Reports(c, db.media)

getUserMedia(c) == At(c, "asking") /\ Goes(c, IF db.capture[c].source = "mic" THEN "recording" ELSE "drawing", TRUE)

\* The recorder stops by itself, when the device is taken away.
recorderStops(c) == At(c, "recording") /\ Goes(c, "read", FALSE)

\* The recorder errors, or cannot be made.  Nobody waits for the rejection: the tracks stay live and the mark stays set.
recorderErrors(c) == At(c, "recording") /\ Goes(c, "rejected", TRUE)

\* One frame is drawn, or there is no video track or no canvas.
drawImage(c) == At(c, "drawing") /\ Goes(c, "read", FALSE)

\* Mutant: the tracks are only stopped after a frame was drawn.
drawFailsHolding(c) ==
    /\ At(c, "drawing")
    /\ db' = [db EXCEPT !.capture[c].stage = "reported", !.mark = NoDevice]

drawFails(c) == At(c, "drawing") /\ Reports(c, db.media)

\* The newest are kept.
Kept(media) == IF Len(media) > MediaKept THEN Tail(media) ELSE media

\* Mutant: the size is not looked at.
onCaptureAnySize(c) ==
    At(c, "read") /\ \E size \in Sizes : Reports(c, Kept(Append(db.media, [of |-> c, size |-> size])))

onCapture(c) ==
    /\ At(c, "read")
    /\ \E size \in Sizes :
          Reports(c, IF isOverCap(size) THEN db.media ELSE Kept(Append(db.media, [of |-> c, size |-> size])))

\* A reader that fails rejects too; the tracks were released before it.
readFails(c) == At(c, "read") /\ Goes(c, "rejected", FALSE)

Next ==
    \/ \E device \in Devices : handleMedia(device)
    \/ setDisabled
    \/ \E c \in Captures :
          \/ notSupported(c) \/ getUserMedia(c) \/ recorderStops(c) \/ recorderErrors(c)
          \/ drawImage(c) \/ drawFails(c) \/ onCapture(c) \/ readFails(c)

-----------------------------------------------------------------------------
TypeOK ==
    /\ db.mark \in Devices \cup {NoDevice}
    /\ \A c \in Captures : db.capture[c].source \in Devices \cup {NoDevice}
    /\ Len(db.media) <= MediaKept

\* A capture that reported holds no device, whatever other captures ran beside
\* it and however it ended, and what it kept is within the limit.
ReportedReleased ==
    /\ \A c \in Captures : db.capture[c].stage = "reported" => ~db.capture[c].holds
    /\ \A i \in DOMAIN db.media :
          db.capture[db.media[i].of].stage = "reported" /\ db.media[i].size # "big"
    /\ \A i, j \in DOMAIN db.media : db.media[i].of = db.media[j].of => i = j
=============================================================================
