---------------------------- MODULE PictureSession ----------------------------
(***************************************************************************)
(* Session with the picture of one of its clients: Session decides when    *)
(* the steps of Picture are taken.                                         *)
(***************************************************************************)
EXTENDS Session, Picture

CONSTANT Painter  \* the client whose picture is followed

ASSUME PainterAssumption == Painter \in Clients

Plain(A) == A /\ UNCHANGED vars_picture

\* The client reads its file before it decodes, and converts the picture between
\* connect and sendmsg.
PainterSteps ==
  \/ Decoding(Painter) /\ dec[Painter] = "nothing" /\ process /\ UNCHANGED vars
  \/ cpc[Painter] \in {"send", "done"} /\ abgr2argb /\ UNCHANGED vars
  \/ /\ ClientSteps(Painter)
     /\ Decoding(Painter) => eof
     /\ cpc[Painter] = "send" => Converted
     /\ IF dec[Painter] # "image" /\ dec'[Painter] = "image" THEN jxl_decode
        ELSE UNCHANGED vars_picture

\* The daemon shows the picture in the step that receives the message.
ServeSteps(d) ==
  /\ DaemonSteps(d)
  /\ IF Painter \in served' \ served THEN Show ELSE UNCHANGED vars_picture

Disturbances ==
  \/ \E d \in Daemons : Signal(d) \/ Hangup(d) \/ Wake(d) \/ Kill(d)
  \/ \E c \in Clients : Interrupt(c)

PictureInit == Init /\ Init_picture

PictureNext ==
  \/ PainterSteps
  \/ \E d \in Daemons : ServeSteps(d)
  \/ \E c \in Clients \ {Painter} : Plain(ClientSteps(c))
  \/ Plain(Disturbances)

vars_all == <<vars, vars_picture>>

PictureSpec == PictureInit /\ [][PictureNext]_vars_all

\* As in Session, the kernel schedules all of them.
FairPictureSpec ==
  /\ PictureSpec
  /\ WF_vars_all(PainterSteps)
  /\ \A d \in Daemons : WF_vars_all(ServeSteps(d))
  /\ \A c \in Clients \ {Painter} : WF_vars_all(Plain(ClientSteps(c)))
=============================================================================
