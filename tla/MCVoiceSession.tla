---------------------------- MODULE MCVoiceSession ----------------------------
(* The troubles in which TLC examines VoiceSession. *)
EXTENDS VoiceSession

Some == {{"deaf"}, {"error"}, {"slow"}, {"switch"}, {"refuse", "die"}, {"deny", "unmount"},
         {"type", "signout"}}
JustSwitch == {{"switch"}}
=============================================================================
