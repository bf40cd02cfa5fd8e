------------------------------- MODULE MCWire -------------------------------
(* Finite instances of Wire for TLC. *)
EXTENDS Wire

\* All the markers begin with ESC, as those of the code do; the two of a frame
\* share "csi" too, which stands for the bytes [?2026.
Symbols == {"esc", "csi", "osc", "st", "on", "off", "h1", "h2", "f",
            WithHistory, EmptyHistory, NoHistory, HistEnd}
BsuMark == <<"esc", "csi", "on">>
EsuMark == <<"esc", "csi", "off">>
OscMark == <<"esc", "osc">>
StMark == <<"esc", "st">>
HistoryLines == {"h1", "h2"}

Control(word) == OscMark \o <<word>> \o StMark
Frame == BsuMark \o <<"f">> \o EsuMark

\* A history contains escape sequences of its own.
Full == Control(WithHistory) \o <<"h1", "esc", "csi", "h2">> \o Control(HistEnd) \o Frame \o Frame
Empty == Control(EmptyHistory) \o Control(HistEnd) \o Frame
Bare == Control(NoHistory) \o Control(HistEnd) \o Frame
Legacy == Frame \o <<"f", "esc">> \o Frame

\* The same with fewer frames; text that begins like a marker is torn by one.
Short == Control(WithHistory) \o <<"h1", "esc", "csi", "h2">> \o Control(HistEnd) \o Frame
Torn == Frame \o <<"esc">> \o Frame

\* A producer may fail to read the history in time; an old one does not know
\* that it can be asked for none, a legacy one does not know wire v2.
AnyProducer ==
  [asked \in BOOLEAN |-> {Full, Empty, Bare, Legacy}]
BriefProducer ==
  [asked \in BOOLEAN |-> {Short, Empty, Bare, Torn}]
=============================================================================
