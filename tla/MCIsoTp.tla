------------------------------- MODULE MCIsoTp -------------------------------
EXTENDS IsoTp

\* Lengths with the frame sizes of the code: one frame, a first frame and four
\* consecutive frames, and one byte more than the buffer takes.
MCKinds == {"ask", "open", "data", "report", "huge", "reset"}
MCLength == [ask |-> 2, open |-> 9, data |-> 59 + 63 * 3 + 1, report |-> 62, huge |-> 250, reset |-> 2]
MCAnswerLength == [ask |-> 6, open |-> 3, data |-> 2, report |-> 59 + 63 * 2, huge |-> 3, reset |-> 2]
MCScripts == {<<"ask", "open", "data", "data", "reset">>, <<"ask", "huge">>, <<"ask", "report", "open">>}

\* Node B's frames. Telemetry begins with two bytes of 0, a single frame of length 0. Its
\* boot sync begins with its floor, whose low byte may have any type: a single frame of as
\* many bytes as the floor has multiples of 256, a first frame whose length is made of the
\* rest, a part, and the kinds of flow control.
MCForeign ==
    {CanFrame("SF", 0, 0, 0), CanFrame("SF", 0, 0, 2), CanFrame("FF", 0, 0, 180), CanFrame("FF", 0, 0, 65536),
     CanFrame("CF", 0, 0, 1), CanFrame("CF", 0, 0, 2), CanFrame("FC", 0, 0, 0), CanFrame("OVF", 0, 0, 0),
     CanFrame("none", 0, 0, 0)}

\* What the theorems about whole messages and undisturbed runs assume of scripts.
ASSUME MCScriptsAreOrderly == \A s \in Scripts : Orderly(s)
=============================================================================
