---------------------------- MODULE MCLogFrames ----------------------------
(* LogFrames on small responses, for TLC. *)
EXTENDS LogFrames

Text(n) == [i \in 1..n |-> 64 + i]

PlainPayloads == {<<NL>>, <<65, NL>>, <<1, 66, NL>>}

\* A payload of ten bytes has a newline in its header.
TenBytes == {<<65, NL>>, Append(Text(9), NL)}

\* A line that does not fit bufio's buffer.
LongLine == {<<65, NL>>, Append(Text(19), NL)}

HardPayloads == TenBytes \cup LongLine

\* Also payloads with a line break inside, with none, and of \r\n lines.
AllPayloads ==
    PlainPayloads \cup HardPayloads
      \cup {<<65>>, <<65, CR, NL>>, <<65, NL, NL, 66, NL>>}
=============================================================================
