------------------------------- MODULE MCLink -------------------------------
(* Small instances of BoaLink. *)
EXTENDS BoaLink

Use(name, addr, wdata, length, speed) ==
  [name |-> name, addr |-> addr, wdata |-> wdata, length |-> length, speed |-> speed]

MCRam == 8 .. 11
MCImage == <<65, 66, 67, 68>>
MCIdent == <<90, 91, 92>>
MCReturning == {11}
MCNoise == {18, 1}
MCHit ==
  [name \in {"run", "upload", "write", "ping", "id", "call", "jump", "read"} |->
     {"type", "data", "xsum"} \cup IF name = "run" THEN {} ELSE {"length", "data"}]
MCUpload == Use("run", 8, MCImage, 0, 0)
MCRead(length) == Use("read", 8, <<>>, length, 0)

\* A speed of 20 is refused; of four words, more than HostMax, one is never read.
MCSessions ==
  { <<MCUpload>>,
    <<Use("upload", 8, MCImage, 0, 0), MCRead(3)>>,
    <<Use("write", 9, <<70, 71, 72>>, 0, 0), MCRead(4), MCRead(2)>>,
    <<Use("ping", 0, <<>>, 0, 10)>>, <<Use("id", 0, <<>>, 0, 20)>>,
    <<Use("call", 8, <<>>, 0, 0)>>,
    <<Use("jump", 11, <<>>, 0, 0), Use("id", 0, <<>>, 0, 0)>> }

\* Data in which a whole packet follows the byte that is taken for the checksum
\* once the length has been disturbed; the length is all that is.
FrameRam == 8 .. 15
FrameNoise == {1}
FrameHit == [name \in DOMAIN MCHit |-> {"length", "data"}]
FrameUpload == Use("run", 8, <<65, 65, 2, 3, 0, 5, 66>>, 0, 0)
FrameSessions == {<<FrameUpload>>}
=============================================================================
