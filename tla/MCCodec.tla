------------------------------ MODULE MCCodec ------------------------------
EXTENDS Codec

\* The commands a pipeline's replies are paired with, in order.
MCOpCmds == <<"c1", "c2">>
=============================================================================
