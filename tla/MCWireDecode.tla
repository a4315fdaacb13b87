---------------------------- MODULE MCWireDecode ----------------------------
\* Small instance of WireDecode for TLC.
EXTENDS WireDecode

\* The empty string, one that looks like a field, and one whose length takes
\* two bytes.
MCStrings == {<<>>, <<10, 1>>, [i \in 1..Base |-> 0]}

\* No text, "0" and "12".
MCInts == {<<>>, <<48>>, <<49, 50>>}

\* The values around one byte of payload, and the largest.
MCNumbers == {0, Base - 1, Base, Int32Size - 1}
=============================================================================
