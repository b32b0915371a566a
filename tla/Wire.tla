-------------------------------- MODULE Wire --------------------------------
(***************************************************************************)
(* What messages go through on their way: numbers and texts in buffers     *)
(* (Buffers), Latin-1 and UTF-8 (Utf8), encryption (Xtea).  A behaviour    *)
(* runs one of the three; the variables of the others are None.            *)
(***************************************************************************)
EXTENDS Buffers, Utf8, Xtea

None == "none"

NoCipher ==
    /\ pc = None /\ key = None /\ length = None /\ plain = None /\ data = None /\ at = None
    /\ size = None /\ i = None /\ sum = None /\ v0 = None /\ v1 = None /\ trail = None

NoExchange ==
    /\ mode = None /\ buffer = None /\ position = None /\ fields = None
    /\ limit = None /\ read_at = None /\ values = None

NoConversion ==
    /\ loop = None /\ kind = None /\ origin = None /\ src = None /\ read_pos = None
    /\ dest = None /\ write_pos = None /\ dest_capacity = None

WireInit ==
    \/ CipherInit /\ NoExchange /\ NoConversion
    \/ NoCipher /\ ExchangeInit /\ NoConversion
    \/ NoCipher /\ NoExchange /\ ConversionInit

Encrypt == pc # None /\ CipherNext /\ UNCHANGED <<exchangeVars, conversionVars>>
Exchange == ExchangeNext /\ UNCHANGED <<cipherVars, conversionVars>>
Convert == ConversionNext /\ UNCHANGED <<cipherVars, exchangeVars>>

WireNext == Encrypt \/ Exchange \/ Convert

wireVars == <<cipherVars, exchangeVars, conversionVars>>

\* Nothing that converts a text waits for anything.
WireSpec == WireInit /\ [][WireNext]_wireVars /\ WF_wireVars(Convert)

-----------------------------------------------------------------------------
\* The loops of utf8.cpp end, whatever the bytes: utf8_to_latin1 never stands still at
\* one that is neither the start nor the continuation of a sequence.
ConversionEnds == loop # None ~> loop = "done"

=============================================================================
