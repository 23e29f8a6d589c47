------------------------------ MODULE MCUartRx ------------------------------
(* One UART with its real ring and index, which never holds more unread      *)
(* bytes than it has places: a load that a ring of ten should bear.          *)
EXTENDS UartRx

FitsSpec == UartInit /\ [][UartNext /\ \A u \in Uarts : Unread(u)' <= RING]_uartvars
=============================================================================
