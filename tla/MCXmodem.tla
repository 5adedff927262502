------------------------------ MODULE MCXmodem ------------------------------
EXTENDS Xmodem
=============================================================================
