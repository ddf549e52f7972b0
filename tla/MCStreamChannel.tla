-------------------------- MODULE MCStreamChannel --------------------------
EXTENDS StreamChannel
=============================================================================
