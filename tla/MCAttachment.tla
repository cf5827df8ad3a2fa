---------------------------- MODULE MCAttachment ----------------------------
EXTENDS Attachment

TwoNames == <<"cook", "waiter">>

=============================================================================
