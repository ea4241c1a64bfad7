\* Two concurrent calls of send; services that are late, silent or wrong.
SPECIFICATION FairSpec
CONSTANTS
  Calls = {1, 2}
  Mails <- MCMails
  Channels <- MCChannels
  Unparsable <- MCUnparsable
INVARIANT AddressedInFull
PROPERTIES
  KeepsPromise
  PluginSendReturns
\* Every call returns once, then there is nothing left to do.
CHECK_DEADLOCK FALSE
