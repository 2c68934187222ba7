SPECIFICATION FairLiveSpec
CONSTANTS
  answer = answer
  mail = mail
  garbled = garbled
  request = request
  mailId = mailId
  NoKey = NoKey
  Messages = {mail}
  Unreadable = {}
  Keys = {request, mailId}
  KeyOf <- Key
  Requests = {}
  Wanted = {request, mailId}
  CommandCap = 1
  EventCap = 1
  Cancels = FALSE
  MaxCalls = 1
PROPERTIES
  ZeroDoesNotBlock
CHECK_DEADLOCK FALSE
