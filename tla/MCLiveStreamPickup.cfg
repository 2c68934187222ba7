SPECIFICATION LiveSpec
CONSTANTS
  answer = answer
  mail = mail
  garbled = garbled
  request = request
  mailId = mailId
  NoKey = NoKey
  Messages = {answer, mail, garbled}
  Unreadable = {garbled}
  Keys = {request, mailId}
  KeyOf <- Key
  Requests = {request}
  Wanted = {request, mailId}
  CommandCap = 1
  EventCap = 1
  Cancels = FALSE
  MaxCalls = 3
PROPERTIES
  AnswerIsReturned
CHECK_DEADLOCK FALSE
