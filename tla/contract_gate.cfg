CONSTANTS
  f = f  s1 = s1  s2 = s2  n = n  p1 = p1
  Fields = {f}
  Values = {s1, s2, n}
  Types = {"string", "number"}
  Matches <- TypesOfValues
  Contracts <- FieldContracts
  Payloads <- FieldPayloads
  Processes = {p1}
  Null = Null  Missing = Missing  Untyped = Untyped  NoList = NoList
  NoContract = NoContract  Unread = Unread
SPECIFICATION GateSpec
INVARIANTS StoredStaysValid
PROPERTIES GateIsSound
