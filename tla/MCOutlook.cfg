SPECIFICATION OutlookSpec
CONSTANTS
  None = None
  Message = {m1, m2}
  Category = {c1, c2}
  Person = {p1, p2}
  Task = {t1, t2}
  TodoList = {l1}
  Title = {a, b}
  Step = {s1, s2}
  Attachment = {x1, x2}
  Metadata = {d1, d2}
  Note = {n1}
  Day = {0, 1}
  MaxTasks = 2
  MaxSteps = 1
  MaxAttachments = 1
  FirstTasks <- MCFirstTasks
  Subject <- MCSubject
  ContactList = {k1, k2}
  Name = {a, b}
  FirstContacts <- MCFirstContacts
  MaxContacts = 2
  MaxLists = 1
  MaxMembers = 2
  MaxPreferences = 2
  Folder = {inbox, archive, sent, f1, f2}
  Label = {a}
  Inbox = inbox
  Archive = archive
  Sent = sent
  FirstMessages <- MCFirstMessages
  Until = {1}
  MaxFolders = 5
  MaxCategories = 2
  MaxPerMessage = 1
  MaxBatch = 2
  Rule = {r1, r2, r3}
  Format = {r1, r2, r3}
  QuickStep = {r1, r2, r3}
  Sweep = {r1, r2}
  Caption = {a}
  Logic = {g1, g2}
  DestructiveLogic = {g2}
  ActionList <- MCActionList
  Shortcut = {q1}
  Place = {inbox, archive}
  MaxOrder = 3
  MaxSweeps = 1
  Draft = {w1, w2}
  Text = {a, b}
  File = {y1, y2}
  Signature = {z1}
  Insert = {i1}
  Identity = {v0, v1, v2, v3}
  Primary = v0
  SharedIdentity = {v1, v3}
  DelegatedIdentity = {v2}
  Authorized = {v0, v1, v2}
  Slot = {6}
  MaxFiles = 1
  MaxRecipients = 1
  Event = {1, 2, 3}
  Calendar = {e1, e2}
  EventRequest <- MCEventRequest
  FirstEvents <- MCFirstEvents
  Horizon = 3
  Participant = {j1, j2}
  CalendarOf <- MCCalendarOf
  Required = {j1}
  EventOptions = {o1}
  Meeting = {u1}
  Series = {u1}
  Payload = {h1}
  Block = {b1, b2}
  Delegates = {0, 1}
  MaxEvents = 2
  MaxPage = 2
  MaxSlots = 1
  MaxAttendees = 1
  MaxGrants = 2
  MaxPublications = 1
  MaxShared = 2
  MaxBlocks = 1
  Poll = {n1, n2}
  Choice = {a, b}
  MaxPolls = 1
  MaxChoices = 2
  MaxVotes = 3
  MaxEmailPolls = 2
  Origin = {p1, p2}
  Destination = {p1}
  Value = {a, b}
  MaxOrigins = 2
  Item = {1, 2, 3, 4}
  MaxLimit = 2
  MaxRemovals = 2
INVARIANTS
  OutlookTypeOK
  CatalogsAgree
  
PROPERTIES
  DeletedKeysAreFrozen
  FinalStaysFinal
  
  EffectsAreAllowed
