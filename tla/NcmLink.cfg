SPECIFICATION Spec
CONSTANTS
  Speeds = {2, 3}
  HostMaxes = {2, 4}
  MinSize = 2
  MaxSize = 4
  MaxEvents = 2
  MaxNotes = 1
  Macs <- SomeMacs
INVARIANTS
  TypeOK
  DataAgrees
  WorkingIsReady
  LinkIsTrue
  EndsDiffer
  FormatOnlyAtSettingZero
PROPERTIES
  ImplementsFnDevice
  LinkComesUp
  RequestsEnd
