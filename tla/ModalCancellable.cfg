CONSTANTS
  alert = alert
  loading = loading
  approval = approval
  suspend = suspend
  NoModal = NoModal
  Modals <- MCModals
  Locking = {}
  Alert = alert
  MaxBuffer = 4
SPECIFICATION Spec
INVARIANTS SingleDialog NoTypeError
PROPERTY ServesSlot
