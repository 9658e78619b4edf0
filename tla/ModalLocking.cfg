CONSTANTS
  alert = alert
  loading = loading
  approval = approval
  suspend = suspend
  NoModal = NoModal
  Modals <- MCModals
  Locking = {alert}
  Alert = alert
  MaxBuffer = 4
SPECIFICATION Spec
SYMMETRY MCSymmetry
INVARIANT HideServed
PROPERTY LockKept
