\* Two tabs of each application, three people, three sign-ins.
SPECIFICATION Spec
CONSTANTS
  ana = ana
  beto = beto
  carla = carla
  Tabs = {t1, t2}
  Users = {ana, beto, carla}
  RoleOf <- MCRoleOf
  Nobody = Nobody
  MaxSignIns = 3
SYMMETRY Symmetry
INVARIANTS TypeOK OrdersOfTheUserShown InsideByRole
CHECK_DEADLOCK FALSE
