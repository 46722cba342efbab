SPECIFICATION SettingsSpec
CONSTANTS
  home = home
  farm = farm
  macros = macros
  hotkey = hotkey
  wechat = wechat
  phone = phone
  tablet = tablet
  r1 = r1
  r2 = r2
  Browsers = {home, farm}
  Keys = {macros, hotkey}
  Accounts = {wechat}
  Udids = {phone, tablet}
  Requests = {r1, r2}
  MaxSaves = 3
  MaxFailures = 1
SYMMETRY Symmetry
INVARIANTS SettingsTypeOK NewestIsStored
